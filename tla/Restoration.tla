------------------------------ MODULE Restoration ----------------------------
(***************************************************************************)
(* `backup.js restore` (cipherstore/src/backup.ts) into a directory that a  *)
(* server may be pointed at while it is being filled, and restore-state.ts, *)
(* which keeps that server out.  The restored directory has its own lease;  *)
(* the backup directory has none, and may change under the restore.         *)
(*                                                                         *)
(* A blob is written in place, so a crash leaves part of it; the marker     *)
(* `.vulnseal-restore-incomplete` is what tells.  An operator who runs the   *)
(* restore again names another fresh directory, which is again this model.  *)
(***************************************************************************)
EXTENDS DirectoryLease

CONSTANTS Restorer, Server, Digests,
          Manifest,         \* the digests the backup's manifest lists
          Retired           \* the retirement policy given to the restore

ASSUME RestorationConstants ==
    /\ Restorer # Server /\ {Restorer, Server} \subseteq Processes
    /\ Manifest \subseteq Digests /\ Retired \subseteq Digests

VARIABLES
    source,         \* digest -> what the backup directory holds for it: absent, damaged
                    \* (bytes that do not hash to it) or intact
    made,           \* the destination directory exists
    marker,         \* the marker of an unfinished restore exists in it
    blobs,          \* digest -> what the destination holds: absent, partial, damaged or intact
    step,           \* where the restore is: idle, verified, made, marked, writing,
                    \* unmarked or ended
    copying,        \* digests it has still to copy
    bytes,          \* what it last read of the backup
    serving         \* the server is open on the destination

restoreVars == <<source, made, marker, blobs, step, copying, bytes>>
vars == <<lock, owner, phase, restoreVars, serving>>

Init ==
    /\ LeaseInit
    /\ source = [d \in Digests |-> IF d \in Manifest THEN "intact" ELSE "absent"]
    /\ made = FALSE /\ marker = FALSE /\ serving = FALSE
    /\ blobs = [d \in Digests |-> "absent"]
    /\ step = "idle"
    /\ copying = Manifest
    /\ bytes = "absent"

-----------------------------------------------------------------------------
(* restoreCipherstoreBackup.                                               *)

readBlob_Unhashed(d) == source[d] # "absent"

\* readBlob returns bytes only when they hash to the digest.
readBlob(d) == source[d] = "intact"

\* verifyCipherstoreBackup reads the whole backup, and the policy is asked
\* about every entry, before anything is made.
verify ==
    /\ step = "idle" /\ phase[Restorer] = "exited"
    /\ \A d \in Manifest : readBlob(d) /\ d \notin Retired
    /\ step' = "verified"
    /\ UNCHANGED <<leaseVars, source, made, marker, blobs, copying, bytes, serving>>

\* mkdir without `recursive`: a directory that exists ends the restore.
freshDestination ==
    /\ step = "verified"
    /\ step' = IF made THEN "ended" ELSE "made"
    /\ made' = TRUE
    /\ UNCHANGED <<leaseVars, source, marker, blobs, copying, bytes, serving>>

\* A server may have been quicker: then the lease is refused and it is over.
acquire ==
    /\ step = "made"
    /\ \/ makeLock(Restorer) /\ UNCHANGED step
       \/ writeOwner(Restorer) /\ UNCHANGED step
       \/ writeOwnerFails(Restorer) /\ step' = "ended"
       \/ phase[Restorer] = "exited" /\ lock # Nobody /\ step' = "ended" /\ UNCHANGED leaseVars
    /\ UNCHANGED <<source, made, marker, blobs, copying, bytes, serving>>

writeMarker_Skipped ==
    /\ step = "made" /\ phase[Restorer] = "holding"
    /\ step' = "marked"
    /\ UNCHANGED <<leaseVars, source, made, marker, blobs, copying, bytes, serving>>

writeMarker ==
    /\ step = "made" /\ phase[Restorer] = "holding"
    /\ marker' = TRUE /\ step' = "marked"
    /\ UNCHANGED <<leaseVars, source, made, blobs, copying, bytes, serving>>

\* The blob is read again; then the file is made, exclusively ...
copyBlob(d) ==
    /\ step = "marked" /\ d \in copying
    /\ readBlob(d) /\ bytes' = source[d]
    /\ blobs[d] = "absent"
    /\ blobs' = [blobs EXCEPT ![d] = "partial"]
    /\ step' = "writing"
    /\ UNCHANGED <<leaseVars, source, made, marker, copying, serving>>

\* ... and what was read is written and flushed.
finishBlob(d) ==
    /\ step = "writing" /\ d \in copying /\ blobs[d] = "partial"
    /\ blobs' = [blobs EXCEPT ![d] = bytes]
    /\ copying' = copying \ {d}
    /\ step' = "marked"
    /\ UNCHANGED <<leaseVars, source, made, marker, bytes, serving>>

removeMarker ==
    /\ step = "marked" /\ copying = {}
    /\ marker' = FALSE /\ step' = "unmarked"
    /\ UNCHANGED <<leaseVars, source, made, blobs, copying, bytes, serving>>

\* Any file operation may throw, and so does a backup that has changed.
fails ==
    /\ phase[Restorer] = "holding" /\ step \in {"made", "marked", "writing"}
    /\ step' = "ended"
    /\ UNCHANGED <<leaseVars, source, made, marker, blobs, copying, bytes, serving>>

\* `finally` releases the lease, whether or not the marker is gone.
release ==
    /\ \/ step \in {"unmarked", "ended"} /\ removeOwner(Restorer)
       \/ removeLock(Restorer)
    /\ step' = "ended"
    /\ UNCHANGED <<source, made, marker, blobs, copying, bytes, serving>>

restorerCrashes ==
    /\ crash(Restorer)
    /\ step' = "ended"
    /\ UNCHANGED <<source, made, marker, blobs, copying, bytes, serving>>

-----------------------------------------------------------------------------
(* A server pointed at the destination, and what happens to the backup.    *)

\* The entrypoint makes the directory when it is not there yet.
serverAcquires ==
    /\ makeLock(Server) \/ writeOwner(Server) \/ writeOwnerFails(Server)
    /\ made' = TRUE
    /\ UNCHANGED <<source, marker, blobs, step, copying, bytes, serving>>

serverOpens_Unchecked ==
    /\ phase[Server] = "holding" /\ ~serving
    /\ serving' = TRUE
    /\ UNCHANGED <<leaseVars, restoreVars>>

\* assertRestoreComplete, then listen.
serverOpens ==
    /\ phase[Server] = "holding" /\ ~serving
    /\ ~marker
    /\ serving' = TRUE
    /\ UNCHANGED <<leaseVars, restoreVars>>

\* Refused by the marker, or stopped.
serverCloses ==
    /\ removeOwner(Server) \/ removeLock(Server)
    /\ serving' = FALSE
    /\ UNCHANGED restoreVars

serverCrashes ==
    /\ crash(Server)
    /\ serving' = FALSE
    /\ UNCHANGED restoreVars

\* The ImmutableStore the server is: an upload of a digest that is not there.
serverStores(d) ==
    /\ serving /\ blobs[d] = "absent"
    /\ blobs' = [blobs EXCEPT ![d] = "intact"]
    /\ UNCHANGED <<leaseVars, source, made, marker, step, copying, bytes, serving>>

\* The backup directory loses or changes a file.
backupChanges(d) ==
    /\ source[d] = "intact"
    /\ \E now \in {"absent", "damaged"} : source' = [source EXCEPT ![d] = now]
    /\ UNCHANGED <<leaseVars, made, marker, blobs, step, copying, bytes, serving>>

clearLock == clearAbandonedLock /\ UNCHANGED <<restoreVars, serving>>

Next ==
    \/ verify \/ freshDestination \/ acquire \/ writeMarker \/ removeMarker
    \/ fails \/ release \/ restorerCrashes
    \/ serverAcquires \/ serverOpens \/ serverCloses \/ serverCrashes \/ clearLock
    \/ \E d \in Digests : copyBlob(d) \/ finishBlob(d) \/ serverStores(d) \/ backupChanges(d)

Spec == Init /\ [][Next]_vars

-----------------------------------------------------------------------------
\* A server is never open on a directory with part of a blob in it, or with
\* bytes that are not the blob's, nor on one that a restore began to fill and did
\* not finish, whenever it was started, whatever failed, whichever abandoned lock
\* was cleared and however the backup changed meanwhile.
ServedStoreIsWhole ==
    serving => /\ ~marker
               /\ \A d \in Digests : blobs[d] \in {"absent", "intact"}
               /\ step \notin {"marked", "writing"}

\* A directory without the marker into which the restore has copied anything
\* holds all that the manifest names, unaltered, from the end of the restore on;
\* and without the marker nothing else in it is partial or damaged either.
UnmarkedMeansWhole ==
    ~marker => /\ copying # Manifest => \A d \in Manifest : blobs[d] = "intact"
               /\ \A d \in Digests : blobs[d] \in {"absent", "intact"}

\* "No operation merges, overwrites or deletes an existing store"
\* (docs/cipherstore-operations.md:139): a restored directory holds what the
\* manifest names and nothing else when the restore ends.  mkdir makes the
\* directory fresh but the lease is taken later, and a server may have come and
\* gone between the two.
RestoreNeverMerges ==
    step = "unmarked" => \A d \in Digests \ Manifest : blobs[d] = "absent"
=============================================================================
