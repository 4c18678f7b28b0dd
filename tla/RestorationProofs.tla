-------------------------- MODULE RestorationProofs --------------------------
(***************************************************************************)
(* A directory that a restore filled in part is never served, for any       *)
(* manifest and any number of other processes that use its lease.           *)
(*                                                                         *)
(* The argument joins the lease to the marker: while the restore writes it  *)
(* holds the lease (InHand), so no server is open when the marker appears,  *)
(* and afterwards the marker keeps every server out (Marked).  That the     *)
(* marker goes away only when nothing is partial needs to know which blobs  *)
(* are still to come (Copied) and that one file is written at a time.  That *)
(* a blob in the destination is never other bytes is RestoreTyped, and rests*)
(* on the hash of what was read (Copied).                                   *)
(***************************************************************************)
EXTENDS Restoration, TLAPS

\* The lease's own invariant.
LeaseInv == LeaseTypeOK /\ LeaseIsHeld

Steps == {"idle", "verified", "made", "marked", "writing", "unmarked", "ended"}

RestoreTyped ==
    /\ blobs \in [Digests -> {"absent", "partial", "intact"}]
    /\ marker \in BOOLEAN /\ serving \in BOOLEAN
    /\ step \in Steps
    /\ copying \subseteq Manifest

\* Server and restore touch the directory only while they hold its lease.
InHand ==
    /\ serving => phase[Server] = "holding"
    /\ step \in {"marked", "writing", "unmarked"} => phase[Restorer] = "holding"

\* The marker is there as long as the restore fills the directory and for as
\* long as part of a blob is in it, and no server is open then.
Marked ==
    /\ marker => ~serving
    /\ step \in {"marked", "writing"} => marker
    /\ \A d \in Digests : blobs[d] = "partial" => marker /\ step \in {"writing", "ended"}
    /\ step = "writing" =>
          \A d, e \in Digests : blobs[d] = "partial" /\ blobs[e] = "partial" => d = e

\* What the manifest names and is no longer to be copied is whole, and without
\* the marker nothing or all of it has been copied.
Copied ==
    /\ step \in {"idle", "verified", "made"} => copying = Manifest
    /\ step = "writing" => bytes = "intact"
    /\ step = "unmarked" => copying = {}
    /\ \A d \in Manifest \ copying : blobs[d] = "intact"
    /\ ~marker => copying \in {{}, Manifest}

RestoreInv == LeaseInv /\ RestoreTyped /\ InHand /\ Marked /\ Copied

-----------------------------------------------------------------------------
(* The lease, whoever uses it.                                             *)

\* Before any process starts there is no lock to hold.
LEMMA LeaseInitially == LeaseInit => LeaseInv
  BY LeaseConstants DEF LeaseInit, LeaseInv, LeaseTypeOK, LeaseIsHeld, Phases

\* No acquire, release, failure, crash or clean-up breaks the invariant.
LEMMA LeaseStep == LeaseInv /\ [LeaseNext]_leaseVars => LeaseInv'
<1> SUFFICES ASSUME LeaseInv, [LeaseNext]_leaseVars PROVE LeaseInv'
  OBVIOUS
<1> USE LeaseConstants DEF LeaseInv, LeaseTypeOK, LeaseIsHeld, Phases
<1>1. ASSUME NEW p \in Processes, makeLock(p) PROVE LeaseInv'
  BY <1>1 DEF makeLock, become
<1>2. ASSUME NEW p \in Processes, writeOwner(p) PROVE LeaseInv'
  BY <1>2 DEF writeOwner, become
<1>3. ASSUME NEW p \in Processes, writeOwnerFails(p) PROVE LeaseInv'
  BY <1>3 DEF writeOwnerFails, become
<1>4. ASSUME NEW p \in Processes, removeOwner(p) PROVE LeaseInv'
  BY <1>4 DEF removeOwner, become
<1>5. ASSUME NEW p \in Processes, removeLock(p) PROVE LeaseInv'
  BY <1>5 DEF removeLock, become
<1>6. ASSUME NEW p \in Processes, crash(p) PROVE LeaseInv'
  BY <1>6 DEF crash, become
<1>7. CASE clearAbandonedLock
  BY <1>7 DEF clearAbandonedLock
<1>8. CASE UNCHANGED leaseVars
  BY <1>8 DEF leaseVars
<1>9. QED
  BY <1>1, <1>2, <1>3, <1>4, <1>5, <1>6, <1>7, <1>8 DEF LeaseNext

-----------------------------------------------------------------------------
(* The restore.                                                            *)

\* No restore has begun and no process has come.
LEMMA RestoreInitially == Init => RestoreInv
<1> SUFFICES ASSUME Init PROVE RestoreInv
  OBVIOUS
<1>1. LeaseInv
  BY LeaseInitially DEF Init
<1>2. RestoreTyped /\ InHand /\ Marked /\ Copied
  BY DEF Init, RestoreTyped, Steps, InHand, Marked, Copied
<1>3. QED
  BY <1>1, <1>2 DEF RestoreInv

\* Every step is a step of the lease, or none: the invariant of the lease is kept.
LEMMA RestoreKeepsLease == LeaseInv /\ Next => LeaseInv'
<1> SUFFICES ASSUME Next PROVE [LeaseNext]_leaseVars
  BY LeaseStep
<1>1. CASE UNCHANGED leaseVars
  BY <1>1
<1>2. CASE acquire \/ release \/ restorerCrashes
  BY <1>2, RestorationConstants DEF acquire, release, restorerCrashes, LeaseNext
<1>3. CASE serverAcquires \/ serverCloses \/ serverCrashes \/ clearLock
  BY <1>3, RestorationConstants DEF serverAcquires, serverCloses, serverCrashes, clearLock, LeaseNext
<1>4. QED
  BY <1>1, <1>2, <1>3 DEF Next, verify, freshDestination, writeMarker, removeMarker, fails,
     serverOpens, copyBlob, finishBlob, serverStores, backupChanges

\* The holder of the lease is alone: the restore and an open server exclude
\* each other.
LEMMA RestorerIsAlone ==
  ASSUME RestoreInv, phase[Restorer] = "holding"
  PROVE  ~serving /\ phase[Server] # "holding"
  BY RestorationConstants DEF RestoreInv, LeaseInv, LeaseIsHeld, InHand

\* Steps of the restore before it fills the directory, and its end.
LEMMA AroundKeeps ==
  ASSUME RestoreInv,
         \/ verify \/ freshDestination \/ acquire \/ fails \/ release \/ restorerCrashes
  PROVE  RestoreTyped' /\ InHand' /\ Marked' /\ Copied'
<1> USE RestorationConstants DEF RestoreInv, RestoreTyped, Steps, InHand, Marked, Copied
<1>1. CASE verify
  BY <1>1 DEF verify, leaseVars
<1>2. CASE freshDestination
  BY <1>2 DEF freshDestination, leaseVars
<1>3. CASE acquire
  BY <1>3 DEF acquire, makeLock, writeOwner, writeOwnerFails, become, leaseVars, LeaseInv, LeaseTypeOK
<1>4. CASE fails
  BY <1>4 DEF fails, leaseVars
<1>5. CASE release
  BY <1>5 DEF release, removeOwner, removeLock, become, LeaseInv, LeaseTypeOK
<1>6. CASE restorerCrashes
  BY <1>6 DEF restorerCrashes, crash, become, LeaseInv, LeaseTypeOK
<1>7. QED
  BY <1>1, <1>2, <1>3, <1>4, <1>5, <1>6

\* The marker appears under the lease, when no server is open, and goes when
\* nothing is left to copy.
LEMMA MarkerKeeps ==
  ASSUME RestoreInv, writeMarker \/ removeMarker
  PROVE  RestoreTyped' /\ InHand' /\ Marked' /\ Copied'
<1> USE DEF RestoreInv, RestoreTyped, Steps, InHand, Marked, Copied
<1>1. CASE writeMarker
  <2>1. ~serving
    BY <1>1, RestorerIsAlone DEF writeMarker
  <2>2. QED
    BY <1>1, <2>1 DEF writeMarker, leaseVars
<1>2. CASE removeMarker
  BY <1>2 DEF removeMarker, leaseVars
<1>3. QED
  BY <1>1, <1>2

\* One blob at a time is begun and finished.
LEMMA CopyKeeps ==
  ASSUME RestoreInv, NEW d \in Digests, copyBlob(d) \/ finishBlob(d)
  PROVE  RestoreTyped' /\ InHand' /\ Marked' /\ Copied'
<1> USE DEF RestoreInv, RestoreTyped, Steps, InHand, Marked, Copied
<1>1. CASE copyBlob(d)
  BY <1>1 DEF copyBlob, readBlob, leaseVars
<1>2. CASE finishBlob(d)
  BY <1>2 DEF finishBlob, leaseVars
<1>3. QED
  BY <1>1, <1>2

\* Steps of the server, the operator and the backup directory.
LEMMA OutsideKeeps ==
  ASSUME RestoreInv,
         \/ serverAcquires \/ serverOpens \/ serverCloses \/ serverCrashes \/ clearLock
         \/ \E d \in Digests : serverStores(d) \/ backupChanges(d)
  PROVE  RestoreTyped' /\ InHand' /\ Marked' /\ Copied'
<1> USE RestorationConstants
    DEF RestoreInv, RestoreTyped, Steps, InHand, Marked, Copied, LeaseInv, LeaseTypeOK
<1>1. CASE serverAcquires
  BY <1>1 DEF serverAcquires, makeLock, writeOwner, writeOwnerFails, become
<1>2. CASE serverOpens
  BY <1>2 DEF serverOpens, leaseVars, restoreVars
<1>3. CASE serverCloses
  BY <1>3 DEF serverCloses, removeOwner, removeLock, become, restoreVars
<1>4. CASE serverCrashes
  BY <1>4 DEF serverCrashes, crash, become, restoreVars
<1>5. CASE clearLock
  BY <1>5 DEF clearLock, clearAbandonedLock, restoreVars
<1>6. ASSUME NEW d \in Digests, serverStores(d)
      PROVE  RestoreTyped' /\ InHand' /\ Marked' /\ Copied'
  BY <1>6 DEF serverStores, leaseVars
<1>7. ASSUME NEW d \in Digests, backupChanges(d)
      PROVE  RestoreTyped' /\ InHand' /\ Marked' /\ Copied'
  BY <1>7 DEF backupChanges, leaseVars
<1>8. QED
  BY <1>1, <1>2, <1>3, <1>4, <1>5, <1>6, <1>7

\* Every step keeps the invariant.
LEMMA RestoreStep == RestoreInv /\ [Next]_vars => RestoreInv'
<1> SUFFICES ASSUME RestoreInv, [Next]_vars PROVE RestoreInv'
  OBVIOUS
<1>1. CASE UNCHANGED vars
  BY <1>1 DEF vars, restoreVars, RestoreInv, LeaseInv, LeaseTypeOK, LeaseIsHeld, RestoreTyped,
     InHand, Marked, Copied
<1>2. CASE Next
  <2>1. LeaseInv'
    BY <1>2, RestoreKeepsLease DEF RestoreInv
  <2>2. RestoreTyped' /\ InHand' /\ Marked' /\ Copied'
    BY <1>2, AroundKeeps, MarkerKeeps, CopyKeeps, OutsideKeeps DEF Next
  <2>3. QED
    BY <2>1, <2>2 DEF RestoreInv
<1>3. QED
  BY <1>1, <1>2

-----------------------------------------------------------------------------
\* Whatever fails, crashes or is started meanwhile, lease, marker and blobs agree.
THEOREM RestoreInvariance == Spec => []RestoreInv
<1>1. QED
  BY RestoreInitially, RestoreStep, PTL DEF Spec

\* restore-state.ts assertRestoreComplete: no server is ever open on a directory
\* that a restore filled in part.
THEOREM PartialStoreIsNotServed == Spec => []ServedStoreIsWhole
<1>1. RestoreInv => ServedStoreIsWhole
  BY DEF RestoreInv, RestoreTyped, Marked, ServedStoreIsWhole
<1>2. QED
  BY <1>1, RestoreInvariance, PTL

\* backup.ts restoreCipherstoreBackup: a directory without the marker has no
\* partial or damaged blob, and all that the manifest names if the restore has
\* copied anything into it, however it has ended since.
THEOREM UnmarkedIsWhole == Spec => []UnmarkedMeansWhole
<1>1. RestoreInv => UnmarkedMeansWhole
  BY DEF RestoreInv, RestoreTyped, Marked, Copied, UnmarkedMeansWhole
<1>2. QED
  BY <1>1, RestoreInvariance, PTL
=============================================================================
