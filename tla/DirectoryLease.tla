---------------------------- MODULE DirectoryLease ---------------------------
(***************************************************************************)
(* cipherstore/src/directory-lease.ts: the directory `.vulnseal-writer.lock` *)
(* excludes every process that would write a cipherstore data directory at  *)
(* the same time: servers, backup, restore and retirement.  mkdir and rmdir *)
(* are atomic and survive the process; nothing else about the lease does.   *)
(* An acquire that finds the lock fails and its process exits, which leaves *)
(* every variable as it was.                                                *)
(***************************************************************************)
CONSTANTS Processes, Nobody

ASSUME LeaseConstants == Nobody \notin Processes

VARIABLES
    lock,           \* the process that made the lock directory, or Nobody
    owner,          \* the process whose token owner.json holds, or Nobody
    phase           \* where each process is in acquire and release

leaseVars == <<lock, owner, phase>>

Phases == {"exited", "locking", "holding", "unlocking"}

\* Types of what is on disk and of where each process is.
LeaseTypeOK ==
    /\ lock \in Processes \cup {Nobody}
    /\ owner \in Processes \cup {Nobody}
    /\ phase \in [Processes -> Phases]

LeaseInit == lock = Nobody /\ owner = Nobody /\ phase = [p \in Processes |-> "exited"]

become(p, next) == phase' = [phase EXCEPT ![p] = next]

makeLock_TestsOwner(p) ==
    /\ phase[p] = "exited"
    /\ owner = Nobody
    /\ lock' = p /\ become(p, "locking")
    /\ UNCHANGED owner

\* mkdir(lock) is the test and the claim in one call.
makeLock(p) ==
    /\ phase[p] = "exited"
    /\ lock = Nobody
    /\ lock' = p /\ become(p, "locking")
    /\ UNCHANGED owner

writeOwner(p) ==
    /\ phase[p] = "locking"
    /\ owner' = p /\ become(p, "holding")
    /\ UNCHANGED lock

\* owner.json cannot be written: rmdir(lock) is tried and its failure ignored.
writeOwnerFails(p) ==
    /\ phase[p] = "locking"
    /\ lock' \in {Nobody, lock}
    /\ become(p, "exited")
    /\ UNCHANGED owner

\* The release: the token is compared, owner.json goes first, the lock last.
removeOwner(p) ==
    /\ phase[p] = "holding"
    /\ owner = p
    /\ owner' = Nobody /\ become(p, "unlocking")
    /\ UNCHANGED lock

removeLock(p) ==
    /\ phase[p] = "unlocking"
    /\ lock' = Nobody /\ become(p, "exited")
    /\ UNCHANGED owner

\* The process dies, or its release throws: whatever it made stays on disk.
crash(p) ==
    /\ phase[p] # "exited"
    /\ become(p, "exited")
    /\ UNCHANGED <<lock, owner>>

\* The operator inspects a lock and removes it once its process is gone.
clearAbandonedLock ==
    /\ lock # Nobody
    /\ phase[lock] = "exited"
    /\ lock' = Nobody /\ owner' = Nobody
    /\ UNCHANGED phase

LeaseNext ==
    \/ \E p \in Processes :
        \/ makeLock(p) \/ writeOwner(p) \/ writeOwnerFails(p)
        \/ removeOwner(p) \/ removeLock(p) \/ crash(p)
    \/ clearAbandonedLock

LeaseSpec == LeaseInit /\ [][LeaseNext]_leaseVars

-----------------------------------------------------------------------------
\* The lock directory is on disk, made by it, for as long as a process is
\* between acquire and the end of release, and owner.json carries its token
\* while it may touch the data directory.  So a lock that another process made
\* (or an operator cleared under a live one) is never mistaken for its own.
LeaseIsHeld ==
    \A p \in Processes :
        /\ phase[p] # "exited" => lock = p
        /\ phase[p] = "holding" => owner = p

\* Two processes never hold the directory at the same time, whatever crashes,
\* failed acquires and manual clean-ups came before (withDirectoryWrite only
\* orders writes inside one process, so quotas and backups depend on this).
OneHolder ==
    \A p, q \in Processes : phase[p] = "holding" /\ phase[q] = "holding" => p = q
=============================================================================
