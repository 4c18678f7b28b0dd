------------------------ MODULE CipherstoreMaintenance -----------------------
(***************************************************************************)
(* A cipherstore with the two offline tools of its operator: `backup.js     *)
(* create` (cipherstore/src/backup.ts) and `retire.js plan | apply`         *)
(* (retire.ts).  Each is a process of its own that takes the same directory *)
(* lease as the server, works on the server's files and dies where it may.  *)
(* Both walk sorted names; here any order of the same names.                *)
(***************************************************************************)
EXTENDS Cipherstore

CONSTANTS BackupTool, RetireTool,
          Retired           \* the digests of the policy file given to retire.js

ASSUME MaintenanceConstants ==
    /\ BackupTool # RetireTool
    /\ {BackupTool, RetireTool} \subseteq Processes \ Servers
    /\ Retired \subseteq Digests

VARIABLES
    backup,         \* the backup being made: its step, names to copy, blobs copied
    retirement,     \* the retirement being applied: its step, and digests to remove
    reviewed,       \* the inventory of the plan that the operator reviewed
    audit           \* the audit file of the last apply: what it planned and recorded

toolVars == <<backup, retirement, reviewed, audit>>
maintenanceVars == <<vars, toolVars>>

NoInventory == {NoDigest}
NoBackup == [step |-> "idle", todo |-> {}, output |-> {}]
NoRetirement == [step |-> "idle", todo |-> {}]
NoAudit == [present |-> {}, removed |-> {}, completed |-> FALSE]

MaintenanceInit ==
    /\ Init
    /\ backup = NoBackup
    /\ retirement = NoRetirement
    /\ reviewed = NoInventory
    /\ audit = NoAudit

aside == UNCHANGED <<queue, activeUploads, request, stage, policy>>
storeAside == aside /\ UNCHANGED <<files, acked>>

-----------------------------------------------------------------------------
(* createCipherstoreBackup.                                                *)

backupAcquires ==
    /\ makeLock(BackupTool) \/ writeOwner(BackupTool) \/ writeOwnerFails(BackupTool)
    /\ UNCHANGED toolVars /\ storeAside

\* The names are listed once, then the fresh destination is made.
listStore ==
    /\ phase[BackupTool] = "holding" /\ backup.step = "idle"
    /\ backup' = [step |-> "copying", todo |-> StoredDigests, output |-> {}]
    /\ UNCHANGED <<leaseVars, retirement, reviewed, audit>> /\ storeAside

\* Every blob is read back, hashed and validated before it is written.
copyBlob(d) ==
    /\ backup.step = "copying" /\ d \in backup.todo
    /\ files[d] = "intact"
    /\ backup' = [backup EXCEPT !.todo = @ \ {d}, !.output = @ \cup {d}]
    /\ UNCHANGED <<leaseVars, retirement, reviewed, audit>> /\ storeAside

\* The manifest goes last: a directory without it is no backup.
writeManifest ==
    /\ backup.step = "copying" /\ backup.todo = {}
    /\ backup' = [backup EXCEPT !.step = "sealed"]
    /\ UNCHANGED <<leaseVars, retirement, reviewed, audit>> /\ storeAside

\* A restore marker, an unknown entry, a digest that does not match, no disk.
backupFails ==
    /\ phase[BackupTool] = "holding" /\ backup.step \in {"idle", "copying"}
    /\ backup' = [NoBackup EXCEPT !.step = "failed"]
    /\ UNCHANGED <<leaseVars, retirement, reviewed, audit>> /\ storeAside

backupReleases ==
    /\ \/ backup.step \in {"sealed", "failed"} /\ removeOwner(BackupTool)
       \/ removeLock(BackupTool)
    /\ backup' = NoBackup
    /\ UNCHANGED <<retirement, reviewed, audit>> /\ storeAside

backupCrashes ==
    /\ crash(BackupTool)
    /\ backup' = NoBackup
    /\ UNCHANGED <<retirement, reviewed, audit>> /\ storeAside

-----------------------------------------------------------------------------
(* retireCiphertext.                                                       *)

\* Every run writes an audit file of its own.
retireAcquires ==
    /\ \/ makeLock(RetireTool) /\ audit' = NoAudit
       \/ (writeOwner(RetireTool) \/ writeOwnerFails(RetireTool)) /\ UNCHANGED audit
    /\ UNCHANGED <<backup, retirement, reviewed>> /\ storeAside

plan ==
    /\ phase[RetireTool] = "holding" /\ retirement.step = "idle"
    /\ reviewed' = StoredDigests
    /\ retirement' = [retirement EXCEPT !.step = "ended"]
    /\ UNCHANGED <<leaseVars, backup, audit>> /\ storeAside

beginApply ==
    /\ phase[RetireTool] = "holding" /\ retirement.step = "idle"
    /\ LET present == Retired \cap StoredDigests
       IN  /\ retirement' = [step |-> "removing", todo |-> present]
           /\ audit' = [NoAudit EXCEPT !.present = present]
    /\ UNCHANGED <<leaseVars, backup, reviewed>> /\ storeAside

apply_SkipsReview == beginApply

\* The plan is computed afresh and must be the one that was reviewed.
apply == reviewed = StoredDigests /\ beginApply

removeBlob_Unrecorded(d) ==
    /\ retirement.step = "removing" /\ d \in retirement.todo
    /\ files' = [files EXCEPT ![d] = "absent"]
    /\ acked' = acked \ {d}
    /\ retirement' = [retirement EXCEPT !.todo = @ \ {d}]
    /\ UNCHANGED <<leaseVars, backup, reviewed, audit>> /\ aside

\* unlink comes first; a retired digest is no longer promised to anybody.
removeBlob(d) ==
    /\ retirement.step = "removing" /\ d \in retirement.todo
    /\ files' = [files EXCEPT ![d] = "absent"]
    /\ acked' = acked \ {d}
    /\ retirement' = [retirement EXCEPT !.step = "recording"]
    /\ UNCHANGED <<leaseVars, backup, reviewed, audit>> /\ aside

\* The record of the removal follows, flushed, before the next one.
recordRemoval(d) ==
    /\ retirement.step = "recording"
    /\ d \in retirement.todo \ StoredDigests
    /\ audit' = [audit EXCEPT !.removed = @ \cup {d}]
    /\ retirement' = [step |-> "removing", todo |-> retirement.todo \ {d}]
    /\ UNCHANGED <<leaseVars, backup, reviewed>> /\ storeAside

complete ==
    /\ retirement.step = "removing" /\ retirement.todo = {}
    /\ audit' = [audit EXCEPT !.completed = TRUE]
    /\ retirement' = [retirement EXCEPT !.step = "ended"]
    /\ UNCHANGED <<leaseVars, backup, reviewed>> /\ storeAside

\* The plan changed, or a removal or a record failed: the rest is left alone.
retireFails ==
    /\ phase[RetireTool] = "holding" /\ retirement.step \in {"idle", "removing", "recording"}
    /\ retirement' = [NoRetirement EXCEPT !.step = "ended"]
    /\ UNCHANGED <<leaseVars, backup, reviewed, audit>> /\ storeAside

retireReleases ==
    /\ \/ retirement.step = "ended" /\ removeOwner(RetireTool)
       \/ removeLock(RetireTool)
    /\ retirement' = NoRetirement
    /\ UNCHANGED <<backup, reviewed, audit>> /\ storeAside

retireCrashes ==
    /\ crash(RetireTool)
    /\ retirement' = NoRetirement
    /\ UNCHANGED <<backup, reviewed, audit>> /\ storeAside

-----------------------------------------------------------------------------
ToolNext ==
    \/ backupAcquires \/ listStore \/ writeManifest \/ backupFails
    \/ backupReleases \/ backupCrashes
    \/ retireAcquires \/ plan \/ apply \/ complete \/ retireFails
    \/ retireReleases \/ retireCrashes
    \/ \E d \in Digests : copyBlob(d) \/ removeBlob(d) \/ recordRemoval(d)

MaintenanceNext == ToolNext \/ (Next /\ UNCHANGED toolVars)

MaintenanceSpec == MaintenanceInit /\ [][MaintenanceNext]_maintenanceVars

\* As for the server alone; nobody need start a tool, and a tool that has the
\* directory need not end.
MaintenanceLiveSpec == MaintenanceSpec /\ Fairness

-----------------------------------------------------------------------------
\* When the manifest is written the backup holds exactly what the store holds,
\* and with it everything the server ever acknowledged and nobody retired.
BackupIsComplete ==
    backup.step = "sealed" => backup.output = StoredDigests /\ acked \subseteq backup.output

\* A blob disappears only in an apply, if the policy retires it and it was in
\* the inventory that the operator reviewed: not if it was uploaded since.
RetirementIsReviewed ==
    [][\A d \in Digests :
        files[d] # "absent" /\ files'[d] = "absent" => d \in Retired \cap reviewed]_maintenanceVars

\* As long as nobody else had the directory, also when the tool has crashed, the
\* audit tells what became of the blobs it planned to remove: a recorded one is
\* gone, at most one is gone without a record, none is left once it is complete.
AuditAccounts ==
    LET gone == audit.present \ StoredDigests
    IN  lock = RetireTool =>
        /\ audit.removed \subseteq gone
        /\ Cardinality(gone \ audit.removed) =< 1
        /\ audit.completed => audit.removed = audit.present
=============================================================================
