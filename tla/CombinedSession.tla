--------------------------- MODULE CombinedSession ---------------------------
(***************************************************************************)
(* The combined session of one browser tab (web/src/App.tsx): both roles,   *)
(* guided or on the network, its deployment and report transactions with    *)
(* their journal (journal-report-transaction.ts, submission-wait.ts), the   *)
(* encrypted autosave that carries it (RecoveryAutosavePanel.tsx,           *)
(* recovery-autosave.ts) and recovery (RecoveryPanel.tsx, recovery.ts).     *)
(*                                                                         *)
(* One operation runs at a time, but nothing cancels what it started: an    *)
(* SDK call goes on after its deadline and still calls the checkpoint that  *)
(* is installed by then, and a write goes on after its writer was stopped.  *)
(* Every copy has a random id of its own, so tabs meet in the ledger only.  *)
(***************************************************************************)
EXTENDS RecoverySnapshot, FiniteSets

CONSTANTS Copies,           \* what the browser or the user may have kept of an earlier session
          MaxCopies,        \* bounds all copies
          MaxHistory,       \* bounds a guided history
          MaxKept,          \* bounds the guided histories of tabs that keep copies
          MaxSubmissions    \* bounds the SDK calls

\* None is a value of its own.  Copies are what this program keeps, by
\* validateRecovery and by its sessions; no identifier is given twice.
ASSUME SessionConstants ==
    /\ {MaxAttempts, MaxCopies, MaxHistory, MaxKept, MaxSubmissions} \subseteq Nat
    /\ None \notin Reports \cup DOMAIN Circuits
    /\ None \notin [id : Reports, submissionStarted : BOOLEAN]
    /\ None \notin [op : {"connect", "deploy", "seal", "refresh", "recover"},
                    step : {"waiting", "copying", "saving", "uploading", "reading", "joining"}]
    /\ \A c \in Copies :
          /\ c \in Snapshots /\ validateRecovery(c)
          /\ c.report = None => clean(c)
          /\ \A i \in DOMAIN c.reportAttempts :
                c.reportAttempts[i].transactionId \notin 1..MaxSubmissions

VARIABLES
    session,        \* the tab's state, as liveRecoverySnapshot holds it
    providers,      \* a wallet is connected
    needsRefresh,
    task,           \* the operation that keeps the tab busy, or None
    checkpoint,     \* deploymentCheckpoint: the submission it was installed for, or 0
    checkpointing,  \* the SDK call waiting for its checkpoint to be saved, or None
    writer,         \* the active RecoveryAutosave, or None
    enabling,       \* the snapshot that enable() is writing to a new copy, or None
    orphans,        \* writes of stopped writers, still under way
    rows,           \* all copies: browser rows and downloaded files
    used,           \* the reports prepared by any session
    sdk,            \* SDK calls that have not reached their checkpoint
    broadcast,      \* every transaction the wallet was given
    pool, final,    \* those still to be ordered, and the identifiers of the accepted
    ledger,         \* the contract's reports
    calls           \* SDK calls so far

local == <<session, providers, needsRefresh, task, checkpoint, checkpointing>>
autosave == <<writer, enabling, orphans>>
storage == <<rows, used>>
network == <<sdk, broadcast, pool, final, ledger, calls>>
vars == <<local, autosave, storage, network>>

Init ==
    /\ session = Fresh
    /\ providers = FALSE /\ needsRefresh = FALSE
    /\ task = None /\ checkpoint = 0 /\ checkpointing = None
    /\ writer = None /\ enabling = None /\ orphans = {}
    /\ rows \in {<<>>} \cup {<<c>> : c \in Copies}
    /\ used = {rows[i].report : i \in DOMAIN rows} \ {None}
    /\ sdk = {} /\ broadcast = {} /\ pool = {} /\ final = {}
    /\ ledger = [r \in Reports |->
           IF r \in used THEN Record(rows[1].status, rows[1].patch, rows[1].retest, rows[1].payout)
           ELSE None]
    /\ calls = 0

Task(op, step) == [op |-> op, step |-> step]

\* recoverySnapshot: a network session without a program has nothing to save.
hasSnapshot(s) == s.mode = "midnight" => s.contractAddress \/ s.deploymentAttempt
worthSaving == hasSnapshot(session) /\ (session.mode = "guided-local" => Len(session.history) =< MaxKept)
binding(s) == <<s.mode, s.contractAddress>>

-----------------------------------------------------------------------------
(* Encrypted copies and their writer.                                      *)

\* encryptRecovery validates what it encrypts, decryptRecovery what it decrypted.
encryptRecovery(s) == validateRecovery(s)
decryptRecovery(s) == validateRecovery(s)

\* A new copy: a browser row with a random id, or a downloaded file.
keep(s) == encryptRecovery(s) /\ Len(rows) < MaxCopies /\ rows' = Append(rows, s)
Writer(row, s) == [row |-> row, queue |-> <<>>, saved |-> s, leased |-> FALSE]

\* stop(): queued saves are dropped, a write under way is not.
stopWriter ==
    /\ writer' = None
    /\ orphans' = IF writer = None \/ writer.queue = <<>> THEN orphans
                  ELSE orphans \cup {[row |-> writer.row, snapshot |-> Head(writer.queue)]}

\* A transaction leases the writer for its saves, until it is settled or interrupted.
enqueue(s) == writer' = [writer EXCEPT !.queue = Append(@, s), !.leased = TRUE]
released == [writer EXCEPT !.leased = FALSE]
settled == writer # None /\ writer.leased /\ writer.queue = <<>>

enable ==
    /\ task = None /\ writer = None /\ enabling = None
    /\ worthSaving
    /\ enabling' = session
    /\ UNCHANGED <<local, writer, orphans, storage, network>>

\* The copy is written; its writer is of no use if the program or network
\* changed meanwhile.
enabled ==
    /\ enabling # None
    /\ keep(enabling)
    /\ writer' = IF writer = None /\ binding(session) = binding(enabling)
                 THEN Writer(Len(rows'), enabling) ELSE writer
    /\ enabling' = None
    /\ UNCHANGED <<local, orphans, used, network>>

enableFails ==
    /\ enabling # None
    /\ enabling' = None
    /\ UNCHANGED <<local, writer, orphans, storage, network>>

\* The debounced save of the live snapshot, not while a transaction has the writer.
timerFires ==
    /\ writer # None /\ ~writer.leased /\ worthSaving
    /\ session # (IF writer.queue = <<>> THEN writer.saved ELSE Last(writer.queue))
    /\ Len(writer.queue) < 2
    /\ writer' = [writer EXCEPT !.queue = Append(@, session)]
    /\ UNCHANGED <<local, enabling, orphans, storage, network>>

\* Saves are serialized; encryption validates, IndexedDB commits.
write ==
    /\ writer # None /\ writer.queue # <<>> /\ encryptRecovery(Head(writer.queue))
    /\ rows' = [rows EXCEPT ![writer.row] = Head(writer.queue)]
    /\ writer' = [writer EXCEPT !.queue = Tail(@), !.saved = Head(writer.queue)]
    /\ UNCHANGED <<local, enabling, orphans, used, network>>

\* A failed save stops its writer for good, and so does the user.
stop ==
    /\ writer # None
    /\ writer.queue # <<>> \/ task = None
    /\ stopWriter
    /\ UNCHANGED <<local, enabling, storage, network>>

orphanEnds(o) ==
    /\ orphans' = orphans \ {o}
    /\ \/ rows' = [rows EXCEPT ![o.row] = o.snapshot]
       \/ UNCHANGED rows
    /\ UNCHANGED <<local, writer, enabling, used, network>>

\* A backup to a file or to a new browser copy.
exportRecovery ==
    /\ task = None /\ worthSaving
    /\ \A i \in DOMAIN rows : rows[i] # session
    /\ keep(session)
    /\ UNCHANGED <<local, autosave, used, network>>

-----------------------------------------------------------------------------
(* Setting up: the wallet and the program.                                 *)

begin(t) == task = None /\ task' = t
end == task' = None
rest == UNCHANGED <<providers, needsRefresh, checkpoint, checkpointing>>

connectWallet ==
    /\ begin(Task("connect", "waiting"))
    /\ ~providers /\ ~session.deploymentAttempt
    /\ session.report = None /\ session.pendingReport = None
    /\ UNCHANGED <<session, autosave, storage, network>> /\ rest

\* The panel stops a writer whose network changed.
walletConnected ==
    /\ task = Task("connect", "waiting")
    /\ end
    /\ \/ /\ providers' = TRUE
          /\ session' = [session EXCEPT !.mode = "midnight"]
          /\ stopWriter
       \/ UNCHANGED <<providers, session, writer, orphans>>
    /\ UNCHANGED <<needsRefresh, checkpoint, checkpointing, enabling, storage, network>>

\* The model follows one program: a tab that starts afresh makes another one.
createProgram ==
    /\ ~session.deploymentAttempt /\ ~session.contractAddress
    /\ session.report = None /\ session.pendingReport = None
    /\ IF session.mode = "guided-local"
       THEN task = None /\ stopWriter /\ UNCHANGED task
       ELSE /\ providers /\ calls < MaxSubmissions
            /\ \A i \in DOMAIN rows : rows[i].mode = "guided-local"
            /\ begin(Task("deploy", "copying"))
            /\ UNCHANGED <<writer, orphans>>
    /\ UNCHANGED <<session, enabling, storage, network>> /\ rest

\* The attempt is in a copy before the SDK is called.
deploy ==
    LET attempt == [session EXCEPT !.deploymentAttempt = TRUE]
        call == [id |-> calls + 1, circuit |-> "constructor"]
    IN  /\ task = Task("deploy", "copying")
        /\ keep(attempt)
        /\ session' = attempt
        /\ writer' = [Writer(Len(rows'), attempt) EXCEPT !.leased = TRUE]
        /\ sdk' = sdk \cup {call} /\ calls' = call.id
        /\ checkpoint' = call.id
        /\ task' = [op |-> "deploy", step |-> "sdk", call |-> call]
        /\ UNCHANGED <<providers, needsRefresh, checkpointing, enabling, orphans, used,
                       broadcast, pool, final, ledger>>

\* A failed save leaves the session as it was, but may have made its copy.
deployFails ==
    /\ task = Task("deploy", "copying")
    /\ end
    /\ keep([session EXCEPT !.deploymentAttempt = TRUE]) \/ UNCHANGED rows
    /\ UNCHANGED <<session, autosave, used, network>> /\ rest

-----------------------------------------------------------------------------
(* Report operations.                                                      *)

\* beginAction: nothing is unresolved, and a network session is being saved.
beginAction(t) ==
    /\ begin(t)
    /\ session.uncertainTransition = None /\ ~needsRefresh
    /\ session.mode = "midnight" => session.contractAddress
    /\ session.contractAddress => ~reportJournalBlocks(session.reportAttempts) /\ writer # None

\* A report is sealed once and retained: a retry uses the same material.
\* Network sessions save it before they upload it.
submitSealedReport(r) ==
    LET p == session.pendingReport
        prepared == [session EXCEPT !.pendingReport = [id |-> r, submissionStarted |-> FALSE]]
    IN  /\ session.report = None
        /\ IF p = None THEN r \notin used ELSE r = p.id /\ ~p.submissionStarted
        /\ IF session.contractAddress
           THEN /\ beginAction(Task("seal", "saving"))
                /\ ~writer.leased /\ enqueue(prepared)
           ELSE /\ beginAction(Task("seal", "uploading"))
                /\ UNCHANGED writer
        /\ session' = prepared
        /\ used' = used \cup {r}
        /\ UNCHANGED <<enabling, orphans, rows, network>> /\ rest

preparationSaved ==
    /\ task = Task("seal", "saving") /\ settled
    /\ task' = Task("seal", "uploading")
    /\ writer' = released
    /\ UNCHANGED <<session, enabling, orphans, storage, network>> /\ rest

\* The save fails or its deadline passes; or sealing or the upload fails.
preparationFails ==
    /\ task \in {Task("seal", "saving"), Task("seal", "uploading")}
    /\ end
    /\ IF task.step = "saving" THEN stopWriter ELSE UNCHANGED <<writer, orphans>>
    /\ UNCHANGED <<session, enabling, storage, network>> /\ rest

vendorOrResearcherAction(c, next) ==
    /\ beginAction([op |-> "transition", step |-> "digest", circuit |-> c, next |-> next])
    /\ session.report # None
    /\ session.status \in Circuits[c].from /\ next \in Circuits[c].to
    /\ c = "submitRetest" => session.patch
    /\ UNCHANGED <<session, autosave, storage, network>> /\ rest

recordTransition(s, next) == [s EXCEPT !.status = next, !.history = Append(@, next)]

\* What the session shows of a guided transition, and of a network one before
\* its commitments were read.
shown(s, circuit, next) ==
    LET t == recordTransition(s, next)
        guided == s.mode = "guided-local"
    IN  CASE circuit = "submitReport" ->
               [t EXCEPT !.report = s.pendingReport.id, !.pendingReport = None]
          [] circuit = "anchorPatch" -> [t EXCEPT !.patch = guided, !.retest = FALSE, !.payout = FALSE]
          [] circuit = "submitRetest" -> [t EXCEPT !.retest = guided]
          [] circuit = "authorizePayout" -> [t EXCEPT !.payout = guided]
          [] OTHER -> t

\* The report, the circuit and the stage that an operation is about.
circuitOf == IF task.op = "seal" THEN "submitReport" ELSE task.circuit
nextOf == IF task.op = "seal" THEN "COMMITTED" ELSE task.next
reportOf(s) == IF s.report # None THEN s.report ELSE s.pendingReport.id
atNetwork == task \in {Task("seal", "uploading")} \/ (task # None /\ task.step = "digest")

finishGuided ==
    /\ atNetwork /\ ~session.contractAddress
    /\ Len(session.history) < MaxHistory
    /\ Len(session.history) > MaxKept => rows = <<>> /\ enabling = None
    /\ session' = shown(session, circuitOf, nextOf)
    /\ end
    /\ UNCHANGED <<autosave, storage, network>> /\ rest

\* Uncertainty is recorded first; without a free writer nothing else happens.
uncertain ==
    IF task.op = "seal" THEN [session EXCEPT !.pendingReport.submissionStarted = TRUE]
    ELSE [session EXCEPT !.uncertainTransition = task.circuit]

withAttempt(s, id) ==
    [s EXCEPT !.reportAttempts = Append(@,
        [circuit |-> circuitOf, reportId |-> reportOf(s), nextStatus |-> nextOf,
         transactionId |-> id, outcome |-> "unknown"])]

\* runReportTransaction and journalReportTransaction: the intent is saved
\* before the SDK is called.
runReportTransaction ==
    LET call == [id |-> calls + 1, circuit |-> circuitOf, reportId |-> reportOf(session),
                 nextStatus |-> nextOf]
        s == withAttempt(uncertain, 0)
    IN  /\ atNetwork /\ session.contractAddress
        /\ IF writer = None \/ writer.leased
           THEN /\ session' = uncertain
                /\ end
                /\ UNCHANGED <<checkpoint, writer, calls>>
           ELSE /\ calls < MaxSubmissions /\ calls' = call.id
                /\ session' = s
                /\ enqueue(s)
                /\ checkpoint' = call.id
                /\ task' = [op |-> task.op, step |-> "intent", call |-> call]
        /\ UNCHANGED <<providers, needsRefresh, checkpointing, enabling, orphans, storage,
                       sdk, broadcast, pool, final, ledger>>

transitionFails ==
    /\ task # None /\ task.step = "digest"
    /\ end
    /\ UNCHANGED <<session, autosave, storage, network>> /\ rest

transacting == task # None /\ "call" \in DOMAIN task

intentSaved ==
    /\ transacting /\ task.step = "intent" /\ settled
    /\ task' = [task EXCEPT !.step = "sdk"]
    /\ sdk' = sdk \cup {task.call}
    /\ UNCHANGED <<session, autosave, storage, broadcast, pool, final, ledger, calls>> /\ rest

\* The wait of the transaction that installed the checkpoint is open, and no
\* checkpoint was started under it.
checkpointOpen ==
    /\ transacting /\ task.call.id = checkpoint /\ task.step = "sdk"
    /\ IF task.op = "deploy" THEN session.deploymentTransactionId = 0
       ELSE Last(session.reportAttempts).transactionId = 0

\* An SDK call, the current one or one that outlived its deadline, has a proved
\* transaction and calls the installed checkpoint with its identifier.
checkpointTransaction(call) ==
    LET n == Len(session.reportAttempts)
        marked == IF task.op = "deploy"
                  THEN [session EXCEPT !.deploymentTransactionId = call.id]
                  ELSE [session EXCEPT !.reportAttempts[n].transactionId = call.id]
    IN  /\ checkpointing = None
        /\ sdk' = sdk \ {call}
        /\ IF checkpointOpen
           THEN /\ session' = marked
                /\ IF writer = None THEN UNCHANGED writer ELSE enqueue(marked)
                /\ checkpointing' = call
           ELSE UNCHANGED <<session, writer, checkpointing>>
        /\ UNCHANGED <<providers, needsRefresh, task, checkpoint, enabling, orphans, storage,
                       broadcast, pool, final, ledger, calls>>

checkpointSaved_Unawaited ==
    /\ checkpointing # None /\ transacting /\ task.step = "sdk"
    /\ broadcast' = broadcast \cup {checkpointing}
    /\ pool' = pool \cup {checkpointing}
    /\ checkpointing' = None
    /\ task' = [task EXCEPT !.step = "sent"]
    /\ UNCHANGED <<session, providers, needsRefresh, checkpoint, autosave, storage,
                   sdk, final, ledger, calls>>

\* The save is confirmed while the wait is open: the wallet is called.
checkpointSaved ==
    /\ checkpointing # None /\ transacting /\ task.step = "sdk" /\ settled
    /\ broadcast' = broadcast \cup {checkpointing}
    /\ pool' = pool \cup {checkpointing}
    /\ checkpointing' = None
    /\ task' = [task EXCEPT !.step = "sent"]
    /\ UNCHANGED <<session, providers, needsRefresh, checkpoint, autosave, storage,
                   sdk, final, ledger, calls>>

transactionFails_NoConfirmationDeadline ==
    /\ transacting /\ task.step \in {"intent", "sdk"}
    /\ end
    /\ stopWriter
    /\ checkpointing' = None
    /\ UNCHANGED <<session, providers, needsRefresh, checkpoint, enabling, storage, network>>

\* An error of a save, the SDK or the wallet, or a deadline: the writer is
\* stopped, what is under way goes on, and the outcome stays unknown.
transactionFails ==
    /\ transacting /\ task.step \in {"intent", "sdk", "sent"}
    /\ end
    /\ stopWriter
    /\ checkpointing' = None
    /\ UNCHANGED <<session, providers, needsRefresh, checkpoint, enabling, storage, network>>

sdkConfirmed ==
    LET n == Len(session.reportAttempts)
    IN  [session EXCEPT !.reportAttempts[n].outcome = "sdk-confirmed", !.uncertainTransition = None]

confirmed ==
    IF task.op = "deploy"
    THEN [session EXCEPT !.deploymentAttempt = FALSE, !.contractAddress = TRUE]
    ELSE IF task.op = "seal" THEN shown(sdkConfirmed, "submitReport", "COMMITTED")
    ELSE recordTransition(sdkConfirmed, task.call.nextStatus)

\* The SDK returns the finalized transaction of the saved identifier, and the
\* result is saved.
transactionConfirmed ==
    /\ transacting /\ task.step = "sent" /\ task.call.id \in final
    /\ task' = [task EXCEPT !.step = "confirming"]
    /\ IF writer = None THEN UNCHANGED writer ELSE enqueue(confirmed)
    /\ IF task.op = "deploy"
       THEN session' = confirmed /\ checkpoint' = 0
       ELSE UNCHANGED <<session, checkpoint>>
    /\ UNCHANGED <<providers, needsRefresh, checkpointing, enabling, orphans, storage, network>>

Refreshed == {"anchorPatch", "submitRetest", "authorizePayout"}

\* The result is taken over whether or not its save is confirmed in time.
finishTransaction ==
    /\ transacting /\ task.step = "confirming"
    /\ IF task.op = "deploy"
       THEN stopWriter /\ UNCHANGED session
       ELSE /\ \/ settled /\ writer' = released /\ UNCHANGED orphans
               \/ stopWriter
            /\ session' = shown(sdkConfirmed, task.call.circuit, task.call.nextStatus)
    /\ IF task.call.circuit \in Refreshed
       THEN task' = Task("refresh", "reading") /\ needsRefresh' = TRUE
       ELSE end /\ UNCHANGED needsRefresh
    /\ UNCHANGED <<providers, checkpoint, checkpointing, enabling, storage, network>>

retryPublicRead ==
    /\ begin(Task("refresh", "reading"))
    /\ session.contractAddress /\ session.report # None
    /\ needsRefresh' = TRUE
    /\ UNCHANGED <<session, providers, checkpoint, checkpointing, autosave, storage, network>>

\* The indexer may fail or lag behind; commitments are shown only if its stage
\* is the session's.
refreshCommitments ==
    LET record == ledger[session.report]
    IN  /\ task = Task("refresh", "reading")
        /\ end
        /\ \/ /\ record # None /\ record.status = session.status
              /\ session' = [session EXCEPT !.patch = record.patch, !.retest = record.retest,
                                            !.payout = record.payout]
              /\ needsRefresh' = FALSE
           \/ UNCHANGED <<session, needsRefresh>>
        /\ UNCHANGED <<providers, checkpoint, checkpointing, autosave, storage, network>>

resetDemo_Uncertain ==
    /\ task = None /\ session.report # None
    /\ session' = [session EXCEPT !.report = None, !.pendingReport = None, !.status = "COMMITTED",
                                  !.history = <<>>, !.patch = FALSE, !.retest = FALSE, !.payout = FALSE]
    /\ needsRefresh' = FALSE
    /\ UNCHANGED <<providers, task, checkpoint, checkpointing, autosave, storage, network>>

\* "Seal another", on the receipt of a report.
resetDemo ==
    /\ task = None /\ session.report # None /\ session.uncertainTransition = None
    /\ session' = [session EXCEPT !.report = None, !.pendingReport = None, !.status = "COMMITTED",
                                  !.history = <<>>, !.patch = FALSE, !.retest = FALSE, !.payout = FALSE]
    /\ needsRefresh' = FALSE
    /\ UNCHANGED <<providers, task, checkpoint, checkpointing, autosave, storage, network>>

-----------------------------------------------------------------------------
(* Recovery.                                                               *)

importRecovery(i) ==
    /\ begin([op |-> "import", step |-> "reading", copy |-> rows[i]])
    /\ ~session.deploymentAttempt /\ ~session.contractAddress
    /\ session.report = None /\ session.pendingReport = None
    /\ writer = None
    /\ UNCHANGED <<session, autosave, storage, network>> /\ rest

importing(step) == task # None /\ task.op = "import" /\ task.step = step
joins(s) == s.mode = "midnight" /\ ~s.deploymentAttempt

\* A network session compares the copy with the ledger as it is now.
importVerified ==
    /\ importing("reading")
    /\ decryptRecovery(task.copy)
    /\ joins(task.copy) => verifyRecoveryLedger(task.copy, ledger)
    /\ task' = [task EXCEPT !.step = "installing", !.copy = restored(@, ledger)]
    /\ UNCHANGED <<session, autosave, storage, network>> /\ rest

importInstalled ==
    /\ importing("installing")
    /\ end
    /\ session' = task.copy
    /\ providers' = joins(task.copy)
    /\ needsRefresh' = FALSE
    /\ UNCHANGED <<checkpoint, checkpointing, autosave, storage, network>>

importFails ==
    /\ task # None /\ task.op = "import"
    /\ end
    /\ UNCHANGED <<session, autosave, storage, network>> /\ rest

recoverDeployment ==
    /\ begin(Task("recover", "joining"))
    /\ session.deploymentAttempt /\ session.deploymentTransactionId # 0
    /\ UNCHANGED <<session, autosave, storage, network>> /\ rest

\* The deployed program is verified and a new copy written before the session
\* opens; otherwise nothing changes.
deploymentRecovered ==
    LET recovered == [session EXCEPT !.deploymentAttempt = FALSE, !.contractAddress = TRUE]
    IN  /\ task = Task("recover", "joining")
        /\ end
        /\ \/ /\ session.deploymentTransactionId \in final
              /\ keep(recovered)
              /\ session' = recovered /\ providers' = TRUE
              /\ checkpoint' = 0
              /\ stopWriter
           \/ UNCHANGED <<session, providers, checkpoint, rows, writer, orphans>>
        /\ UNCHANGED <<needsRefresh, checkpointing, enabling, used, network>>

\* The tab is closed or crashes: its writes may still commit, its SDK calls end.
reload ==
    /\ session' = Fresh
    /\ providers' = FALSE /\ needsRefresh' = FALSE
    /\ end /\ checkpoint' = 0 /\ checkpointing' = None
    /\ stopWriter /\ enabling' = None
    /\ sdk' = {}
    /\ UNCHANGED <<storage, broadcast, pool, final, ledger, calls>>

-----------------------------------------------------------------------------
\* The network orders a transaction; the contract refuses one of a wrong stage.
finalize(t) ==
    /\ pool' = pool \ {t}
    /\ IF t.circuit = "constructor" \/ accepts(ledger, t)
       THEN final' = final \cup {t.id} ELSE UNCHANGED final
    /\ ledger' = IF t.circuit # "constructor" /\ accepts(ledger, t)
                 THEN applied(ledger, t) ELSE ledger
    /\ UNCHANGED <<local, autosave, storage, sdk, broadcast, calls>>

Setup == connectWallet \/ createProgram \/ recoverDeployment
    \/ \E i \in DOMAIN rows : importRecovery(i)

Start ==
    \/ \E r \in Reports : submitSealedReport(r)
    \/ \E c \in Transitions : \E next \in Circuits[c].to : vendorOrResearcherAction(c, next)
    \/ retryPublicRead

\* What an operation awaits settles or reaches its deadline.
settle ==
    \/ walletConnected \/ deploy \/ deployFails \/ preparationSaved \/ preparationFails
    \/ finishGuided \/ runReportTransaction \/ transitionFails
    \/ intentSaved \/ checkpointSaved \/ transactionFails
    \/ transactionConfirmed \/ finishTransaction \/ refreshCommitments
    \/ importVerified \/ importInstalled \/ importFails \/ deploymentRecovered

Autosave == enable \/ enabled \/ enableFails \/ timerFires \/ write \/ stop
    \/ \E o \in orphans : orphanEnds(o)

Next ==
    \/ Setup \/ Start \/ settle \/ Autosave
    \/ exportRecovery \/ resetDemo \/ reload
    \/ \E call \in sdk : checkpointTransaction(call)
    \/ \E t \in pool : finalize(t)

Spec == Init /\ [][Next]_vars /\ WF_vars(settle)

-----------------------------------------------------------------------------
\* After any sequence of operations, failures and restores, what the session
\* would back up, and what it is saving, passes its own validation: no state
\* that a user needs to keep is one that cannot be kept.
SnapshotsAreValid ==
    /\ hasSnapshot(session) => validateRecovery(session)
    /\ writer # None => \A i \in DOMAIN writer.queue : validateRecovery(writer.queue[i])

names(s, t) ==
    IF t.circuit = "constructor" THEN s.deploymentTransactionId = t.id
    ELSE \E i \in DOMAIN s.reportAttempts :
        /\ s.reportAttempts[i].transactionId = t.id
        /\ s.reportAttempts[i].circuit = t.circuit
        /\ s.reportAttempts[i].reportId = t.reportId

\* Every transaction the wallet was given is in an encrypted copy, under the
\* operation it belongs to, whatever is saved, late or restored afterwards.
BroadcastIsJournaled == \A t \in broadcast : \E i \in DOMAIN rows : names(rows[i], t)

\* The tab does not stay busy: every operation ends, also when the SDK, the
\* wallet, the storage or the indexer never answer.
OperationsEnd == task # None ~> task = None
=============================================================================
