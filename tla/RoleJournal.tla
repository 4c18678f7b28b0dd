------------------------------ MODULE RoleJournal ----------------------------
(***************************************************************************)
(* The submission journal of the role workspace (web/src/RoleWorkspace.tsx, *)
(* submission-wait.ts, midnight/submission.ts) and what carries it: the     *)
(* encrypted browser copies shared by all tabs (encrypted-copy-storage.ts), *)
(* the writer of one tab (role-autosave.ts) and its debounced autosave      *)
(* (LocalRoleStorage.tsx).                                                  *)
(*                                                                         *)
(* A transaction identifier must be in an encrypted copy before the wallet  *)
(* is called, for a closed tab, a lost response or a timeout leaves nothing *)
(* else to reconcile.  Vaults are those of RoleVault; encryption, texts and *)
(* the wallet's answers are abstract.                                       *)
(***************************************************************************)
EXTENDS RoleVault

CONSTANTS Tabs, CopyIds, TxIds, Nothing,
          FirstCopies,      \* the rows that may exist in the beginning
          Reports,
          Circuits,         \* the calls that the user makes
          Edits,            \* the parts of a vault that the user edits
          MaxEdits          \* bounds the edits of all texts of a vault

\* No row yet, and the row of a removed copy: its random id is never given to
\* another.
Unused == [revision |-> 0, removed |-> FALSE]
Deleted == [revision |-> 0, removed |-> TRUE]

ASSUME JournalConstants ==
    /\ MaxEdits \in Nat
    /\ Nothing \notin Nat /\ Nothing \notin CopyIds
    /\ Null # "final" /\ \A c \in Circuits, r \in Reports \cup {Null} : [circuit |-> c, reportId |-> r] # Null
    /\ \A first \in FirstCopies :
        /\ DOMAIN first = CopyIds
        /\ \A c \in CopyIds :
              \/ first[c] \in {Unused, Deleted}
              \/ /\ first[c].revision \in Nat \ {0}
                 /\ validateRoleVault(first[c].vault) /\ first[c].vault.reports \subseteq Reports

VARIABLES
    copies,         \* IndexedDB: copy id -> row, Unused, or Deleted
    step,           \* what each tab is doing: closed, idle, preparing, recording,
                    \* expired, authorizing, sent or finalizing
    attempt,        \* the identifier its submission obtained
    vault,          \* the open vault, currentVault
    saved,          \* the vault that the workspace shows as backed up
    savedCopyId,    \* the copy it was saved to, once, by this tab
    writer,         \* the revision its RoleAutosave has written, or Nothing
    pending,        \* its saves in order (autosave, journal or receipt), the first
                    \* one encrypting or writing
    orphan,         \* a write under way when its writer was discarded
    timer,          \* the vault whose debounced save is scheduled
    recoveryRequired,
    review,         \* the row a user is about to delete
    broadcast, finalized,       \* at the wallet and on the chain
    sent,           \* what each open session has broadcast
    kept            \* journals exported to files or deleted knowingly

vars == <<copies, step, attempt, vault, saved, savedCopyId, writer, pending, orphan, timer,
          recoveryRequired, review, broadcast, finalized, sent, kept>>

exists(c) == copies[c].revision # 0

\* Nothing was sent yet, and what the copies hold receipts for is final.
Init ==
    /\ copies \in FirstCopies
    /\ kept = {}
    /\ step = [t \in Tabs |-> "closed"]
    /\ attempt = [t \in Tabs |-> Nothing]
    /\ vault = [t \in Tabs |-> Nothing]
    /\ saved = [t \in Tabs |-> Nothing]
    /\ savedCopyId = [t \in Tabs |-> Nothing]
    /\ writer = [t \in Tabs |-> Nothing]
    /\ pending = [t \in Tabs |-> <<>>]
    /\ orphan = [t \in Tabs |-> Nothing]
    /\ timer = [t \in Tabs |-> Nothing]
    /\ recoveryRequired = [t \in Tabs |-> FALSE]
    /\ review = [t \in Tabs |-> Nothing]
    /\ broadcast = {}
    /\ finalized = UNION {finalizedIn(journal(copies[c].vault)) : c \in {k \in CopyIds : exists(k)}}
    /\ sent = [t \in Tabs |-> {}]

working(t) == step[t] \notin {"closed", "idle"}
backedUp(t) == vault[t] # Nothing /\ saved[t] = vault[t]

-----------------------------------------------------------------------------
(* Encrypted browser copies: one IndexedDB transaction compares and writes. *)

put(c, revision, v) == copies' = [copies EXCEPT ![c] = [revision |-> revision + 1, vault |-> v]]

matches_Always(c, revision) == TRUE

\* (previous?.revision ?? null) === expectedRevision
matches(c, revision) == copies[c].revision = revision

\* encryptRoleVault validates before it encrypts, decryptRoleVault afterwards.
encryptable(v) == validateRoleVault(v)
decryptable(v) == validateRoleVault(v)

chain == UNCHANGED <<broadcast, finalized, sent>>
session == UNCHANGED <<step, attempt, recoveryRequired>>

\* The catalog shows a row; deleting it later needs that very revision.  The
\* catalog of a tab is disabled while its own writer is active.
reviewCopy(t, c) ==
    /\ step[t] \in {"closed", "idle"} /\ writer[t] = Nothing
    /\ exists(c)
    /\ review' = [review EXCEPT ![t] = [id |-> c, row |-> copies[c]]]
    /\ UNCHANGED <<copies, vault, saved, writer, pending, orphan, timer, kept, savedCopyId>> /\ session /\ chain

\* The open workspace is no longer backed up when its own copy is deleted.
onDeleted(t, c) ==
    /\ savedCopyId' = [savedCopyId EXCEPT ![t] = IF @ = c THEN Nothing ELSE @]
    /\ saved' = [saved EXCEPT ![t] = IF savedCopyId[t] = c THEN Nothing ELSE @]

deleteCopy(t) ==
    /\ review[t] # Nothing
    /\ step[t] \in {"closed", "idle"} /\ writer[t] = Nothing
    /\ LET c == review[t].id
       IN  IF matches(c, review[t].row.revision)
           THEN /\ copies' = [copies EXCEPT ![c] = Deleted]
                /\ kept' = kept \cup {journal(review[t].row.vault)}
                /\ onDeleted(t, c)
           ELSE UNCHANGED <<copies, kept, saved, savedCopyId>>
    /\ review' = [review EXCEPT ![t] = Nothing]
    /\ UNCHANGED <<vault, writer, pending, orphan, timer>> /\ session /\ chain

-----------------------------------------------------------------------------
(* A tab: opening, editing, saving.                                        *)

\* A writer for a copy, and what it holds counts as saved.
bind(t, c, revision, v) ==
    /\ writer' = [writer EXCEPT ![t] = revision]
    /\ savedCopyId' = [savedCopyId EXCEPT ![t] = c]
    /\ saved' = [saved EXCEPT ![t] = v]

\* Unlocking a copy binds a writer to the revision that was read.
open(t, c) ==
    /\ step[t] = "closed" /\ review[t] = Nothing
    /\ exists(c) /\ decryptable(copies[c].vault)
    /\ step' = [step EXCEPT ![t] = "idle"]
    /\ vault' = [vault EXCEPT ![t] = copies[c].vault]
    /\ bind(t, c, copies[c].revision, copies[c].vault)
    /\ UNCHANGED <<copies, attempt, pending, orphan, timer, recoveryRequired, review, kept>> /\ chain

\* "Enable encrypted browser autosave" writes a row with a fresh id first.
enableAutosave(t, c) ==
    /\ step[t] = "idle" /\ writer[t] = Nothing /\ pending[t] = <<>> /\ review[t] = Nothing
    /\ copies[c] = Unused /\ matches(c, 0)
    /\ encryptable(vault[t])
    /\ put(c, 0, vault[t])
    /\ bind(t, c, 1, vault[t])
    /\ UNCHANGED <<vault, pending, orphan, timer, review, kept>> /\ session /\ chain

stopAutosave(t) ==
    /\ step[t] = "idle" /\ writer[t] # Nothing /\ pending[t] = <<>> /\ timer[t] = Nothing
    /\ writer' = [writer EXCEPT ![t] = Nothing]
    /\ UNCHANGED <<copies, vault, saved, pending, orphan, timer, review, kept, savedCopyId>> /\ session /\ chain

\* "Download single-role backup" counts as a backup of what is open.
download(t) ==
    /\ step[t] = "idle" /\ ~backedUp(t)
    /\ encryptable(vault[t])
    /\ kept' = kept \cup {journal(vault[t])}
    /\ saved' = [saved EXCEPT ![t] = vault[t]]
    /\ UNCHANGED <<copies, vault, writer, pending, orphan, timer, review, savedCopyId>> /\ session /\ chain

textOf(text) == IF text = Null THEN 0 ELSE text
noteOn(v, r) == IF r \in DOMAIN get(v, "reportNotes") THEN v.reportNotes[r] ELSE 0

edits(v) ==
    textOf(get(v, "draft")) + textOf(get(v, "attachmentDraft")) + textOf(get(v, "programDraft"))
    + MapThenSumSet(LAMBDA r : noteOn(v, r), v.reports)

\* The forms, each for its part of the vault: notes on a report; the draft of a
\* researcher's report with its attachments, and its sealing; the reports that a
\* vendor takes over; and the program of a vendor until it is deployed.
updateNotes(v) ==
    {withReportNotes(v, [reportId |-> r, text |-> noteOn(v, r) + 1]) : r \in v.reports}

addReport(v, r) == [v EXCEPT !.reports = @ \cup {r}]
acceptDisclosure(v) == {addReport(v, r) : r \in Reports \ v.reports}
onSeal(v) == {withRoleDraft(addReport(v, r), Null) : r \in Reports \ v.reports}

updateProgramDraft(v) == withProgramDraft(v, textOf(get(v, "programDraft")) + 1)

edited(v, part) ==
    LET next == textOf(get(v, part)) + 1
        changed ==
            CASE part = "reportNotes" -> updateNotes(v)
              [] part = "reports" -> IF v.role = "vendor" THEN acceptDisclosure(v) ELSE onSeal(v)
              [] part = "draft" /\ v.role = "researcher" -> {withRoleDraft(v, next)}
              [] part = "attachmentDraft" /\ v.role = "researcher" -> {withAttachmentDraft(v, next)}
              [] part = "programDraft" /\ v.role = "vendor" /\ ~v.deployed -> {updateProgramDraft(v)}
              [] OTHER -> {}
    IN  {w \in changed : IF part = "reports" THEN validateRoleVault(w) ELSE edits(w) =< MaxEdits}

\* The fields are disabled while an operation works.  Each edit restarts the
\* 400 ms timer of an active writer.
edit(t) ==
    /\ step[t] = "idle"
    /\ \E part \in Edits : \E v \in edited(vault[t], part) : vault' = [vault EXCEPT ![t] = v]
    /\ timer' = [timer EXCEPT ![t] = IF writer[t] # Nothing THEN vault'[t] ELSE @]
    /\ UNCHANGED <<copies, saved, writer, pending, orphan, review, kept, savedCopyId>> /\ session /\ chain

enqueue(t, v, kind) ==
    pending' = [pending EXCEPT ![t] = Append(@, [vault |-> v, kind |-> kind, writing |-> FALSE])]

timerFires(t) ==
    /\ timer[t] # Nothing
    /\ enqueue(t, timer[t], "autosave")
    /\ timer' = [timer EXCEPT ![t] = Nothing]
    /\ UNCHANGED <<copies, vault, saved, writer, orphan, review, kept, savedCopyId>> /\ session /\ chain

\* RoleAutosave.save: encryption has ended and the writer was not stopped.
startWrite(t) ==
    /\ pending[t] # <<>> /\ ~Head(pending[t]).writing
    /\ encryptable(Head(pending[t]).vault)
    /\ pending' = [pending EXCEPT ![t][1].writing = TRUE]
    /\ UNCHANGED <<copies, vault, saved, writer, orphan, timer, review, kept, savedCopyId>> /\ session /\ chain

assertActive_Always(t) == TRUE

\* The wait of a submission is not closed for good.
assertActive(t) == step[t] # "expired"

\* A confirmed save releases whoever awaits it: an autosave marks the vault as
\* saved if it is still the open one; a journal save lets the submission pass
\* its checkpoint, if its wait is still active; a receipt ends the operation.
saveSucceeds(t) ==
    LET s == Head(pending[t])
    IN  /\ pending[t] # <<>> /\ s.writing
        /\ matches(savedCopyId[t], writer[t])
        /\ put(savedCopyId[t], writer[t], s.vault)
        /\ writer' = [writer EXCEPT ![t] = @ + 1]
        /\ pending' = [pending EXCEPT ![t] = Tail(@)]
        /\ vault' = [vault EXCEPT ![t] = IF s.kind = "autosave" THEN @ ELSE s.vault]
        /\ saved' = [saved EXCEPT ![t] = IF vault'[t] = s.vault THEN s.vault ELSE @]
        /\ step' = [step EXCEPT ![t] = CASE s.kind = "autosave" -> @
                                         [] s.kind = "journal" ->
                                              IF assertActive(t) THEN "authorizing" ELSE @
                                         [] s.kind = "receipt" -> "idle"]
        /\ attempt' = [attempt EXCEPT ![t] = IF s.kind = "receipt" THEN Nothing ELSE @]
        /\ UNCHANGED <<orphan, timer, recoveryRequired, review, kept, savedCopyId>> /\ chain

saveFails_KeepsWaiting(t) ==
    /\ pending[t] # <<>>
    /\ writer' = [writer EXCEPT ![t] = Nothing]
    /\ pending' = [pending EXCEPT ![t] = <<>>]
    /\ timer' = [timer EXCEPT ![t] = Nothing]
    /\ UNCHANGED <<copies, vault, saved, savedCopyId, orphan, review, kept>> /\ session /\ chain

\* A stale revision, an encryption or storage error or a deadline rejects the
\* save, stops the writer and with it every save behind; after the 15 s deadline
\* of a transaction the row may have been written all the same.  An unsaved
\* journal ends the submission, unsent; an unsaved receipt stays in memory.
saveFails(t) ==
    LET s == Head(pending[t])
        kinds == {pending[t][i].kind : i \in DOMAIN pending[t]}
        unsavedReceipt == {i \in DOMAIN pending[t] : pending[t][i].kind = "receipt"}
    IN  /\ pending[t] # <<>>
        /\ \/ UNCHANGED copies
           \/ s.writing /\ matches(savedCopyId[t], writer[t]) /\ put(savedCopyId[t], writer[t], s.vault)
        /\ writer' = [writer EXCEPT ![t] = Nothing]
        /\ pending' = [pending EXCEPT ![t] = <<>>]
        /\ timer' = [timer EXCEPT ![t] = Nothing]
        /\ IF unsavedReceipt # {}
           THEN /\ vault' = [vault EXCEPT ![t] = pending[t][CHOOSE i \in unsavedReceipt : TRUE].vault]
                /\ saved' = [saved EXCEPT ![t] = Nothing]
           ELSE UNCHANGED <<vault, saved>>
        /\ IF kinds \cap {"journal", "receipt"} # {} /\ step[t] # "expired"
           THEN /\ step' = [step EXCEPT ![t] = "idle"]
                /\ attempt' = [attempt EXCEPT ![t] = Nothing]
           ELSE UNCHANGED <<step, attempt>>
        /\ UNCHANGED <<orphan, recoveryRequired, review, kept, savedCopyId>> /\ chain

\* A write that its writer's end could not stop commits by the same rule, or not;
\* who awaits it learns that the workspace was closed, and does nothing.
orphanEnds(t) ==
    /\ orphan[t] # Nothing
    /\ \/ UNCHANGED copies
       \/ matches(orphan[t].id, orphan[t].revision)
          /\ put(orphan[t].id, orphan[t].revision, orphan[t].vault)
    /\ orphan' = [orphan EXCEPT ![t] = Nothing]
    /\ UNCHANGED <<vault, saved, writer, pending, timer, review, kept, savedCopyId>> /\ session /\ chain

\* What is left of a tab's saves when its writer is discarded.
discard(t) ==
    /\ orphan' = [orphan EXCEPT ![t] =
           IF pending[t] # <<>> /\ Head(pending[t]).writing
           THEN [id |-> savedCopyId[t], revision |-> writer[t], vault |-> Head(pending[t]).vault]
           ELSE @]
    /\ writer' = [writer EXCEPT ![t] = Nothing]
    /\ savedCopyId' = [savedCopyId EXCEPT ![t] = Nothing]
    /\ pending' = [pending EXCEPT ![t] = <<>>]
    /\ timer' = [timer EXCEPT ![t] = Nothing]

\* Locking, closing, reloading or a crash of the tab, at any time.  Each tab has
\* room for one orphaned write: that one settles before the tab can make another.
close(t) ==
    /\ step[t] # "closed" /\ orphan[t] = Nothing
    /\ discard(t)
    /\ step' = [step EXCEPT ![t] = "closed"]
    /\ attempt' = [attempt EXCEPT ![t] = Nothing]
    /\ vault' = [vault EXCEPT ![t] = Nothing]
    /\ saved' = [saved EXCEPT ![t] = Nothing]
    /\ recoveryRequired' = [recoveryRequired EXCEPT ![t] = FALSE]
    /\ review' = [review EXCEPT ![t] = Nothing]
    /\ sent' = [sent EXCEPT ![t] = {}]
    /\ UNCHANGED <<copies, broadcast, finalized, kept>>

-----------------------------------------------------------------------------
(* A submission: duringSubmission around the SDK call.                     *)

rest(t) == UNCHANGED <<copies, savedCopyId, writer, orphan, review, kept>>

\* requireJournal, then a saved vault; the preparation deadline starts.
begin(t) ==
    /\ step[t] = "idle" /\ backedUp(t)
    /\ ~recoveryRequired[t]
    /\ writer[t] # Nothing
    /\ assertSubmissionCapacity(vault[t])
    /\ step' = [step EXCEPT ![t] = "preparing"]
    /\ UNCHANGED <<attempt, vault, saved, pending, timer, recoveryRequired>> /\ rest(t) /\ chain

\* An error before any checkpoint (proof, wallet, no writer): nothing was sent.
prepareFails(t) ==
    /\ step[t] = "preparing"
    /\ step' = [step EXCEPT ![t] = "idle"]
    /\ UNCHANGED <<attempt, vault, saved, pending, timer, recoveryRequired>> /\ rest(t) /\ chain

\* What can be submitted from a vault.
intents(v) ==
    {[circuit |-> c, reportId |-> r] : c \in Circuits \cap circuitsOf(v.role), r \in v.reports}
    \cup {intent \in {[circuit |-> "constructor", reportId |-> Null]} :
              "constructor" \in Circuits /\ v.role = "vendor" /\ ~v.deployed}

\* The vault with one more attempt, and the inputs, notes or choice it is made with.
recorded(v, tx, intent) ==
    LET attempted == withSubmissionAttempt(v, tx, intent)
        noted == withSubmissionNotes(attempted, tx,
                     [reportId |-> intent.reportId, text |-> noteOn(v, intent.reportId)])
    IN  CASE intent.circuit = "constructor" -> withDeploymentInputs(attempted, tx, textOf(get(v, "programDraft")))
          [] intent.circuit = "submitRetest" -> withRetestChoice(noted, tx, TRUE, intent.reportId)
          [] OTHER -> noted

recordSubmission_NotAwaited(t, tx) ==
    /\ step[t] = "preparing" /\ writer[t] # Nothing
    /\ tx \notin broadcast
    /\ \E intent \in intents(vault[t]) : enqueue(t, recorded(vault[t], tx, intent), "autosave")
    /\ timer' = [timer EXCEPT ![t] = Nothing]
    /\ step' = [step EXCEPT ![t] = "authorizing"]
    /\ attempt' = [attempt EXCEPT ![t] = tx]
    /\ UNCHANGED <<vault, saved, recoveryRequired>> /\ rest(t) /\ chain

\* beforeSubmit: the transaction has its identifier, which no other one has.  (The
\* intent is chosen when the operation begins; nothing edits the vault until now.)
\* The scheduled draft save is dropped: a delayed older draft must not overwrite it.
recordSubmission(t, tx) ==
    /\ step[t] = "preparing" /\ writer[t] # Nothing
    /\ \A u \in Tabs : attempt[u] # tx
    /\ tx \notin broadcast \cup finalized /\ tx \notin DOMAIN journal(vault[t])
    /\ \E intent \in intents(vault[t]) :
          LET updated == recorded(vault[t], tx, intent)
          IN  validateRoleVault(updated) /\ enqueue(t, updated, "journal")
    /\ timer' = [timer EXCEPT ![t] = Nothing]
    /\ step' = [step EXCEPT ![t] = "recording"]
    /\ attempt' = [attempt EXCEPT ![t] = tx]
    /\ UNCHANGED <<vault, saved, recoveryRequired>> /\ rest(t) /\ chain

\* SubmissionPreparationTimeout: the wait is closed for good.  Nobody stops the
\* SDK or the writer yet: a save under way may still be confirmed to the late
\* continuation.
preparationExpires(t) ==
    /\ step[t] \in {"preparing", "recording"} /\ orphan[t] = Nothing
    /\ step' = [step EXCEPT ![t] = "expired"]
    /\ recoveryRequired' = [recoveryRequired EXCEPT ![t] = TRUE]
    /\ UNCHANGED <<attempt, vault, saved, pending, timer>> /\ rest(t) /\ chain

\* React renders the next persistence generation, which discards the writer; a
\* write under way may finish.
remount(t) ==
    /\ step[t] = "expired"
    /\ discard(t)
    /\ step' = [step EXCEPT ![t] = "idle"]
    /\ attempt' = [attempt EXCEPT ![t] = Nothing]
    /\ UNCHANGED <<copies, vault, saved, recoveryRequired, review, kept>> /\ chain

\* The wallet is called, its last authorization read within the deadline.
submit(t) ==
    /\ step[t] = "authorizing"
    /\ broadcast' = broadcast \cup {attempt[t]}
    /\ sent' = [sent EXCEPT ![t] = @ \cup {attempt[t]}]
    /\ step' = [step EXCEPT ![t] = "sent"]
    /\ UNCHANGED <<attempt, vault, saved, pending, timer, recoveryRequired, finalized>> /\ rest(t)

outcomeUnknown_KeepsSession(t) ==
    /\ step[t] \in {"authorizing", "sent"}
    /\ step' = [step EXCEPT ![t] = "idle"]
    /\ attempt' = [attempt EXCEPT ![t] = Nothing]
    /\ UNCHANGED <<vault, saved, pending, timer, recoveryRequired>> /\ rest(t) /\ chain

\* Any error or deadline after the checkpoint ends this session's transactions.
outcomeUnknown(t) ==
    /\ step[t] \in {"authorizing", "sent"}
    /\ step' = [step EXCEPT ![t] = "idle"]
    /\ attempt' = [attempt EXCEPT ![t] = Nothing]
    /\ recoveryRequired' = [recoveryRequired EXCEPT ![t] = TRUE]
    /\ UNCHANGED <<vault, saved, pending, timer>> /\ rest(t) /\ chain

finalize(tx) ==
    /\ tx \in broadcast \ finalized
    /\ finalized' = finalized \cup {tx}
    /\ UNCHANGED <<copies, vault, saved, writer, pending, orphan, timer, review, broadcast, sent, kept, savedCopyId>>
    /\ session

\* A finalized transaction belongs to a deployed program: a deployment saves the
\* address it got, with its receipt and in the same way as the others.
receipted(v, tx) == withFinalizedSubmission([v EXCEPT !.deployed = TRUE], tx, "final")

\* The SDK returned the finalized transaction: the receipt is saved next, if
\* there still is a writer, and is in memory in any case.
recordReceipt(t) ==
    LET updated == receipted(vault[t], attempt[t])
    IN  /\ step[t] = "sent" /\ attempt[t] \in finalized
        /\ IF writer[t] # Nothing
           THEN /\ enqueue(t, updated, "receipt")
                /\ timer' = [timer EXCEPT ![t] = Nothing]
                /\ step' = [step EXCEPT ![t] = "finalizing"]
                /\ UNCHANGED <<attempt, vault, saved>>
           ELSE /\ vault' = [vault EXCEPT ![t] = updated]
                /\ saved' = [saved EXCEPT ![t] = Nothing]
                /\ step' = [step EXCEPT ![t] = "idle"]
                /\ attempt' = [attempt EXCEPT ![t] = Nothing]
                /\ UNCHANGED <<pending, timer>>
        /\ UNCHANGED recoveryRequired /\ rest(t) /\ chain

-----------------------------------------------------------------------------
settle(t) == timerFires(t) \/ startWrite(t) \/ saveSucceeds(t) \/ saveFails(t)

submission(t) ==
    \/ prepareFails(t) \/ preparationExpires(t) \/ remount(t) \/ submit(t) \/ outcomeUnknown(t) \/ recordReceipt(t)
    \/ \E tx \in TxIds : recordSubmission(t, tx)

Next ==
    \/ \E t \in Tabs :
        \/ stopAutosave(t) \/ download(t) \/ edit(t) \/ settle(t) \/ orphanEnds(t) \/ close(t)
        \/ deleteCopy(t) \/ begin(t) \/ submission(t)
        \/ \E c \in CopyIds : open(t, c) \/ enableAutosave(t, c) \/ reviewCopy(t, c)
    \/ \E tx \in TxIds : finalize(tx)

Spec == Init /\ [][Next]_vars

\* Every phase of a submission has a deadline, and so has every save.
Fairness == \A t \in Tabs : WF_vars(settle(t)) /\ WF_vars(submission(t))

LiveSpec == Spec /\ Fairness

-----------------------------------------------------------------------------
Recoverable == kept \cup {journal(copies[c].vault) : c \in {k \in CopyIds : exists(k)}}

\* No identifier reaches the wallet unless an encrypted copy holds it, and it
\* stays in one (or in a row whose deletion a user confirmed at that revision),
\* whatever tabs close, time out, autosave or conflict afterwards.
BroadcastIsRecorded == broadcast \subseteq UNION {DOMAIN entries : entries \in Recoverable}

\* Saves of a row only ever add to its journal: no delayed draft, stale tab or
\* orphaned write takes back or rewrites what a later revision recorded, be it
\* the intent, the notes, the choices or the receipt of an attempt.
SavesOnlyAdd ==
    [][\A c \in CopyIds :
        exists(c) /\ copies'[c] # Deleted =>
            /\ keeps(journal(copies[c].vault), journal(copies'[c].vault))
            /\ copies[c].revision =< copies'[c].revision]_vars

\* A session prepares a transaction only when everything it broadcast before has
\* a receipt: an unknown outcome is never followed by another attempt.
NoAttemptWhileUnknown ==
    \A t \in Tabs :
        working(t) => sent[t] \ {attempt[t]} \subseteq finalizedIn(journal(vault[t]))

\* What the workspace shows as backed up can be restored: an encrypted copy, a
\* file or a row deleted knowingly holds all of its journal.
BackedUpIsRestorable ==
    \A t \in Tabs : backedUp(t) => \E entries \in Recoverable : keeps(journal(vault[t]), entries)

\* Whatever version a vault was saved with and whatever is then edited, sealed,
\* submitted and confirmed, it stays one that can be saved and restored, and
\* so does each vault that waits to be saved.
VaultsCanBeSaved ==
    \A t \in Tabs :
        /\ vault[t] # Nothing => validateRoleVault(vault[t])
        /\ \A i \in DOMAIN pending[t] : validateRoleVault(pending[t][i].vault)

\* A receipt stands for a finalized transaction that the same vault journaled.
ReceiptsAreFinal ==
    \A entries \in Recoverable : finalizedIn(entries) \subseteq finalized

\* After a preparation or an outcome that timed out the session sends nothing
\* more, also when the save of its journal is confirmed after the deadline: a
\* late checkpoint cannot authorize a broadcast.
LateCheckpointSendsNothing ==
    [][\A t \in Tabs : recoveryRequired[t] => sent'[t] \subseteq sent[t]]_vars

\* A submission always ends, with a result or a deadline, and frees the tab.
SubmissionsEnd == \A t \in Tabs : working(t) ~> ~working(t)
=============================================================================
