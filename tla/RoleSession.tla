----------------------------- MODULE RoleSession ------------------------------
(***************************************************************************)
(* Role workspaces (web/src/RoleWorkspace.tsx) and what is below their     *)
(* buttons: the upload of a sealed report to every configured store        *)
(* (api/src/cipherstore-client.ts), the role session and its checks        *)
(* (api/src/role-session.ts), the API whose calls take turns on a provider *)
(* of private state (api/src/api.ts), and the ledger, VulnSealContract.    *)
(*                                                                         *)
(* Wallet, proof server and indexer are external: a call proves with       *)
(* whatever private state the provider holds when it starts, and the       *)
(* ledger applies the transaction later, if its assertions then hold, or   *)
(* never, whether or not the call still waits for it.  The journal around  *)
(* a transaction is RoleJournal; here a session whose transaction has no   *)
(* known outcome is lost for good.                                         *)
(***************************************************************************)
EXTENDS FiniteSets, Sequences, SequencesExt

CONSTANTS
    Sessions,           \* one per open workspace
    identity,           \* session -> [role, programId, actorSecret]
    providerOf,         \* session -> the private-state provider it works on
    Prepared,           \* session -> the disclosures its vault starts with
    Stores,             \* the configured ciphertext stores
    Nothing, MaxRetired,
    Packages            \* the disclosure packages that vendors may receive

CONSTANTS Programs, Program, Secrets, VendorSecret, ReportDigests, Salts, CiphertextDigests,
    Decisions, PatchDigests, EvidenceDigests, Uint8Inputs, MaxSequence

VARIABLES
    sequence, reports, payoutReceipts,  \* the ledger
    pool,       \* transactions sent that were neither applied nor dropped
    installed,  \* provider -> the private state it holds
    queue,      \* provider -> sessions in privateStateQueues, the one at work first
    call,       \* session -> its RoleSession.execute: how far it is, with which command
    doing,      \* session -> what keeps its workspace busy
    job,        \* session -> the upload or the expected read-back of what it does
    vault,      \* session -> the disclosures it holds
    view,       \* session -> what its snapshot says of the chosen report
    stored, retired     \* store -> the ciphertexts it holds, or refuses

ledger == <<sequence, reports, payoutReceipts>>
chain == <<sequence, reports, payoutReceipts, pool>>
provider == <<installed, queue, call>>
storage == <<stored, retired>>
vars == <<chain, provider, doing, job, vault, view, storage>>

Contract == INSTANCE VulnSealContract

Zero == Contract!Zero

roleOf(s) == identity[s].role

\* The report of a disclosure, opened with its key, must give its commitment,
\* and its envelope name its program.
validateDisclosure(d) ==
    /\ d.report[1] = d.programId
    /\ d.id = Contract!deriveReportCommitment(d.programId, d.report[2], d.report[3])

\* The contract's constants.  The identity of a program is never the default of
\* its type, a researcher's vault holds valid disclosures, and a vendor has
\* taken over none before there is a ledger.
ASSUME SessionConstants ==
    /\ Program \in Programs /\ VendorSecret \in Secrets /\ MaxSequence \in Nat \ {0}
    /\ Program # Zero
    /\ DOMAIN Prepared = Sessions
    /\ \A s \in Sessions :
          /\ identity[s].actorSecret \in Secrets
          /\ \A d \in Prepared[s] :
                /\ roleOf(s) = "researcher" /\ validateDisclosure(d)
                /\ d.report \in Contract!Preimages /\ d.cipher \in CiphertextDigests

-----------------------------------------------------------------------------
(* Commands and private state.                                             *)

kinds == {"submitReport", "submitRetest", "beginTriage", "acceptReport", "rejectReport",
          "anchorPatch", "authorizePayout", "closeReport"}
roles == [kind \in kinds |->
             IF kind \in {"submitReport", "submitRetest"} THEN "researcher" ELSE "vendor"]

stages ==
    [beginTriage |-> {"COMMITTED"}, acceptReport |-> {"TRIAGED"}, rejectReport |-> {"TRIAGED"},
     anchorPatch |-> {"ACCEPTED", "RETEST_FAILED"}, submitRetest |-> {"PATCH_READY"},
     authorizePayout |-> {"RETEST_PASSED"}, closeReport |-> {"REJECTED", "PAYOUT_AUTHORIZED"}]

statusOf(id) == IF id \in DOMAIN reports THEN reports[id].status ELSE "ABSENT"

\* The record of the chosen report in the snapshot of the ledger.
viewOf(d) ==
    [disclosure |-> d, status |-> statusOf(d.id),
     patch |-> IF d.id \in DOMAIN reports THEN reports[d.id].patchCommitment ELSE Zero]

command(kind, d, arg) == [kind |-> kind, id |-> d.id, report |-> d.report, arg |-> arg]

\* The buttons that the workspace shows for its snapshot, with the inputs of
\* its fields.
offered(s) ==
    LET d == view[s].disclosure
        st == view[s].status
        args(kind) ==
            CASE kind = "acceptReport" -> (Contract!Tiers \cap Uint8Inputs) \X Decisions
              [] kind = "rejectReport" -> Decisions
              [] kind = "anchorPatch" -> PatchDigests
              [] kind = "submitRetest" -> {view[s].patch} \X EvidenceDigests \X BOOLEAN
              [] kind = "authorizePayout" -> Contract!Tiers \cap Uint8Inputs
              [] kind = "submitReport" -> {d.cipher}
              [] OTHER -> {Zero}
        shown == {kind \in kinds : roles[kind] = roleOf(s)
                     /\ IF kind = "submitReport" THEN st = "ABSENT" ELSE st \in stages[kind]}
    IN  UNION {{command(kind, d, arg) : arg \in args(kind)} : kind \in shown}

NoEvidence == <<Zero, Zero, Zero>>

NoCall == [command |-> Nothing, step |-> "none"]

\* createVulnSealPrivateState: what the witnesses of one call will return.
privateState(s, c) ==
    [actorSecret |-> identity[s].actorSecret,
     report |-> IF c.kind \in {"submitReport", "submitRetest"} THEN c.report ELSE NoEvidence,
     patch |-> IF c.kind = "anchorPatch" THEN <<c.id, c.arg>> ELSE NoEvidence,
     retest |-> IF c.kind = "submitRetest" THEN <<c.id, c.arg[1], c.arg[2]>> ELSE NoEvidence]

joinState(s) ==
    [actorSecret |-> identity[s].actorSecret,
     report |-> NoEvidence, patch |-> NoEvidence, retest |-> NoEvidence]

\* PrivateStateProvider.set: the provider holds one state per contract, and all
\* sessions use the same one.
install(p, state) == installed' = [installed EXCEPT ![p] = state]

\* A circuit of the contract: witnesses w, arguments of command c.
circuit(w, c) ==
    \/ c.kind = "submitReport" /\ Contract!submitReport(w.actorSecret, w.report, c.arg)
    \/ c.kind = "beginTriage" /\ Contract!beginTriage(w.actorSecret, c.id)
    \/ c.kind = "acceptReport" /\ Contract!acceptReport(w.actorSecret, c.id, c.arg[1], c.arg[2])
    \/ c.kind = "rejectReport" /\ Contract!rejectReport(w.actorSecret, c.id, c.arg)
    \/ c.kind = "anchorPatch" /\ Contract!anchorPatch(w.actorSecret, c.id, w.patch)
    \/ c.kind = "submitRetest" /\ Contract!submitRetest(w.actorSecret, w.report, c.id, c.arg[3], w.retest)
    \/ c.kind = "authorizePayout" /\ Contract!authorizePayout(w.actorSecret, c.id, c.arg)
    \/ c.kind = "closeReport" /\ Contract!closeReport(w.actorSecret, c.id)

-----------------------------------------------------------------------------
Init ==
    /\ Contract!Init
    /\ pool = {}
    /\ installed = [p \in {providerOf[s] : s \in Sessions} |-> Nothing]
    /\ queue = [p \in DOMAIN installed |-> <<>>]
    /\ call = [s \in Sessions |-> NoCall]
    /\ doing = [s \in Sessions |-> "offline"]
    /\ job = [s \in Sessions |-> Nothing]
    /\ vault = Prepared
    /\ view = [s \in Sessions |-> Nothing]
    /\ stored = [st \in Stores |-> {}]
    /\ retired = [st \in Stores |-> {}]

\* `lock`: one operation at a time in a workspace.
becomes(s, what, j) == doing' = [doing EXCEPT ![s] = what] /\ job' = [job EXCEPT ![s] = j]
shows(s, v) == view' = [view EXCEPT ![s] = v]

-----------------------------------------------------------------------------
(* Connecting, reading the ledger, taking over a disclosure.               *)

connectRole(s) ==
    /\ doing[s] = "offline"
    /\ becomes(s, "connecting", Nothing)
    /\ UNCHANGED <<chain, provider, vault, view, storage>>

\* Program and vendor authority are those of the ledger.
verifyProgram(s) ==
    /\ identity[s].programId = Program
    /\ roleOf(s) = "vendor" =>
          Contract!ownerKey = Contract!deriveVendorKey(Program, identity[s].actorSecret)

receiptOf(id) ==
    Contract!deriveSubmissionReceipt(id, reports[id].ciphertextDigest, reports[id].researcherKey)

\* joinRoleVault: a report that the ledger knows must be the saved one; one it
\* does not know was perhaps never submitted.
agrees(s, d) ==
    d.id \in DOMAIN reports =>
        /\ reports[d.id].ciphertextDigest = d.cipher
        /\ reports[d.id].submissionReceipt = receiptOf(d.id)
        /\ roleOf(s) = "researcher" => reports[d.id].researcherKey =
              Contract!deriveResearcherKey(Program, d.id, identity[s].actorSecret)

\* The SDK's join sets the initial private state without waiting for the queue.
join(s) == install(providerOf[s], joinState(s))

joinRoleVault(s) ==
    /\ doing[s] = "connecting"
    /\ join(s)
    /\ IF verifyProgram(s) /\ \A d \in vault[s] : agrees(s, d)
       THEN /\ becomes(s, "idle", Nothing)
            /\ \/ vault[s] = {} /\ shows(s, Nothing)
               \/ \E d \in vault[s] : shows(s, viewOf(d))
       ELSE becomes(s, "offline", Nothing) /\ UNCHANGED view
    /\ UNCHANGED <<chain, queue, call, vault, storage>>

\* "Refresh ledger".
load(s) ==
    /\ doing[s] = "idle"
    /\ becomes(s, "loading", Nothing)
    /\ shows(s, Nothing)
    /\ UNCHANGED <<chain, provider, vault, storage>>

expectedStatus(c) ==
    CASE c.kind = "submitReport" -> "COMMITTED" [] c.kind = "beginTriage" -> "TRIAGED"
      [] c.kind = "acceptReport" -> "ACCEPTED" [] c.kind = "rejectReport" -> "REJECTED"
      [] c.kind = "anchorPatch" -> "PATCH_READY"
      [] c.kind = "submitRetest" -> (IF c.arg[3] THEN "RETEST_PASSED" ELSE "RETEST_FAILED")
      [] c.kind = "authorizePayout" -> "PAYOUT_AUTHORIZED" [] c.kind = "closeReport" -> "CLOSED"

\* After a transaction the read must show its effect, or there is no snapshot.
loaded(s) ==
    /\ doing[s] = "loading"
    /\ becomes(s, "idle", Nothing)
    /\ IF job[s] # Nothing /\ statusOf(job[s].id) # expectedStatus(job[s])
       THEN shows(s, Nothing)
       ELSE \/ vault[s] = {} /\ shows(s, Nothing)
            \/ \E d \in vault[s] : shows(s, viewOf(d))
    /\ UNCHANGED <<chain, provider, vault, storage>>

\* Only a valid disclosure is encrypted, for the recipient whose key was chosen.
encryptDisclosure(d, recipient) == [recipient |-> recipient, disclosure |-> d]

\* The package is for this recipient, and what is in it is validated again: it
\* may come from anyone who has the recipient's public key.
decryptDisclosure(s, package) == package.recipient = s /\ validateDisclosure(package.disclosure)

acceptDisclosure(s, package) ==
    LET d == package.disclosure
    IN  /\ decryptDisclosure(s, package)
        /\ doing[s] = "idle" /\ roleOf(s) = "vendor"
        /\ d.programId = identity[s].programId
        /\ \A held \in vault[s] : held.id # d.id
        /\ becomes(s, "accepting", d)
        /\ UNCHANGED <<chain, provider, vault, view, storage>>

disclosureVerified(s) ==
    LET d == job[s]
    IN  /\ doing[s] = "accepting"
        /\ becomes(s, "idle", Nothing)
        /\ IF /\ d.id \in DOMAIN reports
              /\ reports[d.id].ciphertextDigest = d.cipher
              /\ reports[d.id].submissionReceipt = receiptOf(d.id)
           THEN vault' = [vault EXCEPT ![s] = @ \cup {d}] /\ shows(s, viewOf(d))
           ELSE UNCHANGED <<vault, view>>
        /\ UNCHANGED <<chain, provider, storage>>

\* An unreachable indexer or wallet, or the operation's deadline.
readFails(s) ==
    /\ doing[s] \in {"connecting", "loading", "accepting"}
    /\ becomes(s, IF doing[s] = "connecting" THEN "offline" ELSE "idle", Nothing)
    /\ UNCHANGED <<chain, provider, vault, view, storage>>

-----------------------------------------------------------------------------
(* Uploads.                                                                *)

\* uploadDisclosure, for its own sake or, with a command to follow, before it.
startUpload(s, d, then) ==
    becomes(s, "uploading", [cipher |-> d.cipher, then |-> then, after |-> doing[s]])

upload(s, d) ==
    /\ doing[s] \in {"idle", "offline"} /\ d \in vault[s]
    /\ startUpload(s, d, Nothing)
    /\ UNCHANGED <<chain, provider, vault, view, storage>>

\* The operator of a store retires a ciphertext.
retire(st, cipher) ==
    /\ cipher \in stored[st]
    /\ Cardinality(UNION {{t} \X retired[t] : t \in Stores}) < MaxRetired
    /\ stored' = [stored EXCEPT ![st] = @ \ {cipher}]
    /\ retired' = [retired EXCEPT ![st] = @ \cup {cipher}]
    /\ UNCHANGED <<chain, provider, doing, job, vault, view>>

enqueue_Shares(s, c) ==
    /\ call' = [call EXCEPT ![s] = [command |-> c, step |-> "installed"]]
    /\ queue' = [queue EXCEPT ![providerOf[s]] = <<s>> \o @]
    /\ install(providerOf[s], privateState(s, c))

\* RoleSession.execute up to withPrivateState: the session's own checks, then
\* the place at the end of the provider's queue.
enqueue(s, c) ==
    /\ call' = [call EXCEPT ![s] = [command |-> c, step |-> "queued"]]
    /\ queue' = [queue EXCEPT ![providerOf[s]] = Append(@, s)]
    /\ UNCHANGED installed

Answers == {"acknowledged", "unconfirmed", "refused"}

\* The requests of one put: a store that does not acknowledge (507, 503, 410 for
\* what was retired, a lost answer, the deadline) may have stored the bytes.
put(cipher, answer) ==
    /\ \A st \in Stores : cipher \in retired[st] => answer[st] = "refused"
    /\ stored' = [st \in Stores |->
           IF answer[st] = "refused" THEN stored[st] ELSE stored[st] \cup {cipher}]
    /\ UNCHANGED retired

complete_WithOne(answer) == \E st \in Stores : answer[st] = "acknowledged"

\* acknowledged === results.length, after Promise.allSettled.
complete(answer) == \A st \in Stores : answer[st] = "acknowledged"

\* Only a complete replication goes on to the transaction it was for.
uploadSettles(s) ==
    LET then == job[s].then
    IN  /\ doing[s] = "uploading"
        /\ \E answer \in [Stores -> Answers] :
              /\ put(job[s].cipher, answer)
              /\ IF complete(answer) /\ then # Nothing
                 THEN /\ becomes(s, "executing", Nothing)
                      /\ shows(s, Nothing)
                      /\ enqueue(s, then)
                 ELSE becomes(s, job[s].after, Nothing) /\ UNCHANGED <<view, provider>>
        /\ UNCHANGED <<chain, vault>>

-----------------------------------------------------------------------------
(* A command.                                                              *)

\* A button of the snapshot.  A report is uploaded before it is submitted.
write(s, c) ==
    /\ doing[s] = "idle" /\ view[s] # Nothing
    /\ c \in offered(s)
    /\ call[s] = NoCall
    /\ IF c.kind = "submitReport"
       THEN startUpload(s, view[s].disclosure, c) /\ UNCHANGED <<provider, view>>
       ELSE /\ becomes(s, "executing", Nothing)
            /\ shows(s, Nothing)
            /\ enqueue(s, c)
    /\ UNCHANGED <<chain, vault, storage>>

\* withPrivateState: its turn has come, and the private state is set.
usePrivateState(s) ==
    LET p == providerOf[s]
    IN  /\ call[s].step = "queued"
        /\ Head(queue[p]) = s
        /\ install(p, privateState(s, call[s].command))
        /\ call' = [call EXCEPT ![s].step = "installed"]
        /\ UNCHANGED <<chain, queue, doing, job, vault, view, storage>>

\* The call is over, whatever its result: the next in the queue has its turn.
release(s) ==
    /\ call' = [call EXCEPT ![s] = NoCall]
    /\ queue' = [queue EXCEPT ![providerOf[s]] = Tail(@)]
    /\ UNCHANGED installed

\* The command fits the ledger as it is read now.
stageAllows(s, c) ==
    IF c.kind = "submitReport" THEN c.id \notin DOMAIN reports
    ELSE /\ c.id \in DOMAIN reports
         /\ reports[c.id].status \in stages[c.kind]
         /\ c.kind = "submitRetest" =>
               /\ reports[c.id].researcherKey =
                     Contract!deriveResearcherKey(Program, c.id, identity[s].actorSecret)
               /\ reports[c.id].patchCommitment = c.arg[1]

\* An error before a transaction identifier exists leaves the session usable;
\* one that already gave up stays lost.
fails(s) ==
    /\ release(s)
    /\ IF doing[s] = "executing" THEN becomes(s, "idle", Nothing) ELSE UNCHANGED <<doing, job>>
    /\ UNCHANGED <<chain, vault, view, storage>>

checkStage(s) ==
    /\ call[s].step = "installed"
    /\ IF verifyProgram(s) /\ stageAllows(s, call[s].command)
       THEN /\ call' = [call EXCEPT ![s].step = "checked"]
            /\ UNCHANGED <<chain, installed, queue, doing, job, vault, view, storage>>
       ELSE fails(s)

\* The read, the proof or the wallet fails, or submissionWait has closed and
\* refuses the late continuation.
callFails(s) ==
    /\ call[s].step \in {"installed", "checked"}
    /\ fails(s)

\* The proof is made from the private state that the provider holds.
submitTx(s) ==
    /\ call[s].step = "checked"
    /\ doing[s] = "executing"
    /\ pool' = pool \cup {[by |-> s, witnesses |-> installed[providerOf[s]], command |-> call[s].command]}
    /\ call' = [call EXCEPT ![s].step = "sent"]
    /\ UNCHANGED <<ledger, installed, queue, doing, job, vault, view, storage>>

\* The ledger applies a transaction when its assertions hold: a call that still
\* waits for it gets its receipt.
applyTx(tx) ==
    /\ circuit(tx.witnesses, tx.command)
    /\ pool' = pool \ {tx}
    /\ call' = [call EXCEPT ![tx.by].step = IF @ = "sent" THEN "final" ELSE @]
    /\ UNCHANGED <<installed, queue, doing, job, vault, view, storage>>

\* The network drops a transaction or lets it expire; nobody is told.
dropTx(tx) ==
    /\ pool' = pool \ {tx}
    /\ UNCHANGED <<ledger, provider, doing, job, vault, view, storage>>

\* The receipt: the workspace reads the ledger back.
answered(s) ==
    /\ call[s].step = "final"
    /\ release(s)
    /\ IF doing[s] = "executing" THEN becomes(s, "loading", call[s].command)
       ELSE UNCHANGED <<doing, job>>
    /\ UNCHANGED <<chain, vault, view, storage>>

callRejects_KeepsSession(s) ==
    /\ call[s].step \in {"sent", "final"}
    /\ release(s)
    /\ IF doing[s] = "executing" THEN becomes(s, "idle", Nothing) ELSE UNCHANGED <<doing, job>>
    /\ UNCHANGED <<chain, vault, view, storage>>

\* The wallet's deadline or error, the indexer's or the SDK's: the call is over
\* and the session cannot tell what becomes, or became, of its transaction.
callRejects(s) ==
    /\ call[s].step \in {"sent", "final"}
    /\ release(s)
    /\ IF doing[s] = "executing" THEN becomes(s, "lost", Nothing) ELSE UNCHANGED <<doing, job>>
    /\ UNCHANGED <<chain, vault, view, storage>>

\* submissionWait: preparation or confirmation takes too long.  The call goes
\* on by itself and keeps its place in the queue.
expires(s) ==
    /\ doing[s] = "executing"
    /\ becomes(s, "lost", Nothing)
    /\ UNCHANGED <<chain, provider, vault, view, storage>>

-----------------------------------------------------------------------------
Next ==
    \/ \E s \in Sessions :
        \/ connectRole(s) \/ joinRoleVault(s) \/ load(s) \/ loaded(s)
        \/ disclosureVerified(s) \/ readFails(s) \/ expires(s) \/ uploadSettles(s)
        \/ \E package \in Packages : acceptDisclosure(s, package)
        \/ \E d \in vault[s] : upload(s, d)
        \/ view[s] # Nothing /\ \E c \in offered(s) : write(s, c)
        \/ usePrivateState(s) \/ checkStage(s) \/ callFails(s) \/ submitTx(s)
        \/ answered(s) \/ callRejects(s)
    \/ \E st \in Stores : \E cipher \in stored[st] : retire(st, cipher)
    \/ \E tx \in pool : applyTx(tx) \/ dropTx(tx)

Spec == Init /\ [][Next]_vars

-----------------------------------------------------------------------------
\* A record on the ledger is one researcher's report, with that researcher's
\* key and that report's own ciphertext, whatever calls shared the provider;
\* and what a vendor took over is what the ledger names.
RecordsAreWhole ==
    /\ \A id \in DOMAIN reports : \E s \in Sessions : \E d \in Prepared[s] :
          /\ roleOf(s) = "researcher"
          /\ d.id = id /\ d.cipher = reports[id].ciphertextDigest
          /\ reports[id].researcherKey =
                Contract!deriveResearcherKey(Program, id, identity[s].actorSecret)
    /\ \A s \in Sessions : roleOf(s) = "vendor" =>
          \A d \in vault[s] : d.id \in DOMAIN reports /\ reports[d.id].ciphertextDigest = d.cipher

\* The ciphertext of a report on the ledger is at every configured store,
\* except where that store's operator has retired it.
LedgerReportsAreStored ==
    \A id \in DOMAIN reports, st \in Stores :
        reports[id].ciphertextDigest \in stored[st] \cup retired[st]

\* What the ledger applies, it applies at a stage at which the session would
\* still allow it: a retest is of the patch that is current then and a decision
\* on what is undecided, although the session read the stage before the proof,
\* and another may have used the time between, or the call given up long ago.
StageHoldsWhenApplied ==
    [][\A tx \in pool \ pool' : UNCHANGED ledger \/ stageAllows(tx.by, tx.command)]_vars

\* A workspace that can act has no call of its own left in the provider's
\* queue and no transaction at the network: after a deadline the late call can
\* still win the queue, and after an error its transaction still reach the
\* ledger, and only a lost session may have either.
UsableHasNoCallLeft ==
    \A s \in Sessions : doing[s] \notin {"executing", "lost"} =>
        /\ call[s] = NoCall
        /\ s \notin ToSet(queue[providerOf[s]])
        /\ \A tx \in pool : tx.by # s
=============================================================================
