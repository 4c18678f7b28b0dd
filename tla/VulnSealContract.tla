--------------------------- MODULE VulnSealContract --------------------------
(***************************************************************************)
(* The Compact contract contract/src/vulnseal.compact: the public ledger   *)
(* and its eight circuits.  One action is one circuit call that the ledger *)
(* applied; a call whose assertion fails leaves the ledger as it was, so   *)
(* assertions are guards.  The caller is anyone: actorSecret, the report   *)
(* preimage and the two evidence witnesses are chosen by the caller and    *)
(* are parameters of the action.                                           *)
(*                                                                         *)
(* persistentHash is free of collisions: a hash is the tuple of what was   *)
(* hashed, domain separator first.  default<Bytes<32>> is Zero.            *)
(***************************************************************************)
EXTENDS Naturals

CONSTANTS
    Programs,           \* program identities a preimage may name
    Program,            \* the one this contract was constructed for
    Secrets,            \* actor secrets anybody may prove with
    VendorSecret,       \* the secret the constructor was called with
    ReportDigests, Salts, CiphertextDigests, Decisions, PatchDigests, EvidenceDigests,
    Uint8Inputs,        \* the severities and reward tiers callers try
    MaxSequence         \* the largest Uint<64>, 2^64 - 1 in the source

ASSUME ContractConstants ==
    /\ Program \in Programs
    /\ VendorSecret \in Secrets
    /\ MaxSequence \in Nat \ {0}

VARIABLES
    sequence,           \* next call number
    reports,            \* commitment -> ReportRecord, for the members of the Map
    payoutReceipts      \* the Set of receipts already authorized

vars == <<sequence, reports, payoutReceipts>>

-----------------------------------------------------------------------------
(* Derived keys, commitments and receipts.                                 *)

Zero == <<"zero">>

deriveVendorKey(program, secret) == <<"vendor-key", program, secret>>
deriveReportCommitment(program, digest, salt) == <<"report", digest, salt, program>>
deriveResearcherKey(program, id, secret) == <<"researcher-key", program, id, secret>>
deriveSubmissionReceipt(id, encrypted, researcher) == <<"submission", id, encrypted, researcher>>
derivePatchCommitment(id, digest) == <<"patch", id, digest>>
deriveRetestCommitment(id, patch, evidence, passed) == <<"retest", id, patch, evidence, passed>>
derivePayoutReceipt(id, patch, retest, tier) == <<"payout-auth", id, patch, retest, tier>>

ownerKey == deriveVendorKey(Program, VendorSecret)

ReportStatus == {"COMMITTED", "TRIAGED", "ACCEPTED", "REJECTED", "PATCH_READY",
                 "RETEST_PASSED", "RETEST_FAILED", "PAYOUT_AUTHORIZED", "CLOSED"}
Tiers == 1..4           \* the tiers the assertions on severity and rewardTier let through

ReportIds == {deriveReportCommitment(Program, d, s) : d \in ReportDigests, s \in Salts}
ResearcherKeys == {deriveResearcherKey(Program, id, s) : id \in ReportIds, s \in Secrets}
SubmissionReceipts ==
    {deriveSubmissionReceipt(id, c, deriveResearcherKey(Program, id, s)) :
        id \in ReportIds, c \in CiphertextDigests, s \in Secrets}
PatchCommitments == {derivePatchCommitment(id, d) : id \in ReportIds, d \in PatchDigests}
RetestCommitments ==
    {deriveRetestCommitment(p[2], p, e, passed) :
        p \in PatchCommitments, e \in EvidenceDigests, passed \in BOOLEAN}
PayoutReceipts ==
    {derivePayoutReceipt(r[2], r[3], r, tier) : r \in RetestCommitments, tier \in Tiers}

-----------------------------------------------------------------------------
Init ==
    /\ sequence = 1
    /\ reports = [id \in {} |-> Zero]
    /\ payoutReceipts = {}

insert_Wraps(id, record) ==
    /\ sequence' = (sequence + 1) % (MaxSequence + 1)
    /\ reports' = [i \in DOMAIN reports \cup {id} |-> IF i = id THEN record ELSE reports[i]]

\* Map.insert, then `sequence = (sequence + 1) as Uint<64>`: the cast is
\* checked, so the call whose increment does not fit is refused.
insert(id, record) ==
    /\ sequence < MaxSequence
    /\ sequence' = sequence + 1
    /\ reports' = [i \in DOMAIN reports \cup {id} |-> IF i = id THEN record ELSE reports[i]]

assertVendor(secret) == ownerKey = deriveVendorKey(Program, secret)

assertResearcher(secret, preimage, id) ==
    /\ preimage[1] = Program
    /\ deriveReportCommitment(preimage[1], preimage[2], preimage[3]) = id
    /\ reports[id].researcherKey = deriveResearcherKey(Program, id, secret)

\* loadReport, then the circuit's assertion on the status.
loadReport(id, statuses) == id \in DOMAIN reports /\ reports[id].status \in statuses

submitReport(secret, preimage, encrypted) ==
    LET id == deriveReportCommitment(preimage[1], preimage[2], preimage[3])
        researcher == deriveResearcherKey(Program, id, secret)
    IN  /\ preimage[1] = Program
        /\ id \notin DOMAIN reports
        /\ insert(id, [commitment |-> id, ciphertextDigest |-> encrypted,
               researcherKey |-> researcher,
               submissionReceipt |-> deriveSubmissionReceipt(id, encrypted, researcher),
               status |-> "COMMITTED", severity |-> 0, decisionDigest |-> Zero,
               patchCommitment |-> Zero, retestCommitment |-> Zero, retestPassed |-> FALSE,
               payoutReceipt |-> Zero, rewardTier |-> 0,
               createdSequence |-> sequence, updatedSequence |-> sequence])
        /\ UNCHANGED payoutReceipts

beginTriage(secret, id) ==
    /\ assertVendor(secret)
    /\ loadReport(id, {"COMMITTED"})
    /\ insert(id, [reports[id] EXCEPT !.status = "TRIAGED", !.updatedSequence = sequence])
    /\ UNCHANGED payoutReceipts

acceptReport_AnyTier(secret, id, severity, decision) ==
    /\ assertVendor(secret)
    /\ loadReport(id, {"TRIAGED"})
    /\ insert(id, [reports[id] EXCEPT !.status = "ACCEPTED", !.severity = severity,
                       !.decisionDigest = decision, !.updatedSequence = sequence])
    /\ UNCHANGED payoutReceipts

acceptReport(secret, id, severity, decision) ==
    /\ assertVendor(secret)
    /\ severity \in Tiers
    /\ loadReport(id, {"TRIAGED"})
    /\ insert(id, [reports[id] EXCEPT !.status = "ACCEPTED", !.severity = severity,
                       !.decisionDigest = decision, !.updatedSequence = sequence])
    /\ UNCHANGED payoutReceipts

rejectReport(secret, id, decision) ==
    /\ assertVendor(secret)
    /\ loadReport(id, {"TRIAGED"})
    /\ insert(id, [reports[id] EXCEPT !.status = "REJECTED", !.severity = 0,
                       !.decisionDigest = decision, !.retestPassed = FALSE,
                       !.rewardTier = 0, !.updatedSequence = sequence])
    /\ UNCHANGED payoutReceipts

anchorPatch_KeepsRetest(secret, id, evidence) ==
    /\ assertVendor(secret)
    /\ loadReport(id, {"ACCEPTED", "RETEST_FAILED"})
    /\ evidence[1] = id
    /\ insert(id, [reports[id] EXCEPT !.status = "PATCH_READY",
                       !.patchCommitment = derivePatchCommitment(evidence[1], evidence[2]),
                       !.updatedSequence = sequence])
    /\ UNCHANGED payoutReceipts

\* A new patch forgets the failed retest of the one it replaces.
anchorPatch(secret, id, evidence) ==
    /\ assertVendor(secret)
    /\ loadReport(id, {"ACCEPTED", "RETEST_FAILED"})
    /\ evidence[1] = id
    /\ insert(id, [reports[id] EXCEPT !.status = "PATCH_READY",
                       !.patchCommitment = derivePatchCommitment(evidence[1], evidence[2]),
                       !.retestCommitment = Zero, !.retestPassed = FALSE,
                       !.updatedSequence = sequence])
    /\ UNCHANGED payoutReceipts

\* The evidence need not be about the patch now anchored.
submitRetest_StalePatch(secret, preimage, id, passed, evidence) ==
    /\ loadReport(id, {"PATCH_READY"})
    /\ assertResearcher(secret, preimage, id)
    /\ evidence[1] = id
    /\ insert(id, [reports[id] EXCEPT
                       !.status = IF passed THEN "RETEST_PASSED" ELSE "RETEST_FAILED",
                       !.retestCommitment = deriveRetestCommitment(id, evidence[2], evidence[3], passed),
                       !.retestPassed = passed, !.updatedSequence = sequence])
    /\ UNCHANGED payoutReceipts

submitRetest(secret, preimage, id, passed, evidence) ==
    /\ loadReport(id, {"PATCH_READY"})
    /\ assertResearcher(secret, preimage, id)
    /\ evidence[1] = id
    /\ evidence[2] = reports[id].patchCommitment
    /\ insert(id, [reports[id] EXCEPT
                       !.status = IF passed THEN "RETEST_PASSED" ELSE "RETEST_FAILED",
                       !.retestCommitment = deriveRetestCommitment(id, evidence[2], evidence[3], passed),
                       !.retestPassed = passed, !.updatedSequence = sequence])
    /\ UNCHANGED payoutReceipts

\* A paid report can be paid again at another tier.
authorizePayout_Again(secret, id, tier) ==
    LET receipt == derivePayoutReceipt(id, reports[id].patchCommitment,
                                       reports[id].retestCommitment, tier)
    IN  /\ assertVendor(secret)
        /\ tier \in Tiers
        /\ loadReport(id, {"RETEST_PASSED", "PAYOUT_AUTHORIZED"})
        /\ receipt \notin payoutReceipts
        /\ payoutReceipts' = payoutReceipts \cup {receipt}
        /\ insert(id, [reports[id] EXCEPT !.status = "PAYOUT_AUTHORIZED",
                           !.payoutReceipt = receipt, !.rewardTier = tier,
                           !.updatedSequence = sequence])

authorizePayout(secret, id, tier) ==
    LET receipt == derivePayoutReceipt(id, reports[id].patchCommitment,
                                       reports[id].retestCommitment, tier)
    IN  /\ assertVendor(secret)
        /\ tier \in Tiers
        /\ loadReport(id, {"RETEST_PASSED"})
        /\ reports[id].retestPassed
        /\ receipt \notin payoutReceipts
        /\ payoutReceipts' = payoutReceipts \cup {receipt}
        /\ insert(id, [reports[id] EXCEPT !.status = "PAYOUT_AUTHORIZED",
                           !.payoutReceipt = receipt, !.rewardTier = tier,
                           !.updatedSequence = sequence])

closeReport_FromVerified(secret, id) ==
    /\ assertVendor(secret)
    /\ loadReport(id, {"REJECTED", "RETEST_PASSED", "PAYOUT_AUTHORIZED"})
    /\ insert(id, [reports[id] EXCEPT !.status = "CLOSED", !.updatedSequence = sequence])
    /\ UNCHANGED payoutReceipts

closeReport(secret, id) ==
    /\ assertVendor(secret)
    /\ loadReport(id, {"REJECTED", "PAYOUT_AUTHORIZED"})
    /\ insert(id, [reports[id] EXCEPT !.status = "CLOSED", !.updatedSequence = sequence])
    /\ UNCHANGED payoutReceipts

-----------------------------------------------------------------------------
Preimages == Programs \X ReportDigests \X Salts

Next ==
    \E secret \in Secrets :
        \/ \E preimage \in Preimages, encrypted \in CiphertextDigests :
              submitReport(secret, preimage, encrypted)
        \/ \E id \in ReportIds :
              \/ beginTriage(secret, id)
              \/ \E severity \in Uint8Inputs, decision \in Decisions :
                    acceptReport(secret, id, severity, decision)
              \/ \E decision \in Decisions : rejectReport(secret, id, decision)
              \/ \E evidence \in ReportIds \X PatchDigests : anchorPatch(secret, id, evidence)
              \/ \E preimage \in Preimages, passed \in BOOLEAN,
                    evidence \in ReportIds \X PatchCommitments \X EvidenceDigests :
                    submitRetest(secret, preimage, id, passed, evidence)
              \/ \E tier \in Uint8Inputs : authorizePayout(secret, id, tier)
              \/ closeReport(secret, id)

Spec == Init /\ [][Next]_vars

-----------------------------------------------------------------------------
(* Properties.                                                             *)

ReportRecord ==
    [commitment : ReportIds, ciphertextDigest : CiphertextDigests,
     researcherKey : ResearcherKeys, submissionReceipt : SubmissionReceipts,
     status : ReportStatus, severity : 0..4, decisionDigest : Decisions \cup {Zero},
     patchCommitment : PatchCommitments \cup {Zero},
     retestCommitment : RetestCommitments \cup {Zero}, retestPassed : BOOLEAN,
     payoutReceipt : PayoutReceipts \cup {Zero}, rewardTier : 0..4,
     createdSequence : 1..MaxSequence, updatedSequence : 1..MaxSequence]

\* The ledger holds well-typed records and commitments, and its counter fits
\* a Uint<64>.
TypeOK ==
    /\ sequence \in 1..MaxSequence
    /\ DOMAIN reports \subseteq ReportIds
    /\ \A id \in DOMAIN reports : reports[id] \in ReportRecord
    /\ payoutReceipts \subseteq PayoutReceipts

Triaged == {"COMMITTED", "TRIAGED"}
Remediating == {"ACCEPTED", "PATCH_READY", "RETEST_PASSED", "RETEST_FAILED", "PAYOUT_AUTHORIZED"}
Patched == {"PATCH_READY", "RETEST_PASSED", "RETEST_FAILED", "PAYOUT_AUTHORIZED"}
Retested == {"RETEST_PASSED", "RETEST_FAILED", "PAYOUT_AUTHORIZED"}

IsPaid(record) == record.payoutReceipt # Zero

\* "Zero-valued commitments mean the corresponding workflow step has not
\* happened yet": which fields of a record are set is decided by its status,
\* and every commitment it carries is bound to this report, and the retest
\* to the patch now anchored.
RecordFitsStatus(id, r) ==
    /\ r.commitment = id
    /\ r.status \in Triaged \cup {"REJECTED"} =>
          /\ r.severity = 0
          /\ r.patchCommitment = Zero
    /\ r.status \in Remediating => r.severity \in Tiers
    /\ r.status \in Triaged => r.decisionDigest = Zero
    /\ r.status \notin Triaged => r.decisionDigest \in Decisions
    /\ r.status \in Patched => r.patchCommitment \in PatchCommitments
    /\ r.status \notin Patched \cup {"CLOSED"} => r.patchCommitment = Zero
    /\ r.patchCommitment # Zero => r.patchCommitment[2] = id
    /\ r.status \in Retested => r.retestCommitment \in RetestCommitments
    /\ r.status \notin Retested \cup {"CLOSED"} => r.retestCommitment = Zero
    /\ r.retestCommitment # Zero =>
          /\ r.patchCommitment \in PatchCommitments
          /\ r.retestCommitment[3] = r.patchCommitment
          /\ r.retestCommitment[5] = r.retestPassed
    /\ r.status \in {"RETEST_PASSED", "PAYOUT_AUTHORIZED"} => r.retestPassed
    /\ r.retestPassed => r.status \in {"RETEST_PASSED", "PAYOUT_AUTHORIZED", "CLOSED"}
    /\ r.status = "PAYOUT_AUTHORIZED" => IsPaid(r)
    /\ IsPaid(r) => r.status \in {"PAYOUT_AUTHORIZED", "CLOSED"}
    /\ r.status = "CLOSED" => \/ IsPaid(r) /\ r.severity \in Tiers
                              \/ ~IsPaid(r) /\ r.severity = 0 /\ r.patchCommitment = Zero

RecordsFitStatus == \A id \in DOMAIN reports : RecordFitsStatus(id, reports[id])

PayoutBacked(id, r) ==
    IsPaid(r) =>
        /\ r.payoutReceipt =
              derivePayoutReceipt(id, r.patchCommitment, r.retestCommitment, r.rewardTier)
        /\ r.rewardTier \in Tiers
        /\ r.severity \in Tiers
        /\ \E d \in PatchDigests, e \in EvidenceDigests :
              /\ r.patchCommitment = derivePatchCommitment(id, d)
              /\ r.retestCommitment = deriveRetestCommitment(id, r.patchCommitment, e, TRUE)

\* A payout authorization is backed by a passing retest of the very patch the
\* record carries, on an accepted report; the receipt binds both and the tier.
PayoutFollowsVerifiedPatch == \A id \in DOMAIN reports : PayoutBacked(id, reports[id])

\* The Set of used receipts and the reports say the same: every receipt
\* ever authorized is the receipt of exactly one report, and no report was
\* authorized twice.
ReceiptsMatchReports ==
    /\ payoutReceipts = {reports[id].payoutReceipt :
                            id \in {i \in DOMAIN reports : IsPaid(reports[i])}}
    /\ \A a, b \in DOMAIN reports :
          IsPaid(reports[a]) /\ reports[a].payoutReceipt = reports[b].payoutReceipt => a = b

\* The call numbers order the history: a record was last updated by a call
\* already counted, and no two reports by the same call.
SequenceOrdersCalls ==
    /\ \A id \in DOMAIN reports :
          /\ reports[id].createdSequence <= reports[id].updatedSequence
          /\ reports[id].updatedSequence < sequence
    /\ \A a, b \in DOMAIN reports :
          reports[a].updatedSequence = reports[b].updatedSequence => a = b

\* A call touches one report; no call removes a report, rewrites what its
\* researcher submitted, or changes a report that is closed.
CallChangesOneReport ==
    /\ \E id \in ReportIds : \A i \in DOMAIN reports' \ {id} :
          i \in DOMAIN reports /\ reports'[i] = reports[i]
    /\ \A i \in DOMAIN reports :
          /\ i \in DOMAIN reports'
          /\ reports[i].status = "CLOSED" => reports'[i] = reports[i]
          /\ reports'[i].ciphertextDigest = reports[i].ciphertextDigest
          /\ reports'[i].researcherKey = reports[i].researcherKey
          /\ reports'[i].submissionReceipt = reports[i].submissionReceipt
          /\ reports'[i].createdSequence = reports[i].createdSequence

SubmissionsAreImmutable == [][CallChangesOneReport]_vars

-----------------------------------------------------------------------------
(* The contract implements ReportLifecycle.                                *)

StageOf(status) ==
    CASE status \in Triaged -> "open"
      [] status \in {"ACCEPTED", "RETEST_FAILED"} -> "accepted"
      [] status = "PATCH_READY" -> "patched"
      [] status = "RETEST_PASSED" -> "verified"
      [] status = "PAYOUT_AUTHORIZED" -> "awarded"
      [] status = "REJECTED" -> "refused"
      [] OTHER -> "closed"

stageMap ==
    [id \in ReportIds |-> IF id \in DOMAIN reports THEN StageOf(reports[id].status) ELSE "absent"]

NoPatch == <<"no patch">>

\* A patch that failed its retest is no longer the anchored one.
anchoredMap ==
    [id \in ReportIds |->
        IF id \in DOMAIN reports /\ reports[id].retestCommitment # Zero /\ ~reports[id].retestPassed
        THEN NoPatch
        ELSE IF id \in DOMAIN reports /\ reports[id].patchCommitment # Zero
             THEN reports[id].patchCommitment ELSE NoPatch]

awardMap ==
    {<<reports[id].commitment, reports[id].patchCommitment>> :
        id \in {i \in DOMAIN reports : IsPaid(reports[i])}}

Lifecycle == INSTANCE ReportLifecycle WITH
    Reports <- ReportIds, Patches <- PatchCommitments,
    stage <- stageMap, anchored <- anchoredMap, awards <- awardMap

\* Whatever calls are made, what the ledger shows of a report follows the
\* promised lifecycle.
ImplementsLifecycle == Lifecycle!Spec
=============================================================================
