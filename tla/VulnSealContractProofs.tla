------------------------ MODULE VulnSealContractProofs -----------------------
(***************************************************************************)
(* Theorems about the contract for every set of callers, reports, patches  *)
(* and for every width of the sequence counter.                            *)
(*                                                                         *)
(* Every circuit writes one record.  CallEffect says what all of them have *)
(* in common: the record's type, its agreement with its status, what backs *)
(* a payout it carries, its call number, and the receipt added to the Set. *)
(* One lemma per circuit shows its effect is a CallEffect; the inductive   *)
(* invariant IInv and the action property then follow once, from           *)
(* CallEffect alone.  The second half maps each circuit to its step of     *)
(* ReportLifecycle.                                                        *)
(***************************************************************************)
EXTENDS VulnSealContract, TLAPS

IInv ==
    /\ TypeOK
    /\ RecordsFitStatus
    /\ PayoutFollowsVerifiedPatch
    /\ ReceiptsMatchReports
    /\ SequenceOrdersCalls

\* The receipt Set grows exactly when the call makes an unpaid report paid.
ReceiptEffect(id, record) ==
    \/ /\ payoutReceipts' = payoutReceipts
       /\ id \in DOMAIN reports => record.payoutReceipt = reports[id].payoutReceipt
       /\ id \notin DOMAIN reports => record.payoutReceipt = Zero
    \/ /\ payoutReceipts' = payoutReceipts \cup {record.payoutReceipt}
       /\ id \in DOMAIN reports
       /\ ~IsPaid(reports[id])
       /\ IsPaid(record)

KeepsSubmission(id, record) ==
    id \in DOMAIN reports =>
        /\ reports[id].status # "CLOSED"
        /\ record.ciphertextDigest = reports[id].ciphertextDigest
        /\ record.researcherKey = reports[id].researcherKey
        /\ record.submissionReceipt = reports[id].submissionReceipt
        /\ record.createdSequence = reports[id].createdSequence

\* What no later circuit rewrites, as field equations for the prover.
SameSubmission(id, record) ==
    /\ record.commitment = reports[id].commitment
    /\ record.ciphertextDigest = reports[id].ciphertextDigest
    /\ record.researcherKey = reports[id].researcherKey
    /\ record.submissionReceipt = reports[id].submissionReceipt
    /\ record.createdSequence = reports[id].createdSequence

CallEffect(id, record) ==
    /\ id \in ReportIds
    /\ record \in ReportRecord
    /\ insert(id, record)
    /\ RecordFitsStatus(id, record)
    /\ PayoutBacked(id, record)
    /\ record.createdSequence <= sequence
    /\ record.updatedSequence = sequence
    /\ ReceiptEffect(id, record)
    /\ KeepsSubmission(id, record)

ACall == \E id \in ReportIds, record \in ReportRecord : CallEffect(id, record)

-----------------------------------------------------------------------------
(* Facts every circuit's lemma needs.                                      *)

\* A hash is never the default value.
LEMMA HashesAreNotZero ==
  /\ \A p \in PatchCommitments : p # Zero
  /\ \A r \in RetestCommitments : r # Zero
  /\ \A t \in PayoutReceipts : t # Zero
BY DEF PatchCommitments, RetestCommitments, PayoutReceipts, Zero, derivePatchCommitment,
       deriveRetestCommitment, derivePayoutReceipt

\* What the invariant says of one stored record.
LEMMA StoredRecord ==
  ASSUME IInv, NEW id \in DOMAIN reports
  PROVE  /\ id \in ReportIds
         /\ reports[id] \in ReportRecord
         /\ RecordFitsStatus(id, reports[id])
         /\ PayoutBacked(id, reports[id])
         /\ reports[id].createdSequence <= sequence
         /\ sequence \in 1..MaxSequence
<1>1. /\ id \in ReportIds
      /\ reports[id] \in ReportRecord
      /\ sequence \in 1..MaxSequence
  BY DEF IInv, TypeOK
<1>2. RecordFitsStatus(id, reports[id]) /\ PayoutBacked(id, reports[id])
  BY DEF IInv, RecordsFitStatus, PayoutFollowsVerifiedPatch
<1>3. /\ reports[id].createdSequence \in 1..MaxSequence
      /\ reports[id].updatedSequence \in 1..MaxSequence
  BY <1>1 DEF ReportRecord
<1>4. reports[id].createdSequence <= sequence
  BY <1>1, <1>3, ContractConstants DEF IInv, SequenceOrdersCalls
<1>5. QED
  BY <1>1, <1>2, <1>4

-----------------------------------------------------------------------------
(* Typed updates of a record, one shape per circuit.                       *)

\* beginTriage and closeReport.
LEMMA StatusUpdate ==
  ASSUME NEW r \in ReportRecord, NEW status \in ReportStatus, NEW n \in 1..MaxSequence
  PROVE  [r EXCEPT !.status = status, !.updatedSequence = n] \in ReportRecord
  BY DEF ReportRecord

\* acceptReport.
LEMMA AcceptUpdate ==
  ASSUME NEW r \in ReportRecord, NEW status \in ReportStatus, NEW n \in 1..MaxSequence,
         NEW severity \in 0..4, NEW decision \in Decisions
  PROVE  [r EXCEPT !.status = status, !.severity = severity,
             !.decisionDigest = decision, !.updatedSequence = n] \in ReportRecord
  BY DEF ReportRecord

\* rejectReport.
LEMMA RejectUpdate ==
  ASSUME NEW r \in ReportRecord, NEW status \in ReportStatus, NEW n \in 1..MaxSequence,
         NEW severity \in 0..4, NEW decision \in Decisions, NEW passed \in BOOLEAN,
         NEW tier \in 0..4
  PROVE  [r EXCEPT !.status = status, !.severity = severity,
             !.decisionDigest = decision, !.retestPassed = passed,
             !.rewardTier = tier, !.updatedSequence = n] \in ReportRecord
  BY DEF ReportRecord

\* anchorPatch.
LEMMA AnchorUpdate ==
  ASSUME NEW r \in ReportRecord, NEW status \in ReportStatus, NEW n \in 1..MaxSequence,
         NEW patch \in PatchCommitments
  PROVE  [r EXCEPT !.status = status, !.patchCommitment = patch,
             !.retestCommitment = Zero, !.retestPassed = FALSE,
             !.updatedSequence = n] \in ReportRecord
  BY DEF ReportRecord

\* submitRetest.
LEMMA RetestUpdate ==
  ASSUME NEW r \in ReportRecord, NEW status \in ReportStatus, NEW n \in 1..MaxSequence,
         NEW retest \in RetestCommitments, NEW passed \in BOOLEAN
  PROVE  [r EXCEPT !.status = status, !.retestCommitment = retest,
             !.retestPassed = passed, !.updatedSequence = n] \in ReportRecord
  BY DEF ReportRecord

\* authorizePayout.
LEMMA PayoutUpdate ==
  ASSUME NEW r \in ReportRecord, NEW status \in ReportStatus, NEW n \in 1..MaxSequence,
         NEW receipt \in PayoutReceipts, NEW tier \in 0..4
  PROVE  [r EXCEPT !.status = status, !.payoutReceipt = receipt,
             !.rewardTier = tier, !.updatedSequence = n] \in ReportRecord
  BY DEF ReportRecord

-----------------------------------------------------------------------------
(* One circuit, one lemma: its effect is a CallEffect.                     *)

\* submitReport writes a fresh record.
LEMMA SubmitEffect ==
  ASSUME IInv, NEW secret \in Secrets, NEW preimage \in Preimages,
         NEW encrypted \in CiphertextDigests, submitReport(secret, preimage, encrypted)
  PROVE  ACall
<1> DEFINE id == deriveReportCommitment(preimage[1], preimage[2], preimage[3])
           researcher == deriveResearcherKey(Program, id, secret)
           record == [commitment |-> id, ciphertextDigest |-> encrypted,
               researcherKey |-> researcher,
               submissionReceipt |-> deriveSubmissionReceipt(id, encrypted, researcher),
               status |-> "COMMITTED", severity |-> 0, decisionDigest |-> Zero,
               patchCommitment |-> Zero, retestCommitment |-> Zero, retestPassed |-> FALSE,
               payoutReceipt |-> Zero, rewardTier |-> 0,
               createdSequence |-> sequence, updatedSequence |-> sequence]
<1>1. id \in ReportIds
  BY DEF submitReport, Preimages, ReportIds
<1>2. record \in ReportRecord
  <2>1. researcher \in ResearcherKeys
    BY <1>1 DEF ResearcherKeys
  <2>2. deriveSubmissionReceipt(id, encrypted, researcher) \in SubmissionReceipts
    BY <1>1 DEF SubmissionReceipts
  <2>3. sequence \in 1..MaxSequence
    BY DEF IInv, TypeOK
  <2> HIDE DEF id, researcher
  <2>4. QED
    BY <1>1, <2>1, <2>2, <2>3 DEF ReportRecord, ReportStatus
<1>3. /\ insert(id, record)
      /\ payoutReceipts' = payoutReceipts
      /\ id \notin DOMAIN reports
      /\ sequence \in Nat
  BY ContractConstants DEF submitReport, IInv, TypeOK
<1>4. CallEffect(id, record)
  <2> HIDE DEF id, researcher
  <2>1. RecordFitsStatus(id, record) /\ PayoutBacked(id, record)
    BY DEF RecordFitsStatus, PayoutBacked, IsPaid, Triaged, Remediating, Patched, Retested
  <2>2. ReceiptEffect(id, record) /\ KeepsSubmission(id, record)
    BY <1>3 DEF ReceiptEffect, KeepsSubmission
  <2>3. QED
    BY <1>1, <1>2, <1>3, <2>1, <2>2 DEF CallEffect
<1>5. QED
  BY <1>1, <1>2, <1>4 DEF ACall

\* beginTriage only moves the status.
LEMMA TriageEffect ==
  ASSUME IInv, NEW secret \in Secrets, NEW id \in ReportIds,
         beginTriage(secret, id)
  PROVE  ACall
<1> DEFINE record == [reports[id] EXCEPT !.status = "TRIAGED", !.updatedSequence = sequence]
<1>1. /\ id \in DOMAIN reports
      /\ reports[id].status = "COMMITTED"
      /\ insert(id, record)
      /\ payoutReceipts' = payoutReceipts
  BY DEF beginTriage, loadReport
<1>2. /\ reports[id] \in ReportRecord
      /\ sequence \in 1..MaxSequence
      /\ RecordFitsStatus(id, reports[id])
      /\ PayoutBacked(id, reports[id])
      /\ reports[id].createdSequence <= sequence
  BY <1>1, StoredRecord
<1>3. record \in ReportRecord
  BY <1>2, StatusUpdate, "TRIAGED" \in ReportStatus DEF ReportStatus
<1>4. SameSubmission(id, record)
  BY <1>2 DEF ReportRecord, SameSubmission
<1>5. /\ record.status = "TRIAGED"
      /\ record.severity = reports[id].severity
      /\ record.decisionDigest = reports[id].decisionDigest
      /\ record.patchCommitment = reports[id].patchCommitment
      /\ record.retestCommitment = reports[id].retestCommitment
      /\ record.retestPassed = reports[id].retestPassed
      /\ record.payoutReceipt = reports[id].payoutReceipt
      /\ record.rewardTier = reports[id].rewardTier
      /\ record.updatedSequence = sequence
  BY <1>2 DEF ReportRecord
<1> HIDE DEF record
<1>6. RecordFitsStatus(id, record) /\ ~IsPaid(record)
  BY <1>1, <1>2, <1>4, <1>5
     DEF SameSubmission, RecordFitsStatus, IsPaid, Triaged, Remediating, Patched, Retested, Tiers
<1>7. PayoutBacked(id, record)
  BY <1>6 DEF PayoutBacked
<1>8. ReceiptEffect(id, record) /\ KeepsSubmission(id, record)
  BY <1>1, <1>4, <1>5 DEF ReceiptEffect, KeepsSubmission, SameSubmission
<1>9. QED
  BY <1>2, <1>3, <1>1, <1>4, <1>5, <1>6, <1>7, <1>8 DEF CallEffect, ACall, SameSubmission

\* acceptReport sets a tier and a decision.
LEMMA AcceptEffect ==
  ASSUME IInv, NEW secret \in Secrets, NEW id \in ReportIds, NEW severity \in Uint8Inputs,
         NEW decision \in Decisions,
         acceptReport(secret, id, severity, decision)
  PROVE  ACall
<1> DEFINE record == [reports[id] EXCEPT !.status = "ACCEPTED", !.severity = severity,
                       !.decisionDigest = decision, !.updatedSequence = sequence]
<1>1. /\ id \in DOMAIN reports
      /\ reports[id].status = "TRIAGED"
      /\ severity \in 1..4
      /\ severity \in 0..4
      /\ insert(id, record)
      /\ payoutReceipts' = payoutReceipts
  BY DEF acceptReport, loadReport, Tiers
<1>2. /\ reports[id] \in ReportRecord
      /\ sequence \in 1..MaxSequence
      /\ RecordFitsStatus(id, reports[id])
      /\ PayoutBacked(id, reports[id])
      /\ reports[id].createdSequence <= sequence
  BY <1>1, StoredRecord
<1>3. record \in ReportRecord
  BY <1>1, <1>2, AcceptUpdate, "ACCEPTED" \in ReportStatus DEF ReportStatus
<1>4. SameSubmission(id, record)
  BY <1>2 DEF ReportRecord, SameSubmission
<1>5. /\ record.status = "ACCEPTED"
      /\ record.severity = severity
      /\ record.decisionDigest = decision
      /\ record.patchCommitment = reports[id].patchCommitment
      /\ record.retestCommitment = reports[id].retestCommitment
      /\ record.retestPassed = reports[id].retestPassed
      /\ record.payoutReceipt = reports[id].payoutReceipt
      /\ record.rewardTier = reports[id].rewardTier
      /\ record.updatedSequence = sequence
  BY <1>2 DEF ReportRecord
<1> HIDE DEF record
<1>6. RecordFitsStatus(id, record) /\ ~IsPaid(record)
  BY <1>1, <1>2, <1>4, <1>5
     DEF SameSubmission, RecordFitsStatus, IsPaid, Triaged, Remediating, Patched, Retested, Tiers
<1>7. PayoutBacked(id, record)
  BY <1>6 DEF PayoutBacked
<1>8. ReceiptEffect(id, record) /\ KeepsSubmission(id, record)
  BY <1>1, <1>4, <1>5 DEF ReceiptEffect, KeepsSubmission, SameSubmission
<1>9. QED
  BY <1>2, <1>3, <1>1, <1>4, <1>5, <1>6, <1>7, <1>8 DEF CallEffect, ACall, SameSubmission

\* rejectReport leaves a report with no tier and no result.
LEMMA RejectEffect ==
  ASSUME IInv, NEW secret \in Secrets, NEW id \in ReportIds, NEW decision \in Decisions,
         rejectReport(secret, id, decision)
  PROVE  ACall
<1> DEFINE record == [reports[id] EXCEPT !.status = "REJECTED", !.severity = 0,
                       !.decisionDigest = decision, !.retestPassed = FALSE,
                       !.rewardTier = 0, !.updatedSequence = sequence]
<1>1. /\ id \in DOMAIN reports
      /\ reports[id].status = "TRIAGED"
      /\ insert(id, record)
      /\ payoutReceipts' = payoutReceipts
  BY DEF rejectReport, loadReport
<1>2. /\ reports[id] \in ReportRecord
      /\ sequence \in 1..MaxSequence
      /\ RecordFitsStatus(id, reports[id])
      /\ PayoutBacked(id, reports[id])
      /\ reports[id].createdSequence <= sequence
  BY <1>1, StoredRecord
<1>3. record \in ReportRecord
  <2>1. "REJECTED" \in ReportStatus /\ 0 \in 0..4 /\ FALSE \in BOOLEAN
    BY DEF ReportStatus
  <2>2. QED
    BY <1>2, <2>1, RejectUpdate
<1>4. SameSubmission(id, record)
  BY <1>2 DEF ReportRecord, SameSubmission
<1>5. /\ record.status = "REJECTED"
      /\ record.severity = 0
      /\ record.decisionDigest = decision
      /\ record.retestPassed = FALSE
      /\ record.rewardTier = 0
      /\ record.patchCommitment = reports[id].patchCommitment
      /\ record.retestCommitment = reports[id].retestCommitment
      /\ record.payoutReceipt = reports[id].payoutReceipt
      /\ record.updatedSequence = sequence
  BY <1>2 DEF ReportRecord
<1> HIDE DEF record
<1>6. RecordFitsStatus(id, record) /\ ~IsPaid(record)
  BY <1>1, <1>2, <1>4, <1>5
     DEF SameSubmission, RecordFitsStatus, IsPaid, Triaged, Remediating, Patched, Retested, Tiers
<1>7. PayoutBacked(id, record)
  BY <1>6 DEF PayoutBacked
<1>8. ReceiptEffect(id, record) /\ KeepsSubmission(id, record)
  BY <1>1, <1>4, <1>5 DEF ReceiptEffect, KeepsSubmission, SameSubmission
<1>9. QED
  BY <1>2, <1>3, <1>1, <1>4, <1>5, <1>6, <1>7, <1>8 DEF CallEffect, ACall, SameSubmission

\* anchorPatch binds the patch to the report and forgets the failed retest.
LEMMA AnchorEffect ==
  ASSUME IInv, NEW secret \in Secrets, NEW id \in ReportIds, NEW evidence \in ReportIds \X PatchDigests,
         anchorPatch(secret, id, evidence)
  PROVE  ACall
<1> DEFINE patch == derivePatchCommitment(evidence[1], evidence[2])
           record == [reports[id] EXCEPT !.status = "PATCH_READY",
                       !.patchCommitment = patch,
                       !.retestCommitment = Zero, !.retestPassed = FALSE,
                       !.updatedSequence = sequence]
<1>1. /\ id \in DOMAIN reports
      /\ reports[id].status \in {"ACCEPTED", "RETEST_FAILED"}
      /\ evidence[1] = id
      /\ insert(id, record)
      /\ payoutReceipts' = payoutReceipts
  BY DEF anchorPatch, loadReport
<1>2. /\ reports[id] \in ReportRecord
      /\ sequence \in 1..MaxSequence
      /\ RecordFitsStatus(id, reports[id])
      /\ PayoutBacked(id, reports[id])
      /\ reports[id].createdSequence <= sequence
  BY <1>1, StoredRecord
<1>0. patch \in PatchCommitments /\ patch # Zero /\ patch[2] = id
  BY <1>1, HashesAreNotZero DEF PatchCommitments, derivePatchCommitment
<1> HIDE DEF patch
<1>3. record \in ReportRecord
  BY <1>0, <1>2, AnchorUpdate, "PATCH_READY" \in ReportStatus DEF ReportStatus
<1>4. SameSubmission(id, record)
  BY <1>2 DEF ReportRecord, SameSubmission
<1>5. /\ record.status = "PATCH_READY"
      /\ record.patchCommitment = patch
      /\ record.retestCommitment = Zero
      /\ record.retestPassed = FALSE
      /\ record.severity = reports[id].severity
      /\ record.decisionDigest = reports[id].decisionDigest
      /\ record.payoutReceipt = reports[id].payoutReceipt
      /\ record.rewardTier = reports[id].rewardTier
      /\ record.updatedSequence = sequence
  BY <1>2 DEF ReportRecord
<1> HIDE DEF record
<1>6. RecordFitsStatus(id, record) /\ ~IsPaid(record)
  BY <1>1, <1>2, <1>4, <1>5, <1>0
     DEF SameSubmission, RecordFitsStatus, IsPaid, Triaged, Remediating, Patched, Retested, Tiers
<1>7. PayoutBacked(id, record)
  BY <1>6 DEF PayoutBacked
<1>8. ReceiptEffect(id, record) /\ KeepsSubmission(id, record)
  BY <1>1, <1>4, <1>5 DEF ReceiptEffect, KeepsSubmission, SameSubmission
<1>9. QED
  BY <1>2, <1>3, <1>1, <1>4, <1>5, <1>6, <1>7, <1>8 DEF CallEffect, ACall, SameSubmission

\* submitRetest records a result for the patch now anchored.
LEMMA RetestEffect ==
  ASSUME IInv, NEW secret \in Secrets, NEW id \in ReportIds, NEW preimage \in Preimages,
         NEW passed \in BOOLEAN, NEW evidence \in ReportIds \X PatchCommitments \X EvidenceDigests,
         submitRetest(secret, preimage, id, passed, evidence)
  PROVE  ACall
<1> DEFINE status == IF passed THEN "RETEST_PASSED" ELSE "RETEST_FAILED"
           retest == deriveRetestCommitment(id, evidence[2], evidence[3], passed)
           record == [reports[id] EXCEPT !.status = status, !.retestCommitment = retest,
                       !.retestPassed = passed, !.updatedSequence = sequence]
<1>1. /\ id \in DOMAIN reports
      /\ reports[id].status = "PATCH_READY"
      /\ evidence[2] = reports[id].patchCommitment
      /\ insert(id, record)
      /\ payoutReceipts' = payoutReceipts
  BY DEF submitRetest, loadReport
<1>2. /\ reports[id] \in ReportRecord
      /\ sequence \in 1..MaxSequence
      /\ RecordFitsStatus(id, reports[id])
      /\ PayoutBacked(id, reports[id])
      /\ reports[id].createdSequence <= sequence
  BY <1>1, StoredRecord
<1>0. /\ retest \in RetestCommitments /\ retest # Zero
      /\ retest[3] = reports[id].patchCommitment
      /\ retest[5] = passed
      /\ reports[id].patchCommitment \in PatchCommitments
      /\ status \in ReportStatus
      /\ passed => status = "RETEST_PASSED"
      /\ ~passed => status = "RETEST_FAILED"
  <2>1. evidence[2] \in PatchCommitments /\ evidence[3] \in EvidenceDigests
    OBVIOUS
  <2>2. evidence[2][2] = id
    BY <1>1, <1>2, <2>1, HashesAreNotZero DEF RecordFitsStatus
  <2>3. retest \in RetestCommitments
    BY <2>1, <2>2 DEF RetestCommitments
  <2>4. QED
    BY <1>1, <2>1, <2>3, HashesAreNotZero DEF deriveRetestCommitment, ReportStatus
<1> HIDE DEF retest, status
<1>3. record \in ReportRecord
  BY <1>0, <1>2, RetestUpdate
<1>4. SameSubmission(id, record)
  BY <1>2 DEF ReportRecord, SameSubmission
<1>5. /\ record.status = status
      /\ record.retestCommitment = retest
      /\ record.retestPassed = passed
      /\ record.severity = reports[id].severity
      /\ record.decisionDigest = reports[id].decisionDigest
      /\ record.patchCommitment = reports[id].patchCommitment
      /\ record.payoutReceipt = reports[id].payoutReceipt
      /\ record.rewardTier = reports[id].rewardTier
      /\ record.updatedSequence = sequence
  BY <1>2 DEF ReportRecord
<1> HIDE DEF record
<1>6. RecordFitsStatus(id, record) /\ ~IsPaid(record)
  BY <1>1, <1>2, <1>4, <1>5, <1>0
     DEF SameSubmission, RecordFitsStatus, IsPaid, Triaged, Remediating, Patched, Retested, Tiers
<1>7. PayoutBacked(id, record)
  BY <1>6 DEF PayoutBacked
<1>8. ReceiptEffect(id, record) /\ KeepsSubmission(id, record)
  BY <1>1, <1>4, <1>5 DEF ReceiptEffect, KeepsSubmission, SameSubmission
<1>9. QED
  BY <1>2, <1>3, <1>1, <1>4, <1>5, <1>6, <1>7, <1>8 DEF CallEffect, ACall, SameSubmission

\* authorizePayout binds the receipt to a passing retest of the anchored patch.
LEMMA PayoutEffect ==
  ASSUME IInv, NEW secret \in Secrets, NEW id \in ReportIds, NEW tier \in Uint8Inputs,
         authorizePayout(secret, id, tier)
  PROVE  ACall
<1> DEFINE receipt == derivePayoutReceipt(id, reports[id].patchCommitment,
                                              reports[id].retestCommitment, tier)
           record == [reports[id] EXCEPT !.status = "PAYOUT_AUTHORIZED",
                       !.payoutReceipt = receipt, !.rewardTier = tier,
                       !.updatedSequence = sequence]
<1>1. /\ id \in DOMAIN reports
      /\ reports[id].status = "RETEST_PASSED"
      /\ reports[id].retestPassed
      /\ tier \in 1..4
      /\ tier \in 0..4
      /\ payoutReceipts' = payoutReceipts \cup {receipt}
      /\ insert(id, record)
  BY DEF authorizePayout, loadReport, Tiers
<1>2. /\ reports[id] \in ReportRecord
      /\ sequence \in 1..MaxSequence
      /\ RecordFitsStatus(id, reports[id])
      /\ PayoutBacked(id, reports[id])
      /\ reports[id].createdSequence <= sequence
  BY <1>1, StoredRecord
<1> DEFINE patch == reports[id].patchCommitment
           retest == reports[id].retestCommitment
<1>a. /\ patch \in PatchCommitments /\ patch[2] = id
      /\ retest \in RetestCommitments /\ retest[3] = patch /\ retest[5] = TRUE
  BY <1>1, <1>2, HashesAreNotZero DEF RecordFitsStatus, Patched, Retested, ReportRecord
<1>b. PICK d \in PatchDigests, e \in EvidenceDigests :
         /\ patch = derivePatchCommitment(id, d)
         /\ retest = deriveRetestCommitment(id, patch, e, TRUE)
  <2>1. PICK d \in PatchDigests, i \in ReportIds : patch = derivePatchCommitment(i, d)
    BY <1>a DEF PatchCommitments
  <2>2. i = id
    BY <1>a, <2>1 DEF derivePatchCommitment
  <2>3. PICK p \in PatchCommitments, e \in EvidenceDigests, passed \in BOOLEAN :
            retest = deriveRetestCommitment(p[2], p, e, passed)
    BY <1>a DEF RetestCommitments
  <2>4. p = patch /\ passed = TRUE
    BY <1>a, <2>3 DEF deriveRetestCommitment
  <2>5. QED
    BY <1>a, <2>1, <2>2, <2>3, <2>4
<1>0. receipt \in PayoutReceipts /\ receipt # Zero
  <2>1. retest[2] = id
    BY <1>b DEF deriveRetestCommitment
  <2>2. receipt \in PayoutReceipts
    BY <1>1, <1>a, <2>1 DEF PayoutReceipts, Tiers
  <2>3. QED
    BY <2>2, HashesAreNotZero
<1>3. record \in ReportRecord
  BY <1>0, <1>1, <1>2, PayoutUpdate, "PAYOUT_AUTHORIZED" \in ReportStatus DEF ReportStatus
<1>4. SameSubmission(id, record)
  BY <1>2 DEF ReportRecord, SameSubmission
<1>5. /\ record.status = "PAYOUT_AUTHORIZED"
      /\ record.payoutReceipt = receipt
      /\ record.rewardTier = tier
      /\ record.severity = reports[id].severity
      /\ record.decisionDigest = reports[id].decisionDigest
      /\ record.patchCommitment = reports[id].patchCommitment
      /\ record.retestCommitment = reports[id].retestCommitment
      /\ record.retestPassed = reports[id].retestPassed
      /\ record.updatedSequence = sequence
  BY <1>2 DEF ReportRecord
<1> HIDE DEF record, receipt
<1>6. RecordFitsStatus(id, record)
  BY <1>1, <1>2, <1>4, <1>5, <1>0
     DEF SameSubmission, RecordFitsStatus, IsPaid, Triaged, Remediating, Patched, Retested, Tiers
<1>7. PayoutBacked(id, record)
  <2>1. record.severity \in Tiers /\ record.rewardTier \in Tiers
    BY <1>1, <1>2, <1>5 DEF RecordFitsStatus, Remediating, Tiers
  <2>2. record.payoutReceipt =
           derivePayoutReceipt(id, record.patchCommitment, record.retestCommitment, record.rewardTier)
    BY <1>5 DEF receipt
  <2>3. QED
    BY <1>5, <1>b, <2>1, <2>2 DEF PayoutBacked
<1>8. ReceiptEffect(id, record) /\ KeepsSubmission(id, record)
  BY <1>1, <1>4, <1>5, <1>2, <1>0, HashesAreNotZero DEF ReceiptEffect, KeepsSubmission, SameSubmission, IsPaid, RecordFitsStatus
<1>9. QED
  BY <1>2, <1>3, <1>1, <1>4, <1>5, <1>6, <1>7, <1>8 DEF CallEffect, ACall, SameSubmission

\* closeReport only moves the status, and keeps what a payout was authorized for.
LEMMA CloseEffect ==
  ASSUME IInv, NEW secret \in Secrets, NEW id \in ReportIds,
         closeReport(secret, id)
  PROVE  ACall
<1> DEFINE record == [reports[id] EXCEPT !.status = "CLOSED", !.updatedSequence = sequence]
<1>1. /\ id \in DOMAIN reports
      /\ reports[id].status \in {"REJECTED", "PAYOUT_AUTHORIZED"}
      /\ insert(id, record)
      /\ payoutReceipts' = payoutReceipts
  BY DEF closeReport, loadReport
<1>2. /\ reports[id] \in ReportRecord
      /\ sequence \in 1..MaxSequence
      /\ RecordFitsStatus(id, reports[id])
      /\ PayoutBacked(id, reports[id])
      /\ reports[id].createdSequence <= sequence
  BY <1>1, StoredRecord
<1>3. record \in ReportRecord
  BY <1>2, StatusUpdate, "CLOSED" \in ReportStatus DEF ReportStatus
<1>4. SameSubmission(id, record)
  BY <1>2 DEF ReportRecord, SameSubmission
<1>5. /\ record.status = "CLOSED"
      /\ record.severity = reports[id].severity
      /\ record.decisionDigest = reports[id].decisionDigest
      /\ record.patchCommitment = reports[id].patchCommitment
      /\ record.retestCommitment = reports[id].retestCommitment
      /\ record.retestPassed = reports[id].retestPassed
      /\ record.payoutReceipt = reports[id].payoutReceipt
      /\ record.rewardTier = reports[id].rewardTier
      /\ record.updatedSequence = sequence
  BY <1>2 DEF ReportRecord
<1> HIDE DEF record
<1>6. RecordFitsStatus(id, record)
  BY <1>1, <1>2, <1>4, <1>5
     DEF SameSubmission, RecordFitsStatus, IsPaid, Triaged, Remediating, Patched, Retested, Tiers
<1>7. PayoutBacked(id, record)
  BY <1>2, <1>5 DEF PayoutBacked, IsPaid
<1>8. ReceiptEffect(id, record) /\ KeepsSubmission(id, record)
  BY <1>1, <1>4, <1>5 DEF ReceiptEffect, KeepsSubmission, SameSubmission
<1>9. QED
  BY <1>2, <1>3, <1>1, <1>4, <1>5, <1>6, <1>7, <1>8 DEF CallEffect, ACall, SameSubmission

\* Every step of the contract is a CallEffect.
LEMMA NextIsACall ==
  ASSUME IInv, Next
  PROVE  ACall
  BY SubmitEffect, TriageEffect, AcceptEffect, RejectEffect, AnchorEffect, RetestEffect,
     PayoutEffect, CloseEffect DEF Next

-----------------------------------------------------------------------------
(* The inductive invariant.                                                *)

\* The constructed contract, with no report, satisfies the invariant.
LEMMA InitInvariant == Init => IInv
<1> SUFFICES ASSUME Init
             PROVE  IInv
  OBVIOUS
<1>1. DOMAIN reports = {} /\ payoutReceipts = {} /\ sequence \in 1..MaxSequence
  BY ContractConstants DEF Init
<1>2. {reports[id].payoutReceipt : id \in {i \in DOMAIN reports : IsPaid(reports[i])}} = {}
  BY <1>1
<1>3. QED
  BY <1>1, <1>2 DEF IInv, TypeOK, RecordsFitStatus, PayoutFollowsVerifiedPatch,
                    ReceiptsMatchReports, SequenceOrdersCalls

\* What inserting a record does to the Map, seen from every report.
LEMMA InsertedReports ==
  ASSUME NEW id, NEW record, insert(id, record)
  PROVE  /\ DOMAIN reports' = DOMAIN reports \cup {id}
         /\ reports'[id] = record
         /\ \A i \in DOMAIN reports \ {id} : reports'[i] = reports[i]
         /\ sequence < MaxSequence
         /\ sequence' = sequence + 1
  BY DEF insert

\* A call whose effect is known keeps the ledger well typed.
LEMMA CallKeepsType ==
  ASSUME IInv, NEW id, NEW record, CallEffect(id, record)
  PROVE  TypeOK'
<1>1. /\ id \in ReportIds
      /\ record \in ReportRecord
      /\ insert(id, record)
  BY DEF CallEffect
<1>i. /\ DOMAIN reports' = DOMAIN reports \cup {id}
      /\ reports'[id] = record
      /\ \A i \in DOMAIN reports \ {id} : reports'[i] = reports[i]
      /\ sequence < MaxSequence
      /\ sequence' = sequence + 1
  BY <1>1, InsertedReports
<1>2. sequence' \in 1..MaxSequence
  BY <1>1, <1>i, ContractConstants DEF IInv, TypeOK
<1>3. /\ DOMAIN reports' \subseteq ReportIds
      /\ \A i \in DOMAIN reports' : reports'[i] \in ReportRecord
  BY <1>1, <1>i DEF IInv, TypeOK
<1>4. payoutReceipts' \subseteq PayoutReceipts
  <2>1. record.payoutReceipt \in PayoutReceipts \cup {Zero}
    BY <1>1 DEF ReportRecord
  <2>2. QED
    BY <2>1 DEF CallEffect, ReceiptEffect, IsPaid, IInv, TypeOK
<1>5. QED
  BY <1>2, <1>3, <1>4 DEF TypeOK

\* A call writes a record that fits its status and backs its payout, and leaves
\* the others as they were.
LEMMA CallKeepsRecords ==
  ASSUME IInv, NEW id, NEW record, CallEffect(id, record)
  PROVE  RecordsFitStatus' /\ PayoutFollowsVerifiedPatch'
<1>1. /\ insert(id, record)
      /\ RecordFitsStatus(id, record)
      /\ PayoutBacked(id, record)
  BY DEF CallEffect
<1>i. /\ DOMAIN reports' = DOMAIN reports \cup {id}
      /\ reports'[id] = record
      /\ \A i \in DOMAIN reports \ {id} : reports'[i] = reports[i]
      /\ sequence < MaxSequence
      /\ sequence' = sequence + 1
  BY <1>1, InsertedReports
<1>2. ASSUME NEW i \in DOMAIN reports'
      PROVE  RecordFitsStatus(i, reports'[i]) /\ PayoutBacked(i, reports'[i])
  <2>1. CASE i = id
    BY <1>1, <2>1, <1>i
  <2>2. CASE i # id
    BY <1>1, <2>2, <1>i DEF IInv, RecordsFitStatus, PayoutFollowsVerifiedPatch
  <2>3. QED
    BY <2>1, <2>2
<1>3. (\A i \in DOMAIN reports : RecordFitsStatus(i, reports[i]))'
  BY <1>2 DEF RecordFitsStatus, PayoutBacked, IsPaid, Triaged, Remediating, Patched, Retested
<1>4. (\A i \in DOMAIN reports : PayoutBacked(i, reports[i]))'
  BY <1>2 DEF PayoutBacked, IsPaid
<1>5. QED
  BY <1>3, <1>4 DEF RecordsFitStatus, PayoutFollowsVerifiedPatch

\* The number of a call is larger than every number already recorded.
LEMMA CallKeepsOrder ==
  ASSUME IInv, NEW id, NEW record, CallEffect(id, record)
  PROVE  SequenceOrdersCalls'
<1>1. /\ insert(id, record)
      /\ record.createdSequence <= sequence
      /\ record.updatedSequence = sequence
      /\ record \in ReportRecord
  BY DEF CallEffect
<1>i. /\ DOMAIN reports' = DOMAIN reports \cup {id}
      /\ reports'[id] = record
      /\ \A i \in DOMAIN reports \ {id} : reports'[i] = reports[i]
      /\ sequence < MaxSequence
      /\ sequence' = sequence + 1
  BY <1>1, InsertedReports
<1>2. sequence \in Nat /\ record.createdSequence \in Nat
  BY <1>1, ContractConstants DEF IInv, TypeOK, ReportRecord
<1>3. ASSUME NEW i \in DOMAIN reports
      PROVE  /\ reports[i].createdSequence \in Nat
             /\ reports[i].updatedSequence \in Nat
             /\ reports[i].createdSequence <= reports[i].updatedSequence
             /\ reports[i].updatedSequence < sequence
  <2>1. reports[i] \in ReportRecord
    BY DEF IInv, TypeOK
  <2>2. reports[i].createdSequence \in Nat /\ reports[i].updatedSequence \in Nat
    BY <2>1, ContractConstants DEF ReportRecord
  <2>3. QED
    BY <2>2 DEF IInv, SequenceOrdersCalls
<1>4. ASSUME NEW i \in DOMAIN reports'
      PROVE  /\ reports'[i].createdSequence <= reports'[i].updatedSequence
             /\ reports'[i].updatedSequence < sequence'
  <2>1. CASE i = id
    BY <1>1, <1>2, <2>1, <1>i
  <2>2. CASE i # id
    BY <1>1, <1>2, <1>3, <2>2, <1>i
  <2>3. QED
    BY <2>1, <2>2
<1>5. ASSUME NEW a \in DOMAIN reports', NEW b \in DOMAIN reports',
             reports'[a].updatedSequence = reports'[b].updatedSequence
      PROVE  a = b
  <2>1. CASE a # id /\ b # id
    BY <1>1, <1>5, <2>1, <1>i DEF IInv, SequenceOrdersCalls
  <2>2. CASE a = id /\ b # id
    BY <1>1, <1>2, <1>3, <1>5, <2>2, <1>i
  <2>3. CASE a # id /\ b = id
    BY <1>1, <1>2, <1>3, <1>5, <2>3, <1>i
  <2>4. QED
    BY <2>1, <2>2, <2>3
<1>6. QED
  BY <1>4, <1>5 DEF SequenceOrdersCalls

\* The receipts stay exactly those of the paid reports, one each.
LEMMA CallKeepsReceipts ==
  ASSUME IInv, NEW id, NEW record, CallEffect(id, record)
  PROVE  ReceiptsMatchReports'
<1> DEFINE Receipts(f) == {f[i].payoutReceipt : i \in {j \in DOMAIN f : IsPaid(f[j])}}
<1>1. /\ insert(id, record)
      /\ ReceiptEffect(id, record)
      /\ id \in ReportIds
  BY DEF CallEffect
<1>i. /\ DOMAIN reports' = DOMAIN reports \cup {id}
      /\ reports'[id] = record
      /\ \A i \in DOMAIN reports \ {id} : reports'[i] = reports[i]
      /\ sequence < MaxSequence
      /\ sequence' = sequence + 1
  BY <1>1, InsertedReports
<1>2. payoutReceipts = Receipts(reports)
  BY DEF IInv, ReceiptsMatchReports
<1>3. payoutReceipts' = Receipts(reports')
  <2>1. ASSUME NEW t \in payoutReceipts'
        PROVE  \E i \in DOMAIN reports' : IsPaid(reports'[i]) /\ t = reports'[i].payoutReceipt
    <3>1. CASE t \in payoutReceipts
      <4>1. PICK i \in DOMAIN reports : IsPaid(reports[i]) /\ t = reports[i].payoutReceipt
        BY <1>2, <3>1
      <4>2. CASE i # id
        BY <1>1, <4>1, <4>2, <1>i DEF IsPaid
      <4>3. CASE i = id
        BY <1>1, <4>1, <4>3, <1>i DEF IsPaid, ReceiptEffect
      <4>4. QED
        BY <4>2, <4>3
    <3>2. CASE t \notin payoutReceipts
      BY <1>1, <2>1, <3>2, <1>i DEF ReceiptEffect, IsPaid
    <3>3. QED
      BY <3>1, <3>2
  <2>2. ASSUME NEW i \in DOMAIN reports', IsPaid(reports'[i])
        PROVE  reports'[i].payoutReceipt \in payoutReceipts'
    <3>1. CASE i # id
      BY <1>1, <1>2, <2>2, <3>1, <1>i DEF ReceiptEffect, IsPaid
    <3>2. CASE i = id
      BY <1>1, <1>2, <2>2, <3>2, <1>i DEF ReceiptEffect, IsPaid
    <3>3. QED
      BY <3>1, <3>2
  <2>3. QED
    BY <2>1, <2>2 DEF IsPaid
<1>4. ASSUME NEW a \in DOMAIN reports', NEW b \in DOMAIN reports', IsPaid(reports'[a]),
             reports'[a].payoutReceipt = reports'[b].payoutReceipt
      PROVE  a = b
  <2>1. PayoutBacked(a, reports'[a]) /\ PayoutBacked(b, reports'[b])
    BY CallKeepsRecords DEF PayoutFollowsVerifiedPatch, PayoutBacked, IsPaid
  <2>2. IsPaid(reports'[b])
    BY <1>4 DEF IsPaid
  <2>3. /\ reports'[a].payoutReceipt[2] = a
        /\ reports'[b].payoutReceipt[2] = b
    BY <1>4, <2>1, <2>2 DEF PayoutBacked, derivePayoutReceipt
  <2>4. QED
    BY <1>4, <2>3
<1>5. QED
  BY <1>3, <1>4 DEF ReceiptsMatchReports, IsPaid

\* The invariant is inductive.
LEMMA StepInvariant == IInv /\ [Next]_vars => IInv'
<1> SUFFICES ASSUME IInv, [Next]_vars
             PROVE  IInv'
  OBVIOUS
<1>1. CASE Next
  <2>1. PICK id \in ReportIds, record \in ReportRecord : CallEffect(id, record)
    BY <1>1, NextIsACall DEF ACall
  <2>2. QED
    BY <2>1, CallKeepsType, CallKeepsRecords, CallKeepsOrder, CallKeepsReceipts DEF IInv
<1>2. CASE UNCHANGED vars
  <2>1. reports' = reports /\ sequence' = sequence /\ payoutReceipts' = payoutReceipts
    BY <1>2 DEF vars
  <2>2. TypeOK'
    BY <2>1 DEF IInv, TypeOK
  <2>3. RecordsFitStatus' /\ PayoutFollowsVerifiedPatch'
    BY <2>1 DEF IInv, RecordsFitStatus, PayoutFollowsVerifiedPatch
  <2>4. ReceiptsMatchReports' /\ SequenceOrdersCalls'
    BY <2>1 DEF IInv, ReceiptsMatchReports, SequenceOrdersCalls, IsPaid
  <2>5. QED
    BY <2>2, <2>3, <2>4 DEF IInv
<1>3. QED
  BY <1>1, <1>2

\* Every reachable ledger satisfies the inductive invariant.
THEOREM Invariance == Spec => []IInv
  BY InitInvariant, StepInvariant, PTL DEF Spec

\* Every reachable ledger is well typed and its counter never overflows.
THEOREM TypeCorrectness == Spec => []TypeOK
<1>1. IInv => TypeOK
  BY DEF IInv
<1>2. QED
  BY <1>1, Invariance, PTL

\* A status says which workflow steps have happened to a report.
THEOREM StatusCorrectness == Spec => []RecordsFitStatus
<1>1. IInv => RecordsFitStatus
  BY DEF IInv
<1>2. QED
  BY <1>1, Invariance, PTL

\* No payout is authorized but for a passing retest of the anchored patch.
THEOREM PayoutSafety == Spec => []PayoutFollowsVerifiedPatch
<1>1. IInv => PayoutFollowsVerifiedPatch
  BY DEF IInv
<1>2. QED
  BY <1>1, Invariance, PTL

\* A receipt belongs to one report, and a report is paid at most once.
THEOREM ReceiptCorrectness == Spec => []ReceiptsMatchReports
<1>1. IInv => ReceiptsMatchReports
  BY DEF IInv
<1>2. QED
  BY <1>1, Invariance, PTL

\* Call numbers are a total order of the calls that last touched each report.
THEOREM OrderCorrectness == Spec => []SequenceOrdersCalls
<1>1. IInv => SequenceOrdersCalls
  BY DEF IInv
<1>2. QED
  BY <1>1, Invariance, PTL

\* No call disturbs another report, a submission or a closed report.
THEOREM SubmissionIntegrity == Spec => SubmissionsAreImmutable
<1>1. ASSUME IInv, Next
      PROVE  CallChangesOneReport
  <2>1. PICK id \in ReportIds, record \in ReportRecord : CallEffect(id, record)
    BY <1>1, NextIsACall DEF ACall
  <2>2. insert(id, record) /\ KeepsSubmission(id, record)
    BY <2>1 DEF CallEffect
  <2>3. \A i \in DOMAIN reports' \ {id} : i \in DOMAIN reports /\ reports'[i] = reports[i]
    BY <2>2, InsertedReports
  <2>4. ASSUME NEW i \in DOMAIN reports
        PROVE  /\ i \in DOMAIN reports'
               /\ reports[i].status = "CLOSED" => reports'[i] = reports[i]
               /\ reports'[i].ciphertextDigest = reports[i].ciphertextDigest
               /\ reports'[i].researcherKey = reports[i].researcherKey
               /\ reports'[i].submissionReceipt = reports[i].submissionReceipt
               /\ reports'[i].createdSequence = reports[i].createdSequence
    <3>1. CASE i = id
      BY <2>2, <3>1, InsertedReports DEF KeepsSubmission
    <3>2. CASE i # id
      BY <2>2, <3>2, InsertedReports
    <3>3. QED
      BY <3>1, <3>2
  <2>5. QED
    BY <2>3, <2>4 DEF CallChangesOneReport
<1>2. IInv /\ [Next]_vars => [CallChangesOneReport]_vars
  BY <1>1
<1>3. QED
  BY <1>2, Invariance, PTL DEF Spec, SubmissionsAreImmutable
-----------------------------------------------------------------------------
(* The contract implements ReportLifecycle.                                *)
(*                                                                         *)
(* Every circuit inserts one record, so the mapped state changes at one     *)
(* report: MappedInsert says how, and SameAwards, NewAward when the awards  *)
(* grow.  With these each circuit is one lemma that names its step of the   *)
(* lifecycle, or a stutter (beginTriage).  What the steps need to know of   *)
(* the record before the call is the invariant IInv.                        *)

\* The patch that a record is about.
AnchorOf(r) ==
    IF r.retestCommitment # Zero /\ ~r.retestPassed THEN NoPatch
    ELSE IF r.patchCommitment # Zero THEN r.patchCommitment ELSE NoPatch

LifecycleStep == [Lifecycle!Next]_(Lifecycle!vars)

-----------------------------------------------------------------------------
(* The maps, when one record is inserted.                                  *)

\* Stage and patch of every other report stay what they were.
LEMMA MappedInsert ==
  ASSUME NEW id \in ReportIds, NEW record, insert(id, record)
  PROVE  /\ stageMap' = [stageMap EXCEPT ![id] = StageOf(record.status)]
         /\ anchoredMap' = [anchoredMap EXCEPT ![id] = AnchorOf(record)]
<1>1. /\ DOMAIN reports' = DOMAIN reports \cup {id}
      /\ reports'[id] = record
      /\ \A i \in DOMAIN reports \ {id} : reports'[i] = reports[i]
  BY InsertedReports
<1>2. stageMap' = [stageMap EXCEPT ![id] = StageOf(record.status)]
  <2>1. stageMap' = [i \in ReportIds |-> IF i \in DOMAIN reports' THEN StageOf(reports'[i].status)
                                                                  ELSE "absent"]
    BY DEF stageMap, StageOf
  <2>2. QED
    BY <1>1, <2>1 DEF stageMap
<1>3. anchoredMap' = [anchoredMap EXCEPT ![id] = AnchorOf(record)]
  <2>1. anchoredMap' = [i \in ReportIds |-> IF i \in DOMAIN reports' THEN AnchorOf(reports'[i])
                                                                     ELSE NoPatch]
    BY DEF anchoredMap, AnchorOf
  <2>2. anchoredMap = [i \in ReportIds |-> IF i \in DOMAIN reports THEN AnchorOf(reports[i])
                                                                    ELSE NoPatch]
    BY DEF anchoredMap, AnchorOf
  <2>3. QED
    BY <1>1, <2>1, <2>2
<1>4. QED
  BY <1>2, <1>3

\* Stage and patch of a report that the ledger holds.
LEMMA MappedReport ==
  ASSUME NEW id \in ReportIds
  PROVE  /\ id \in DOMAIN reports =>
               stageMap[id] = StageOf(reports[id].status) /\ anchoredMap[id] = AnchorOf(reports[id])
         /\ id \notin DOMAIN reports => stageMap[id] = "absent" /\ anchoredMap[id] = NoPatch
  BY DEF stageMap, anchoredMap, AnchorOf

\* A call that pays nothing and leaves a paid report's patch alone.
LEMMA SameAwards ==
  ASSUME NEW id \in ReportIds, NEW record, insert(id, record),
         IsPaid(record) => id \in DOMAIN reports /\ IsPaid(reports[id]),
         id \in DOMAIN reports /\ IsPaid(reports[id]) =>
             /\ IsPaid(record)
             /\ record.commitment = reports[id].commitment
             /\ record.patchCommitment = reports[id].patchCommitment
  PROVE  awardMap' = awardMap
<1>1. /\ DOMAIN reports' = DOMAIN reports \cup {id}
      /\ reports'[id] = record
      /\ \A i \in DOMAIN reports \ {id} : reports'[i] = reports[i]
  BY InsertedReports
<1>2. \A i : (i \in DOMAIN reports /\ IsPaid(reports[i])) <=> (i \in DOMAIN reports' /\ IsPaid(reports'[i]))
  BY <1>1 DEF IsPaid
<1>3. \A i : i \in DOMAIN reports /\ IsPaid(reports[i]) =>
          <<reports[i].commitment, reports[i].patchCommitment>>
          = <<reports'[i].commitment, reports'[i].patchCommitment>>
  BY <1>1
<1>4. QED
  BY <1>2, <1>3 DEF awardMap, IsPaid

\* A call that pays an unpaid report awards its patch.
LEMMA NewAward ==
  ASSUME NEW id \in DOMAIN reports, NEW record, insert(id, record),
         ~IsPaid(reports[id]), IsPaid(record)
  PROVE  awardMap' = awardMap \cup {<<record.commitment, record.patchCommitment>>}
<1>1. /\ DOMAIN reports' = DOMAIN reports
      /\ reports'[id] = record
      /\ \A i \in DOMAIN reports \ {id} : reports'[i] = reports[i]
  BY InsertedReports
<1>2. \A i : (i \in DOMAIN reports' /\ IsPaid(reports'[i]))
             <=> (i \in DOMAIN reports /\ IsPaid(reports[i])) \/ i = id
  BY <1>1 DEF IsPaid
<1>3. \A i \in DOMAIN reports : IsPaid(reports[i]) => i # id
  OBVIOUS
<1>4. awardMap' = {<<reports'[i].commitment, reports'[i].patchCommitment>> :
                      i \in {j \in DOMAIN reports' : IsPaid(reports'[j])}}
  BY DEF awardMap, IsPaid
<1>5. QED
  BY <1>1, <1>2, <1>3, <1>4 DEF awardMap

-----------------------------------------------------------------------------
(* One circuit, one lemma.                                                 *)

\* A call on a held report that changes neither its patch nor its payout.
LEMMA PlainCall ==
  ASSUME IInv, NEW id \in DOMAIN reports, NEW record, insert(id, record),
         AnchorOf(record) = AnchorOf(reports[id]),
         IsPaid(record) <=> IsPaid(reports[id]),
         record.commitment = reports[id].commitment,
         record.patchCommitment = reports[id].patchCommitment
  PROVE  Lifecycle!Move(id, StageOf(reports[id].status), StageOf(record.status))
<1>1. id \in ReportIds
  BY StoredRecord
<1>2. awardMap' = awardMap
  BY <1>1, SameAwards
<1>3. anchoredMap' = anchoredMap
  <2>1. anchoredMap' = [anchoredMap EXCEPT ![id] = anchoredMap[id]]
    BY <1>1, MappedInsert, MappedReport
  <2>2. QED
    BY <2>1 DEF anchoredMap
<1>4. QED
  BY <1>1, <1>2, <1>3, MappedInsert, MappedReport DEF Lifecycle!Move

\* submitReport opens a report that was absent.
LEMMA SubmitRefines ==
  ASSUME IInv, NEW secret \in Secrets, NEW preimage \in Preimages, NEW encrypted \in CiphertextDigests,
         submitReport(secret, preimage, encrypted)
  PROVE  LifecycleStep
<1> DEFINE id == deriveReportCommitment(preimage[1], preimage[2], preimage[3])
<1>1. /\ id \in ReportIds
      /\ id \notin DOMAIN reports
  BY DEF submitReport, Preimages, ReportIds
<1>2. PICK record : /\ insert(id, record)
                    /\ record.status = "COMMITTED"
                    /\ record.patchCommitment = Zero
                    /\ record.retestCommitment = Zero
                    /\ record.payoutReceipt = Zero
  BY DEF submitReport
<1>3. StageOf(record.status) = "open" /\ AnchorOf(record) = NoPatch /\ ~IsPaid(record)
  BY <1>2 DEF StageOf, AnchorOf, Triaged, IsPaid
<1> HIDE DEF id
<1>4. awardMap' = awardMap
  BY <1>1, <1>2, <1>3, SameAwards
<1>5. anchoredMap' = anchoredMap
  <2>1. anchoredMap' = [anchoredMap EXCEPT ![id] = anchoredMap[id]]
    BY <1>1, <1>2, <1>3, MappedInsert, MappedReport
  <2>2. QED
    BY <2>1 DEF anchoredMap
<1>6. Lifecycle!Move(id, "absent", "open")
  BY <1>1, <1>2, <1>3, <1>4, <1>5, MappedInsert, MappedReport DEF Lifecycle!Move
<1>7. QED
  BY <1>1, <1>6 DEF LifecycleStep, Lifecycle!Next

\* beginTriage is no step of the lifecycle.
LEMMA TriageRefines ==
  ASSUME IInv, NEW secret, NEW id, beginTriage(secret, id)
  PROVE  LifecycleStep
<1> DEFINE record == [reports[id] EXCEPT !.status = "TRIAGED", !.updatedSequence = sequence]
<1>1. /\ id \in DOMAIN reports
      /\ reports[id].status = "COMMITTED"
      /\ insert(id, record)
  BY DEF beginTriage, loadReport
<1>2. id \in ReportIds /\ reports[id] \in ReportRecord
  BY <1>1, StoredRecord
<1>3. /\ record.status = "TRIAGED"
      /\ record.commitment = reports[id].commitment
      /\ record.patchCommitment = reports[id].patchCommitment
      /\ record.retestCommitment = reports[id].retestCommitment
      /\ record.retestPassed = reports[id].retestPassed
      /\ record.payoutReceipt = reports[id].payoutReceipt
  BY <1>2 DEF ReportRecord
<1> HIDE DEF record
<1>4. StageOf(record.status) = "open" /\ StageOf(reports[id].status) = "open"
  BY <1>1, <1>3 DEF StageOf, Triaged
<1>5. Lifecycle!Move(id, "open", "open")
  BY <1>1, <1>3, <1>4, PlainCall DEF AnchorOf, IsPaid
<1>6. stageMap' = stageMap
  BY <1>2, <1>5 DEF Lifecycle!Move, stageMap
<1>7. QED
  BY <1>5, <1>6 DEF LifecycleStep, Lifecycle!Move, Lifecycle!vars

\* acceptReport and rejectReport leave "open".
LEMMA DecisionRefines ==
  ASSUME IInv, NEW id \in DOMAIN reports, NEW record, insert(id, record),
         reports[id].status = "TRIAGED",
         record.status \in {"ACCEPTED", "REJECTED"},
         record.retestPassed \in BOOLEAN,
         record.commitment = reports[id].commitment,
         record.patchCommitment = reports[id].patchCommitment,
         record.retestCommitment = reports[id].retestCommitment,
         record.payoutReceipt = reports[id].payoutReceipt
  PROVE  LifecycleStep
<1>1. id \in ReportIds /\ reports[id].retestCommitment = Zero /\ reports[id].patchCommitment = Zero
  BY StoredRecord DEF RecordFitsStatus, Triaged, Retested
<1>2. AnchorOf(record) = AnchorOf(reports[id]) /\ (IsPaid(record) <=> IsPaid(reports[id]))
  BY <1>1 DEF AnchorOf, IsPaid
<1>3. Lifecycle!Move(id, StageOf(reports[id].status), StageOf(record.status))
  BY <1>2, PlainCall
<1>4. StageOf("TRIAGED") = "open" /\ StageOf("ACCEPTED") = "accepted" /\ StageOf("REJECTED") = "refused"
  BY DEF StageOf, Triaged
<1>5. CASE record.status = "ACCEPTED"
  <2>1. Lifecycle!Move(id, "open", "accepted")
    BY <1>3, <1>4, <1>5
  <2>2. QED
    BY <1>1, <2>1 DEF LifecycleStep, Lifecycle!Next
<1>6. CASE record.status = "REJECTED"
  <2>1. Lifecycle!Move(id, "open", "refused")
    BY <1>3, <1>4, <1>6
  <2>2. QED
    BY <1>1, <2>1 DEF LifecycleStep, Lifecycle!Next
<1>7. QED
  BY <1>5, <1>6

\* acceptReport of an open report moves it on, with its patch and award untouched.
LEMMA AcceptRefines ==
  ASSUME IInv, NEW secret, NEW id, NEW severity, NEW decision,
         acceptReport(secret, id, severity, decision)
  PROVE  LifecycleStep
<1> DEFINE record == [reports[id] EXCEPT !.status = "ACCEPTED", !.severity = severity,
                          !.decisionDigest = decision, !.updatedSequence = sequence]
<1>1. /\ id \in DOMAIN reports
      /\ reports[id].status = "TRIAGED"
      /\ insert(id, record)
  BY DEF acceptReport, loadReport
<1>2. reports[id] \in ReportRecord
  BY <1>1, StoredRecord
<1>3. /\ record.status = "ACCEPTED"
      /\ record.retestPassed \in BOOLEAN
      /\ record.commitment = reports[id].commitment
      /\ record.patchCommitment = reports[id].patchCommitment
      /\ record.retestCommitment = reports[id].retestCommitment
      /\ record.payoutReceipt = reports[id].payoutReceipt
  BY <1>2 DEF ReportRecord
<1> HIDE DEF record
<1>4. QED
  BY <1>1, <1>3, DecisionRefines

\* rejectReport refuses an open report, with its patch and award untouched.
LEMMA RejectRefines ==
  ASSUME IInv, NEW secret, NEW id, NEW decision, rejectReport(secret, id, decision)
  PROVE  LifecycleStep
<1> DEFINE record == [reports[id] EXCEPT !.status = "REJECTED", !.severity = 0,
                          !.decisionDigest = decision, !.retestPassed = FALSE,
                          !.rewardTier = 0, !.updatedSequence = sequence]
<1>1. /\ id \in DOMAIN reports
      /\ reports[id].status = "TRIAGED"
      /\ insert(id, record)
  BY DEF rejectReport, loadReport
<1>2. reports[id] \in ReportRecord
  BY <1>1, StoredRecord
<1>3. /\ record.status = "REJECTED"
      /\ record.retestPassed \in BOOLEAN
      /\ record.commitment = reports[id].commitment
      /\ record.patchCommitment = reports[id].patchCommitment
      /\ record.retestCommitment = reports[id].retestCommitment
      /\ record.payoutReceipt = reports[id].payoutReceipt
  BY <1>2 DEF ReportRecord
<1> HIDE DEF record
<1>4. QED
  BY <1>1, <1>3, DecisionRefines

\* anchorPatch: the failed patch, if there was one, is forgotten already.
LEMMA AnchorRefines ==
  ASSUME IInv, NEW secret, NEW id, NEW evidence \in ReportIds \X PatchDigests,
         anchorPatch(secret, id, evidence)
  PROVE  LifecycleStep
<1> DEFINE patch == derivePatchCommitment(evidence[1], evidence[2])
           record == [reports[id] EXCEPT !.status = "PATCH_READY", !.patchCommitment = patch,
                          !.retestCommitment = Zero, !.retestPassed = FALSE,
                          !.updatedSequence = sequence]
<1>1. /\ id \in DOMAIN reports
      /\ reports[id].status \in {"ACCEPTED", "RETEST_FAILED"}
      /\ insert(id, record)
  BY DEF anchorPatch, loadReport
<1>2. patch \in PatchCommitments /\ patch # Zero
  BY HashesAreNotZero DEF PatchCommitments
<1>3. id \in ReportIds /\ reports[id] \in ReportRecord /\ ~IsPaid(reports[id])
  BY <1>1, StoredRecord DEF RecordFitsStatus
<1> HIDE DEF patch
<1>4. /\ record.status = "PATCH_READY"
      /\ record.patchCommitment = patch
      /\ record.retestCommitment = Zero
      /\ record.payoutReceipt = reports[id].payoutReceipt
  BY <1>3 DEF ReportRecord
<1> HIDE DEF record
<1>5. StageOf(reports[id].status) = "accepted" /\ StageOf(record.status) = "patched"
  BY <1>1, <1>4 DEF StageOf, Triaged
<1>6. AnchorOf(record) = patch /\ ~IsPaid(record)
  BY <1>2, <1>3, <1>4 DEF AnchorOf, IsPaid
<1>7. awardMap' = awardMap
  BY <1>1, <1>3, <1>6, SameAwards
<1>8. Lifecycle!Anchor(id, patch)
  BY <1>1, <1>3, <1>5, <1>6, <1>7, MappedInsert, MappedReport DEF Lifecycle!Anchor
<1>9. QED
  BY <1>2, <1>3, <1>8 DEF LifecycleStep, Lifecycle!Next

\* submitRetest: the retest is about the anchored patch; a failure forgets it.
LEMMA RetestRefines ==
  ASSUME IInv, NEW secret, NEW preimage, NEW id, NEW passed \in BOOLEAN,
         NEW evidence \in ReportIds \X PatchCommitments \X EvidenceDigests,
         submitRetest(secret, preimage, id, passed, evidence)
  PROVE  LifecycleStep
<1> DEFINE retest == deriveRetestCommitment(id, evidence[2], evidence[3], passed)
           record == [reports[id] EXCEPT
                          !.status = IF passed THEN "RETEST_PASSED" ELSE "RETEST_FAILED",
                          !.retestCommitment = retest,
                          !.retestPassed = passed, !.updatedSequence = sequence]
<1>1. /\ id \in DOMAIN reports
      /\ reports[id].status = "PATCH_READY"
      /\ insert(id, record)
  BY DEF submitRetest, loadReport
<1>2. retest # Zero
  BY DEF deriveRetestCommitment, Zero
<1>3. /\ id \in ReportIds /\ reports[id] \in ReportRecord
      /\ ~IsPaid(reports[id])
      /\ reports[id].retestCommitment = Zero
      /\ reports[id].patchCommitment # Zero
  BY <1>1, StoredRecord, HashesAreNotZero DEF RecordFitsStatus, Patched, Retested
<1> HIDE DEF retest
<1>4. /\ record.status = IF passed THEN "RETEST_PASSED" ELSE "RETEST_FAILED"
      /\ record.commitment = reports[id].commitment
      /\ record.patchCommitment = reports[id].patchCommitment
      /\ record.retestCommitment = retest
      /\ record.retestPassed = passed
      /\ record.payoutReceipt = reports[id].payoutReceipt
  BY <1>3 DEF ReportRecord
<1> HIDE DEF record
<1>5. /\ StageOf("PATCH_READY") = "patched"
      /\ StageOf("RETEST_PASSED") = "verified"
      /\ StageOf("RETEST_FAILED") = "accepted"
  BY DEF StageOf, Triaged
<1>6. IsPaid(record) <=> IsPaid(reports[id])
  BY <1>4 DEF IsPaid
<1>7. CASE passed
  <2>1. AnchorOf(record) = AnchorOf(reports[id])
    BY <1>2, <1>3, <1>4, <1>7 DEF AnchorOf
  <2>2. Lifecycle!Move(id, "patched", "verified")
    BY <1>1, <1>4, <1>5, <1>6, <1>7, <2>1, PlainCall
  <2>3. QED
    BY <1>3, <2>2 DEF LifecycleStep, Lifecycle!Next
<1>8. CASE ~passed
  <2>1. AnchorOf(record) = NoPatch
    BY <1>2, <1>4, <1>8 DEF AnchorOf
  <2>2. awardMap' = awardMap
    BY <1>1, <1>3, <1>6, SameAwards
  <2>3. Lifecycle!NoPatch = NoPatch
    BY DEF Lifecycle!NoPatch, NoPatch
  <2>4. Lifecycle!Fail(id)
    BY <1>1, <1>3, <1>4, <1>5, <1>8, <2>1, <2>2, <2>3, MappedInsert, MappedReport DEF Lifecycle!Fail
  <2>5. QED
    BY <1>3, <2>4 DEF LifecycleStep, Lifecycle!Next
<1>9. QED
  BY <1>7, <1>8

\* authorizePayout awards the patch whose retest passed.
LEMMA PayoutRefines ==
  ASSUME IInv, NEW secret, NEW id, NEW tier, authorizePayout(secret, id, tier)
  PROVE  LifecycleStep
<1> DEFINE receipt == derivePayoutReceipt(id, reports[id].patchCommitment,
                                          reports[id].retestCommitment, tier)
           record == [reports[id] EXCEPT !.status = "PAYOUT_AUTHORIZED",
                          !.payoutReceipt = receipt, !.rewardTier = tier,
                          !.updatedSequence = sequence]
<1>1. /\ id \in DOMAIN reports
      /\ reports[id].status = "RETEST_PASSED"
      /\ insert(id, record)
  BY DEF authorizePayout, loadReport
<1>2. receipt # Zero
  BY DEF derivePayoutReceipt, Zero
<1>3. /\ id \in ReportIds /\ reports[id] \in ReportRecord
      /\ reports[id].commitment = id
      /\ ~IsPaid(reports[id])
      /\ reports[id].retestPassed
      /\ reports[id].patchCommitment # Zero
  BY <1>1, StoredRecord, HashesAreNotZero DEF RecordFitsStatus, Patched
<1> HIDE DEF receipt
<1>4. /\ record.status = "PAYOUT_AUTHORIZED"
      /\ record.commitment = id
      /\ record.patchCommitment = reports[id].patchCommitment
      /\ record.retestCommitment = reports[id].retestCommitment
      /\ record.retestPassed
      /\ record.payoutReceipt = receipt
  BY <1>3 DEF ReportRecord
<1> HIDE DEF record
<1>5. StageOf(reports[id].status) = "verified" /\ StageOf(record.status) = "awarded"
  BY <1>1, <1>4 DEF StageOf, Triaged
<1>6. /\ AnchorOf(reports[id]) = reports[id].patchCommitment
      /\ AnchorOf(record) = reports[id].patchCommitment
  BY <1>3, <1>4 DEF AnchorOf
<1>7. awardMap' = awardMap \cup {<<id, reports[id].patchCommitment>>}
  BY <1>1, <1>2, <1>3, <1>4, NewAward DEF IsPaid
<1>8. anchoredMap' = anchoredMap
  <2>1. anchoredMap' = [anchoredMap EXCEPT ![id] = anchoredMap[id]]
    BY <1>1, <1>3, <1>6, MappedInsert, MappedReport
  <2>2. QED
    BY <2>1 DEF anchoredMap
<1>9. Lifecycle!Award(id)
  BY <1>1, <1>3, <1>5, <1>6, <1>7, <1>8, MappedInsert, MappedReport DEF Lifecycle!Award
<1>10. QED
  BY <1>3, <1>9 DEF LifecycleStep, Lifecycle!Next

\* closeReport ends a refused report or a paid one.
LEMMA CloseRefines ==
  ASSUME IInv, NEW secret, NEW id, closeReport(secret, id)
  PROVE  LifecycleStep
<1> DEFINE record == [reports[id] EXCEPT !.status = "CLOSED", !.updatedSequence = sequence]
<1>1. /\ id \in DOMAIN reports
      /\ reports[id].status \in {"REJECTED", "PAYOUT_AUTHORIZED"}
      /\ insert(id, record)
  BY DEF closeReport, loadReport
<1>2. id \in ReportIds /\ reports[id] \in ReportRecord
  BY <1>1, StoredRecord
<1>3. /\ record.status = "CLOSED"
      /\ record.commitment = reports[id].commitment
      /\ record.patchCommitment = reports[id].patchCommitment
      /\ record.retestCommitment = reports[id].retestCommitment
      /\ record.retestPassed = reports[id].retestPassed
      /\ record.payoutReceipt = reports[id].payoutReceipt
  BY <1>2 DEF ReportRecord
<1> HIDE DEF record
<1>4. Lifecycle!Move(id, StageOf(reports[id].status), StageOf(record.status))
  BY <1>1, <1>3, PlainCall DEF AnchorOf, IsPaid
<1>5. /\ StageOf("REJECTED") = "refused"
      /\ StageOf("PAYOUT_AUTHORIZED") = "awarded"
      /\ StageOf("CLOSED") = "closed"
  BY DEF StageOf, Triaged
<1>6. Lifecycle!Move(id, "refused", "closed") \/ Lifecycle!Move(id, "awarded", "closed")
  BY <1>1, <1>3, <1>4, <1>5
<1>7. QED
  BY <1>2, <1>6 DEF LifecycleStep, Lifecycle!Next

-----------------------------------------------------------------------------
\* The constructed contract is a lifecycle in which nothing has happened.
LEMMA InitRefines == Init => Lifecycle!Init
<1> SUFFICES ASSUME Init
             PROVE  Lifecycle!Init
  OBVIOUS
<1>1. DOMAIN reports = {}
  BY DEF Init
<1>2. awardMap = {}
  BY <1>1 DEF awardMap
<1>3. QED
  BY <1>1, <1>2 DEF Lifecycle!Init, Lifecycle!NoPatch, NoPatch, stageMap, anchoredMap

\* Every call is a step of the lifecycle, or none.
LEMMA StepRefines == IInv /\ [Next]_vars => LifecycleStep
<1> SUFFICES ASSUME IInv, [Next]_vars
             PROVE  LifecycleStep
  OBVIOUS
<1>1. CASE UNCHANGED vars
  BY <1>1 DEF vars, LifecycleStep, Lifecycle!vars, stageMap, anchoredMap, awardMap, StageOf, IsPaid
<1>2. CASE Next
  BY <1>2, SubmitRefines, TriageRefines, AcceptRefines, RejectRefines, AnchorRefines,
     RetestRefines, PayoutRefines, CloseRefines DEF Next
<1>3. QED
  BY <1>1, <1>2

\* The ledger follows the lifecycle that the program promises, whoever calls
\* what: a patch is verified only while it is the anchored one, and awarded
\* once, for every number of reports, callers, patches and calls.
THEOREM ContractImplementsLifecycle == Spec => ImplementsLifecycle
<1>1. Init => Lifecycle!Init
  BY InitRefines
<1>2. IInv /\ [Next]_vars => [Lifecycle!Next]_(Lifecycle!vars)
  BY StepRefines DEF LifecycleStep
<1>3. Spec => []IInv
  BY Invariance
<1>4. QED
  BY <1>1, <1>2, <1>3, PTL DEF Spec, ImplementsLifecycle, Lifecycle!Spec

-----------------------------------------------------------------------------
(* The promised lifecycle keeps its promises, over the mapped state: every  *)
(* award names the patch that was verified.  An award is made from          *)
(* `anchored`, so AwardsAreEarned needs to know that a verified report has  *)
(* a patch there, which is AnchoredByStage.                                 *)

LifecycleInv == Lifecycle!TypeOK /\ Lifecycle!AnchoredByStage /\ Lifecycle!AwardsAreEarned

\* Before any report there is nothing to break the promises.
LEMMA LifecycleInitially == Lifecycle!Init => LifecycleInv
  BY DEF Lifecycle!Init, LifecycleInv, Lifecycle!TypeOK, Lifecycle!AnchoredByStage,
         Lifecycle!AwardsAreEarned, Lifecycle!Stages

\* A step along the lifecycle that touches neither patch nor award keeps the
\* invariant, if it leaves no stage in which a patch or an award is recorded
\* for one in which it may not be.
LEMMA MoveKeeps ==
  ASSUME LifecycleInv, NEW r \in ReportIds, NEW from \in Lifecycle!Stages, NEW to \in Lifecycle!Stages,
         Lifecycle!Move(r, from, to),
         to \in {"patched", "verified", "awarded"} => from \in {"patched", "verified", "awarded"},
         to \in {"absent", "open", "accepted", "refused"}
            => from \in {"absent", "open", "accepted", "refused"},
         from \in {"awarded", "closed"} => to \in {"awarded", "closed"}
  PROVE  LifecycleInv'
<1> USE DEF Lifecycle!Move, LifecycleInv
<1>1. Lifecycle!TypeOK'
  BY DEF Lifecycle!TypeOK
<1>2. Lifecycle!AnchoredByStage'
  BY DEF Lifecycle!TypeOK, Lifecycle!AnchoredByStage
<1>3. Lifecycle!AwardsAreEarned'
  BY DEF Lifecycle!TypeOK, Lifecycle!AwardsAreEarned
<1>4. QED
  BY <1>1, <1>2, <1>3

\* An award of the anchored patch is earned.
LEMMA AwardKeeps ==
  ASSUME LifecycleInv, NEW r \in ReportIds, Lifecycle!Award(r)
  PROVE  LifecycleInv'
<1> USE DEF Lifecycle!Award, LifecycleInv
<1>1. anchoredMap[r] \in PatchCommitments
  BY DEF Lifecycle!AnchoredByStage
<1>2. Lifecycle!TypeOK'
  BY <1>1 DEF Lifecycle!TypeOK, Lifecycle!Stages
<1>3. Lifecycle!AnchoredByStage'
  BY <1>1 DEF Lifecycle!TypeOK, Lifecycle!AnchoredByStage
<1>4. Lifecycle!AwardsAreEarned'
  <2> SUFFICES ASSUME NEW a \in awardMap'
               PROVE  stageMap'[a[1]] \in {"awarded", "closed"} /\ a[2] = anchoredMap'[a[1]]
    BY DEF Lifecycle!AwardsAreEarned
  <2>1. CASE a \in awardMap
    BY <2>1 DEF Lifecycle!AwardsAreEarned, Lifecycle!TypeOK
  <2>2. CASE a = <<r, anchoredMap[r]>>
    BY <2>2 DEF Lifecycle!TypeOK
  <2>3. QED
    BY <2>1, <2>2
<1>5. QED
  BY <1>2, <1>3, <1>4

\* Every step of the lifecycle keeps the invariant.
LEMMA LifecycleMoves == LifecycleInv /\ LifecycleStep => LifecycleInv'
<1> SUFFICES ASSUME LifecycleInv, LifecycleStep
             PROVE  LifecycleInv'
  OBVIOUS
<1>1. ASSUME NEW r \in ReportIds,
             \/ Lifecycle!Move(r, "absent", "open") \/ Lifecycle!Move(r, "open", "accepted")
             \/ Lifecycle!Move(r, "open", "refused") \/ Lifecycle!Move(r, "patched", "verified")
             \/ Lifecycle!Move(r, "awarded", "closed") \/ Lifecycle!Move(r, "refused", "closed")
      PROVE  LifecycleInv'
  BY <1>1, MoveKeeps DEF Lifecycle!Stages
<1>2. ASSUME NEW r \in ReportIds, NEW p \in PatchCommitments, Lifecycle!Anchor(r, p) PROVE LifecycleInv'
  <2>1. Lifecycle!TypeOK'
    BY <1>2 DEF Lifecycle!Anchor, LifecycleInv, Lifecycle!TypeOK, Lifecycle!Stages
  <2>2. Lifecycle!AnchoredByStage'
    BY <1>2 DEF Lifecycle!Anchor, LifecycleInv, Lifecycle!TypeOK, Lifecycle!AnchoredByStage
  <2>3. Lifecycle!AwardsAreEarned'
    BY <1>2 DEF Lifecycle!Anchor, LifecycleInv, Lifecycle!TypeOK, Lifecycle!AwardsAreEarned
  <2>4. QED
    BY <2>1, <2>2, <2>3 DEF LifecycleInv
<1>3. ASSUME NEW r \in ReportIds, Lifecycle!Fail(r) PROVE LifecycleInv'
  <2>1. Lifecycle!TypeOK'
    BY <1>3 DEF Lifecycle!Fail, LifecycleInv, Lifecycle!TypeOK, Lifecycle!Stages
  <2>2. Lifecycle!AnchoredByStage'
    BY <1>3 DEF Lifecycle!Fail, LifecycleInv, Lifecycle!TypeOK, Lifecycle!AnchoredByStage
  <2>3. Lifecycle!AwardsAreEarned'
    BY <1>3 DEF Lifecycle!Fail, LifecycleInv, Lifecycle!TypeOK, Lifecycle!AwardsAreEarned
  <2>4. QED
    BY <2>1, <2>2, <2>3 DEF LifecycleInv
<1>4. CASE UNCHANGED Lifecycle!vars
  BY <1>4 DEF Lifecycle!vars, LifecycleInv, Lifecycle!TypeOK, Lifecycle!AnchoredByStage,
              Lifecycle!AwardsAreEarned
<1>5. QED
  BY <1>1, <1>2, <1>3, <1>4, AwardKeeps DEF LifecycleStep, Lifecycle!Next

\* Whatever follows the lifecycle awards verified patches only, and records a
\* patch exactly from its anchoring on.
THEOREM LifecycleInvariance == Lifecycle!Spec => []LifecycleInv
<1>1. LifecycleInv /\ [Lifecycle!Next]_(Lifecycle!vars) => LifecycleInv'
  BY LifecycleMoves DEF LifecycleStep
<1>2. QED
  BY <1>1, LifecycleInitially, PTL DEF Lifecycle!Spec

\* So the ledger's awards are earned: each names the patch that was verified,
\* of a report that reached the award.
THEOREM AwardSafety == Spec => []Lifecycle!AwardsAreEarned
<1>1. LifecycleInv => Lifecycle!AwardsAreEarned
  BY DEF LifecycleInv
<1>2. QED
  BY <1>1, ContractImplementsLifecycle, LifecycleInvariance, PTL DEF ImplementsLifecycle
=============================================================================
