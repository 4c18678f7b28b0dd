--------------------------- MODULE RecoverySnapshot --------------------------
(***************************************************************************)
(* What a private recovery document of the combined session holds and when  *)
(* it is accepted (web/src/recovery.ts, report-journal.ts), with what the   *)
(* contract keeps of a report as far as a restore compares it.  Encryption  *)
(* always validates first: a session whose snapshot is invalid cannot be    *)
(* saved, exported or restored.                                             *)
(*                                                                         *)
(* Digests, secrets and texts are left out: a report is its identifier, a   *)
(* commitment is present or not, a transaction is a number (0: not known).  *)
(***************************************************************************)
EXTENDS Naturals, Sequences, SequencesExt

CONSTANTS Reports, None,
          MaxAttempts       \* MAX_REPORT_ATTEMPTS, 1000 in the source

Statuses == {"COMMITTED", "TRIAGED", "ACCEPTED", "REJECTED", "PATCH_READY", "RETEST_PASSED",
             "RETEST_FAILED", "PAYOUT_AUTHORIZED", "CLOSED"}

\* The stages at which a circuit is called and the ones it leads to.
Circuits ==
    [submitReport    |-> [from |-> {}, to |-> {"COMMITTED"}],
     beginTriage     |-> [from |-> {"COMMITTED"}, to |-> {"TRIAGED"}],
     acceptReport    |-> [from |-> {"TRIAGED"}, to |-> {"ACCEPTED"}],
     rejectReport    |-> [from |-> {"TRIAGED"}, to |-> {"REJECTED"}],
     anchorPatch     |-> [from |-> {"ACCEPTED", "RETEST_FAILED"}, to |-> {"PATCH_READY"}],
     submitRetest    |-> [from |-> {"PATCH_READY"}, to |-> {"RETEST_PASSED", "RETEST_FAILED"}],
     authorizePayout |-> [from |-> {"RETEST_PASSED"}, to |-> {"PAYOUT_AUTHORIZED"}],
     closeReport     |-> [from |-> {"REJECTED", "PAYOUT_AUTHORIZED"}, to |-> {"CLOSED"}]]

Transitions == DOMAIN Circuits \ {"submitReport"}

Snapshots ==
    [mode : {"guided-local", "midnight"}, contractAddress : BOOLEAN,
     deploymentAttempt : BOOLEAN, deploymentTransactionId : Nat,
     reportAttempts : Seq([circuit : DOMAIN Circuits, reportId : Reports, nextStatus : Statuses,
                           transactionId : Nat, outcome : {"unknown", "sdk-confirmed"}]),
     pendingReport : [id : Reports, submissionStarted : BOOLEAN] \cup {None},
     report : Reports \cup {None}, status : Statuses, history : Seq(Statuses),
     patch : BOOLEAN, retest : BOOLEAN, payout : BOOLEAN,
     uncertainTransition : Transitions \cup {None}]

Fresh ==
    [mode |-> "guided-local", contractAddress |-> FALSE,
     deploymentAttempt |-> FALSE, deploymentTransactionId |-> 0, reportAttempts |-> <<>>,
     pendingReport |-> None, report |-> None, status |-> "COMMITTED", history |-> <<>>,
     patch |-> FALSE, retest |-> FALSE, payout |-> FALSE, uncertainTransition |-> None]

unresolved(attempts) == \E i \in DOMAIN attempts : attempts[i].outcome = "unknown"

\* Why no other report transaction may start.
reportJournalBlocks(attempts) == unresolved(attempts) \/ Len(attempts) >= MaxAttempts

validateReportJournal(s) ==
    LET attempts == s.reportAttempts
        ids == {i \in DOMAIN attempts : attempts[i].transactionId # 0}
    IN  /\ Len(attempts) =< MaxAttempts /\ s.mode = "midnight" /\ s.contractAddress
        /\ \A i, j \in ids : attempts[i].transactionId = attempts[j].transactionId => i = j
        /\ \A i \in DOMAIN attempts :
            /\ attempts[i].nextStatus \in Circuits[attempts[i].circuit].to
            /\ attempts[i].outcome = "sdk-confirmed" => i \in ids
            /\ attempts[i].outcome = "unknown" =>
                /\ i = Len(attempts)
                /\ IF attempts[i].circuit = "submitReport"
                   THEN s.pendingReport = [id |-> attempts[i].reportId, submissionStarted |-> TRUE]
                   ELSE /\ s.report = attempts[i].reportId
                        /\ s.uncertainTransition = attempts[i].circuit

\* A guided history is a walk from COMMITTED along the workflow, with the
\* commitments that its stages leave.
validHistory(s) ==
    LET h == s.history
        seen == Range(h)
    IN  /\ h # <<>> => h[1] = "COMMITTED"
        /\ \A i \in 2..Len(h) :
            \E c \in DOMAIN Circuits : h[i - 1] \in Circuits[c].from /\ h[i] \in Circuits[c].to
        /\ s.patch = ("PATCH_READY" \in seen)
        /\ s.retest = (\/ s.status \in {"RETEST_FAILED", "RETEST_PASSED", "PAYOUT_AUTHORIZED"}
                       \/ s.status = "CLOSED" /\ "RETEST_PASSED" \in seen)
        /\ s.payout = ("PAYOUT_AUTHORIZED" \in seen)

clean(s) == s.report = None /\ ~s.patch /\ ~s.retest /\ ~s.payout

\* The version is not kept: it is 8 with a journal, 7 with a deployment
\* identifier, 6 with a deployment attempt and 5 otherwise.
validateRecovery(s) ==
    /\ s.deploymentTransactionId # 0 => s.mode = "midnight"
    /\ IF s.deploymentAttempt
       THEN /\ s.reportAttempts = <<>>
            /\ s.mode = "midnight" /\ ~s.contractAddress
            /\ clean(s) /\ s.pendingReport = None /\ s.uncertainTransition = None
       ELSE (s.mode = "midnight") = s.contractAddress
    /\ IF s.report # None
       THEN s.history # <<>> /\ Last(s.history) = s.status
       ELSE s.history = <<>> /\ s.status = "COMMITTED"
    /\ s.mode = "guided-local" => validHistory(s)
    /\ s.uncertainTransition # None => s.mode = "midnight" /\ s.report # None
    /\ s.pendingReport # None =>
        /\ clean(s) /\ s.history = <<>>
        /\ s.mode = "guided-local" => ~s.pendingReport.submissionStarted
    /\ s.reportAttempts # <<>> => validateReportJournal(s)

-----------------------------------------------------------------------------
(* The contract: a report's record, or None.                               *)

Record(status, patch, retest, payout) ==
    [status |-> status, patch |-> patch, retest |-> retest, payout |-> payout]

\* What a finalized call leaves; the ledger refuses it at any other stage.
accepts(ledger, t) ==
    IF t.circuit = "submitReport" THEN ledger[t.reportId] = None
    ELSE ledger[t.reportId] # None /\ ledger[t.reportId].status \in Circuits[t.circuit].from

applied(ledger, t) ==
    LET r == ledger[t.reportId]
        after == CASE t.circuit = "submitReport" -> Record("COMMITTED", FALSE, FALSE, FALSE)
                   [] t.circuit = "anchorPatch" -> Record("PATCH_READY", TRUE, FALSE, FALSE)
                   [] t.circuit = "submitRetest" -> Record(t.nextStatus, TRUE, TRUE, FALSE)
                   [] t.circuit = "authorizePayout" -> [r EXCEPT !.status = t.nextStatus, !.payout = TRUE]
                   [] OTHER -> [r EXCEPT !.status = t.nextStatus]
    IN  [ledger EXCEPT ![t.reportId] = after]

\* A restore is refused if the contract lacks its report, or already has the
\* one that it only prepared.
verifyRecoveryLedger(s, ledger) ==
    IF s.report # None THEN ledger[s.report] # None
    ELSE s.pendingReport # None => ledger[s.pendingReport.id] = None

\* The session a restore installs: what the ledger says replaces what the
\* copy says of a report.
restored(s, ledger) ==
    IF s.mode = "midnight" /\ ~s.deploymentAttempt /\ s.report # None
    THEN LET r == ledger[s.report]
         IN  [s EXCEPT !.status = r.status, !.history = <<r.status>>,
                       !.patch = r.patch, !.retest = r.retest, !.payout = r.payout]
    ELSE s
=============================================================================
