------------------------ MODULE CombinedSessionProofs ------------------------
(***************************************************************************)
(* Theorems about the combined session, for any copies, reports and bounds. *)
(*                                                                         *)
(* SessionInv says what the session is during each operation, and that an   *)
(* SDK call before its checkpoint is the one whose identifier the session   *)
(* lacks.  StorageInv orders what there is of a session by the transactions *)
(* that it names: a copy, the saves that wait for it, the session; a late   *)
(* write has its row to itself.  The lemmas go from snapshots to the        *)
(* session's operations and from these to the copies.                       *)
(***************************************************************************)
EXTENDS CombinedSession, SequenceTheorems, TLAPS

Attempts == [circuit : DOMAIN Circuits, reportId : Reports, nextStatus : Statuses,
             transactionId : Nat, outcome : {"unknown", "sdk-confirmed"}]
Records == [status : Statuses, patch : BOOLEAN, retest : BOOLEAN, payout : BOOLEAN]
Deployments == [id : Nat \ {0}, circuit : {"constructor"}]
ReportCalls == [id : Nat \ {0}, circuit : DOMAIN Circuits, reportId : Reports, nextStatus : Statuses]

\* A session with a wallet and no program: there is nothing to save yet.
Blank == [Fresh EXCEPT !.mode = "midnight"]

\* What can be saved, restored and taken further.
Whole(s) == s \in Snapshots /\ validateRecovery(s) /\ (s.report = None => clean(s))

latest(s) == Last(s.reportAttempts)

\* Identifiers that no checkpoint has seen yet.
Unissued ==
    {n \in 1..MaxSubmissions : n > calls} \cup {c.id : c \in sdk}
    \cup (IF transacting /\ task.step = "intent" THEN {task.call.id} ELSE {})

Known(s) == \A i \in DOMAIN s.reportAttempts : s.reportAttempts[i].transactionId \notin Unissued

-----------------------------------------------------------------------------
(* What keeps the tab busy, and what its session is meanwhile.             *)

Unused(s) == ~s.deploymentAttempt /\ ~s.contractAddress /\ s.report = None /\ s.pendingReport = None

Connecting ==
    /\ task = Task("connect", "waiting")
    /\ Unused(session)

Deploying ==
    /\ task = Task("deploy", "copying")
    /\ session = Blank /\ providers
    /\ calls < MaxSubmissions

\* Nothing is unresolved.
Ready ==
    /\ session.mode = "midnight" => session.contractAddress
    /\ session.contractAddress => ~reportJournalBlocks(session.reportAttempts)

Sealing ==
    /\ task \in {Task("seal", "saving"), Task("seal", "uploading")}
    /\ Ready
    /\ session.report = None
    /\ session.pendingReport \in [id : Reports, submissionStarted : {FALSE}]

Deciding ==
    \E c \in Transitions : \E next \in Circuits[c].to :
        /\ task = [op |-> "transition", step |-> "digest", circuit |-> c, next |-> next]
        /\ Ready
        /\ session.report # None /\ session.uncertainTransition = None
        /\ session.status \in Circuits[c].from

\* The attempt that a call belongs to is the last and unresolved.
Journaled(s, c) ==
    /\ s.contractAddress /\ s.reportAttempts # <<>>
    /\ latest(s).outcome = "unknown"
    /\ latest(s).circuit = c.circuit /\ latest(s).reportId = c.reportId
    /\ latest(s).nextStatus = c.nextStatus

DeploymentUnderWay ==
    \E step \in {"sdk", "sent", "confirming"} :
        /\ transacting /\ task.op = "deploy"
        /\ task = [op |-> "deploy", step |-> step, call |-> task.call]
        /\ task.call \in Deployments
        /\ providers
        /\ step # "confirming" => session.deploymentAttempt
        /\ step = "sent" => session.deploymentTransactionId # 0

ReportUnderWay ==
    \E step \in {"intent", "sdk", "sent", "confirming"}, op \in {"seal", "transition"} :
        /\ transacting /\ task.op = op
        /\ task = [op |-> op, step |-> step, call |-> task.call]
        /\ task.call \in ReportCalls
        /\ op = "seal" <=> task.call.circuit = "submitReport"
        /\ Journaled(session, task.call)
        /\ step = "intent" =>
              sdk = {} /\ latest(session).transactionId = 0 /\ task.call.id =< calls
        /\ step \in {"sent", "confirming"} => latest(session).transactionId # 0

Refreshing ==
    /\ task = Task("refresh", "reading")
    /\ session.contractAddress /\ session.report # None

Importing ==
    \E step \in {"reading", "installing"} :
        /\ importing(step)
        /\ task = [op |-> "import", step |-> step, copy |-> task.copy]
        /\ Whole(task.copy) /\ Known(task.copy)
        /\ Unused(session)

Recovering ==
    /\ task = Task("recover", "joining")
    /\ session.deploymentAttempt /\ session.deploymentTransactionId # 0

Busy ==
    \/ task = None
    \/ Connecting \/ Deploying \/ Sealing \/ Deciding
    \/ DeploymentUnderWay \/ ReportUnderWay
    \/ Refreshing \/ Importing \/ Recovering

-----------------------------------------------------------------------------
(* The session, its SDK call and its checkpoint.                           *)

Sound ==
    /\ Whole(session) \/ session = Blank
    /\ Known(session)
    /\ session.contractAddress \/ session = Blank => providers
    /\ providers \in BOOLEAN

\* A call that has not reached its checkpoint is the one whose identifier the
\* session lacks.
Awaited(c) ==
    \/ /\ c \in Deployments
       /\ session.deploymentAttempt /\ session.deploymentTransactionId = 0
    \/ /\ c \in ReportCalls /\ Journaled(session, c)
       /\ latest(session).transactionId = 0

Calling ==
    /\ calls \in Nat
    /\ \A c \in sdk : Awaited(c) /\ c.id =< calls /\ \A d \in sdk : c = d

Marked(s, c) ==
    \/ /\ c \in Deployments
       /\ s.deploymentAttempt /\ s.deploymentTransactionId = c.id
    \/ /\ c \in ReportCalls /\ Journaled(s, c)
       /\ latest(s).transactionId = c.id

Checkpointing ==
    checkpointing # None =>
        /\ transacting /\ task.step = "sdk"
        /\ Marked(session, checkpointing)

Network ==
    /\ pool \subseteq Deployments \cup ReportCalls
    /\ ledger \in [Reports -> Records \cup {None}]

SessionInv == Busy /\ Sound /\ Calling /\ Checkpointing /\ Network

-----------------------------------------------------------------------------
(* What is stored, or on its way there.                                    *)

\* t names every transaction that s names.
Grows(s, t) ==
    /\ s.deploymentTransactionId # 0 => t.deploymentTransactionId = s.deploymentTransactionId
    /\ \A i \in DOMAIN s.reportAttempts :
          s.reportAttempts[i].transactionId # 0 =>
              \E j \in DOMAIN t.reportAttempts :
                  /\ t.reportAttempts[j].transactionId = s.reportAttempts[i].transactionId
                  /\ t.reportAttempts[j].circuit = s.reportAttempts[i].circuit
                  /\ t.reportAttempts[j].reportId = s.reportAttempts[i].reportId

Savable(s) == Whole(s) /\ Known(s)

RowsKept == rows \in Seq(Snapshots) /\ \A i \in DOMAIN rows : Savable(rows[i])

\* Saves of one writer take nothing back, and none is ahead of the session.
WriterOf(w, copies, s) ==
    /\ w \in [row : DOMAIN copies, queue : Seq(Snapshots), saved : Snapshots, leased : BOOLEAN]
    /\ w.saved = copies[w.row] /\ Grows(w.saved, s)
    /\ \A i \in DOMAIN w.queue :
          /\ Grows(w.saved, w.queue[i]) /\ Grows(w.queue[i], s)
          /\ \A j \in i..Len(w.queue) : Grows(w.queue[i], w.queue[j])

WriterKept ==
    writer # None =>
        WriterOf(writer, rows, session) /\ \A i \in DOMAIN writer.queue : Savable(writer.queue[i])

EnablingKept == enabling # None => Savable(enabling) /\ Grows(enabling, session)

\* A late write adds to its row, which nobody else writes.
OrphansKept ==
    \A o \in orphans :
        /\ o.row \in DOMAIN rows /\ Savable(o.snapshot)
        /\ Grows(rows[o.row], o.snapshot)
        /\ writer # None => o.row # writer.row
        /\ \A p \in orphans : p.row = o.row => p = o

\* What a leased writer saves last names the transaction that waits for it.
CheckpointKept ==
    checkpointing # None /\ writer # None /\ writer.leased =>
        IF writer.queue = <<>> THEN names(writer.saved, checkpointing)
        ELSE names(Last(writer.queue), checkpointing)

Stored == RowsKept /\ WriterKept /\ EnablingKept /\ OrphansKept

StorageInv ==
    /\ Stored /\ CheckpointKept
    /\ broadcast \subseteq Deployments \cup ReportCalls
    /\ BroadcastIsJournaled

CombinedInv == SessionInv /\ StorageInv
-----------------------------------------------------------------------------
(* Snapshots and their validation.                                         *)

\* The stages of the workflow and the circuits between them.
LEMMA Workflow ==
  /\ DOMAIN Circuits = {"submitReport", "beginTriage", "acceptReport", "rejectReport", "anchorPatch",
                        "submitRetest", "authorizePayout", "closeReport"}
  /\ \A c \in DOMAIN Circuits : Circuits[c].from \subseteq Statuses /\ Circuits[c].to \subseteq Statuses
  /\ "constructor" \notin DOMAIN Circuits
  /\ Transitions \subseteq DOMAIN Circuits /\ "submitReport" \notin Transitions
  /\ Circuits["submitReport"].to = {"COMMITTED"} /\ Circuits["submitReport"].from = {}
BY DEF Circuits, Statuses, Transitions

\* Which stages a circuit leads from and to.
LEMMA WorkflowSteps ==
  ASSUME NEW c \in DOMAIN Circuits, NEW s \in Circuits[c].from, NEW n \in Circuits[c].to
  PROVE  \/ c = "beginTriage" /\ s = "COMMITTED" /\ n = "TRIAGED"
         \/ c = "acceptReport" /\ s = "TRIAGED" /\ n = "ACCEPTED"
         \/ c = "rejectReport" /\ s = "TRIAGED" /\ n = "REJECTED"
         \/ c = "anchorPatch" /\ s \in {"ACCEPTED", "RETEST_FAILED"} /\ n = "PATCH_READY"
         \/ c = "submitRetest" /\ s = "PATCH_READY" /\ n \in {"RETEST_PASSED", "RETEST_FAILED"}
         \/ c = "authorizePayout" /\ s = "RETEST_PASSED" /\ n = "PAYOUT_AUTHORIZED"
         \/ c = "closeReport" /\ s \in {"REJECTED", "PAYOUT_AUTHORIZED"} /\ n = "CLOSED"
BY DEF Circuits

\* What the attempts of a journal satisfy among themselves.
Ordered(attempts) ==
    /\ Len(attempts) =< MaxAttempts
    /\ \A i, j \in DOMAIN attempts :
          /\ attempts[i].transactionId # 0 /\ attempts[j].transactionId # 0
          /\ attempts[i].transactionId = attempts[j].transactionId
          => i = j
    /\ \A i \in DOMAIN attempts :
          /\ attempts[i].nextStatus \in Circuits[attempts[i].circuit].to
          /\ attempts[i].outcome = "sdk-confirmed" => attempts[i].transactionId # 0
          /\ attempts[i].outcome = "unknown" => i = Len(attempts)

\* What the session shows of an unresolved attempt.
Shows(s) ==
    s.reportAttempts # <<>> /\ latest(s).outcome = "unknown" =>
        IF latest(s).circuit = "submitReport"
        THEN s.pendingReport = [id |-> latest(s).reportId, submissionStarted |-> TRUE]
        ELSE s.report = latest(s).reportId /\ s.uncertainTransition = latest(s).circuit

\* Validation of a journal is about its attempts and about the last of them.
LEMMA JournalValid ==
  ASSUME NEW s \in Snapshots, s.reportAttempts # <<>>
  PROVE  validateReportJournal(s) <=>
             s.mode = "midnight" /\ s.contractAddress /\ Ordered(s.reportAttempts) /\ Shows(s)
<1>1. s.reportAttempts \in Seq(Attempts)
  BY DEF Snapshots, Attempts
<1>2. /\ Len(s.reportAttempts) \in Nat \ {0} /\ DOMAIN s.reportAttempts = 1..Len(s.reportAttempts)
      /\ latest(s) = s.reportAttempts[Len(s.reportAttempts)]
  BY <1>1 DEF latest, Last
<1>3. ASSUME validateReportJournal(s)
      PROVE  s.mode = "midnight" /\ s.contractAddress /\ Ordered(s.reportAttempts) /\ Shows(s)
  <2>1. s.mode = "midnight" /\ s.contractAddress /\ Len(s.reportAttempts) =< MaxAttempts
    BY <1>3 DEF validateReportJournal
  <2>2. Ordered(s.reportAttempts)
    BY <1>3, <2>1 DEF validateReportJournal, Ordered
  <2>3. Shows(s)
    BY <1>2, <1>3 DEF validateReportJournal, Shows
  <2>4. QED
    BY <2>1, <2>2, <2>3
<1>4. ASSUME s.mode = "midnight", s.contractAddress, Ordered(s.reportAttempts), Shows(s)
      PROVE  validateReportJournal(s)
  BY <1>2, <1>4 DEF validateReportJournal, Ordered, Shows
<1>5. QED
  BY <1>3, <1>4

\* What a whole snapshot is, without the shape of its definition.
LEMMA WholeIs ==
  ASSUME NEW s, Whole(s)
  PROVE  /\ s \in Snapshots /\ s.reportAttempts \in Seq(Attempts)
         /\ s.mode \in {"guided-local", "midnight"} /\ s.contractAddress \in BOOLEAN
         /\ s.deploymentAttempt \in BOOLEAN /\ s.deploymentTransactionId \in Nat
         /\ s.deploymentTransactionId # 0 => s.mode = "midnight"
         /\ s.deploymentAttempt =>
                /\ s.reportAttempts = <<>> /\ s.mode = "midnight" /\ ~s.contractAddress
                /\ clean(s) /\ s.pendingReport = None /\ s.uncertainTransition = None
         /\ ~s.deploymentAttempt => ((s.mode = "midnight") <=> s.contractAddress)
         /\ s.report # None => s.report \in Reports /\ s.history # <<>> /\ Last(s.history) = s.status
         /\ s.report = None => s.history = <<>> /\ s.status = "COMMITTED" /\ clean(s)
         /\ s.mode = "guided-local" => validHistory(s)
         /\ s.uncertainTransition # None => s.mode = "midnight" /\ s.report # None
         /\ s.pendingReport # None =>
                /\ s.pendingReport \in [id : Reports, submissionStarted : BOOLEAN]
                /\ clean(s) /\ s.history = <<>>
                /\ s.mode = "guided-local" => ~s.pendingReport.submissionStarted
         /\ s.reportAttempts # <<>> =>
                s.mode = "midnight" /\ s.contractAddress /\ Ordered(s.reportAttempts) /\ Shows(s)
<1>1. s \in Snapshots /\ validateRecovery(s) /\ (s.report = None => clean(s))
  BY DEF Whole
<1>2. s.reportAttempts # <<>> => validateReportJournal(s)
  BY <1>1 DEF validateRecovery
<1>3. s.reportAttempts # <<>> =>
         s.mode = "midnight" /\ s.contractAddress /\ Ordered(s.reportAttempts) /\ Shows(s)
  BY <1>1, <1>2, JournalValid
<1>4. /\ s.reportAttempts \in Seq(Attempts)
      /\ s.mode \in {"guided-local", "midnight"} /\ s.contractAddress \in BOOLEAN
      /\ s.deploymentAttempt \in BOOLEAN /\ s.deploymentTransactionId \in Nat
      /\ s.report # None => s.report \in Reports
      /\ s.pendingReport # None => s.pendingReport \in [id : Reports, submissionStarted : BOOLEAN]
  BY <1>1 DEF Snapshots, Attempts
<1>5. QED
  BY <1>1, <1>3, <1>4 DEF validateRecovery

\* And what makes one.
LEMMA WholeBy ==
  ASSUME NEW s \in Snapshots,
         s.deploymentTransactionId # 0 => s.mode = "midnight",
         s.deploymentAttempt =>
             /\ s.reportAttempts = <<>> /\ s.mode = "midnight" /\ ~s.contractAddress
             /\ clean(s) /\ s.pendingReport = None /\ s.uncertainTransition = None,
         ~s.deploymentAttempt => ((s.mode = "midnight") <=> s.contractAddress),
         s.report # None => s.history # <<>> /\ Last(s.history) = s.status,
         s.report = None => s.history = <<>> /\ s.status = "COMMITTED" /\ clean(s),
         s.mode = "guided-local" => validHistory(s),
         s.uncertainTransition # None => s.mode = "midnight" /\ s.report # None,
         s.pendingReport # None =>
             /\ clean(s) /\ s.history = <<>>
             /\ s.mode = "guided-local" => ~s.pendingReport.submissionStarted,
         s.reportAttempts # <<>> =>
             s.mode = "midnight" /\ s.contractAddress /\ Ordered(s.reportAttempts) /\ Shows(s)
  PROVE  Whole(s)
<1>1. s.reportAttempts # <<>> => validateReportJournal(s)
  BY JournalValid
<1>2. s.contractAddress \in BOOLEAN /\ s.mode \in {"guided-local", "midnight"}
  BY DEF Snapshots
<1>3. validateRecovery(s)
  BY <1>1, <1>2 DEF validateRecovery
<1>4. QED
  BY <1>3 DEF Whole

\* A snapshot is its thirteen fields.
LEMMA SnapshotIs ==
  ASSUME NEW s \in Snapshots
  PROVE  s = [mode |-> s.mode, contractAddress |-> s.contractAddress,
              deploymentAttempt |-> s.deploymentAttempt,
              deploymentTransactionId |-> s.deploymentTransactionId,
              reportAttempts |-> s.reportAttempts, pendingReport |-> s.pendingReport,
              report |-> s.report, status |-> s.status, history |-> s.history,
              patch |-> s.patch, retest |-> s.retest, payout |-> s.payout,
              uncertainTransition |-> s.uncertainTransition]
BY DEF Snapshots
-----------------------------------------------------------------------------
(* What the operations make of a snapshot.                                 *)

\* The parts of a session that its deployment and its journal consist of.
SameJournal(s, t) ==
    /\ t.mode = s.mode /\ t.contractAddress = s.contractAddress
    /\ t.deploymentAttempt = s.deploymentAttempt
    /\ t.deploymentTransactionId = s.deploymentTransactionId
    /\ t.reportAttempts = s.reportAttempts

\* A prepared report leaves a whole session.
LEMMA WholePrepared ==
  ASSUME NEW s, Whole(s), NEW r \in Reports, s.report = None,
         s.mode = "midnight" => s.contractAddress, ~unresolved(s.reportAttempts)
  PROVE  LET t == [s EXCEPT !.pendingReport = [id |-> r, submissionStarted |-> FALSE]]
         IN  /\ Whole(t) /\ SameJournal(s, t)
             /\ t.report = None /\ t.pendingReport = [id |-> r, submissionStarted |-> FALSE]
<1> DEFINE t == [s EXCEPT !.pendingReport = [id |-> r, submissionStarted |-> FALSE]]
<1>1. s \in Snapshots
  BY WholeIs
<1>2. /\ t \in Snapshots /\ SameJournal(s, t)
      /\ t.report = s.report /\ t.status = s.status /\ t.history = s.history
      /\ t.patch = s.patch /\ t.retest = s.retest /\ t.payout = s.payout
      /\ t.uncertainTransition = s.uncertainTransition
      /\ t.pendingReport = [id |-> r, submissionStarted |-> FALSE]
  BY <1>1 DEF Snapshots, SameJournal
<1> HIDE DEF t
<1>3. clean(t) /\ t.history = <<>> /\ ~t.pendingReport.submissionStarted
  BY <1>2, WholeIs DEF clean
<1>4. t.mode = "guided-local" => validHistory(t)
  BY <1>2, WholeIs DEF validHistory, SameJournal
<1>5. t.reportAttempts # <<>> => Shows(t)
  <2>1. ASSUME t.reportAttempts # <<>> PROVE latest(t).outcome # "unknown"
    BY <1>2, <2>1, WholeIs DEF SameJournal, unresolved, latest, Last
  <2>2. QED
    BY <2>1 DEF Shows
<1>6. Whole(t)
  BY <1>2, <1>3, <1>4, <1>5, WholeIs, WholeBy DEF SameJournal
<1>7. QED
  BY <1>2, <1>6 DEF t

\* So does an uncertain submission.
LEMMA WholeStarted ==
  ASSUME NEW s, Whole(s), s.contractAddress, s.report = None, ~unresolved(s.reportAttempts),
         s.pendingReport \in [id : Reports, submissionStarted : {FALSE}]
  PROVE  LET t == [s EXCEPT !.pendingReport.submissionStarted = TRUE]
         IN  /\ Whole(t) /\ SameJournal(s, t) /\ t.report = None
             /\ t.pendingReport = [id |-> s.pendingReport.id, submissionStarted |-> TRUE]
<1> DEFINE t == [s EXCEPT !.pendingReport.submissionStarted = TRUE]
<1>1. s \in Snapshots /\ s.mode = "midnight"
  BY WholeIs
<1>2. s.pendingReport = [id |-> s.pendingReport.id, submissionStarted |-> FALSE]
      /\ s.pendingReport.id \in Reports
  OBVIOUS
<1>3. /\ t \in Snapshots /\ SameJournal(s, t)
      /\ t.report = s.report /\ t.status = s.status /\ t.history = s.history
      /\ t.patch = s.patch /\ t.retest = s.retest /\ t.payout = s.payout
      /\ t.uncertainTransition = s.uncertainTransition
      /\ t.pendingReport = [id |-> s.pendingReport.id, submissionStarted |-> TRUE]
  BY <1>1, <1>2 DEF Snapshots, SameJournal
<1> HIDE DEF t
<1>4. clean(t) /\ t.history = <<>>
  BY <1>3, WholeIs DEF clean
<1>5. t.reportAttempts # <<>> => Shows(t)
  <2>1. ASSUME t.reportAttempts # <<>> PROVE latest(t).outcome # "unknown"
    BY <1>3, <2>1, WholeIs DEF SameJournal, unresolved, latest, Last
  <2>2. QED
    BY <2>1 DEF Shows
<1>6. Whole(t)
  BY <1>1, <1>3, <1>4, <1>5, WholeIs, WholeBy DEF SameJournal
<1>7. QED
  BY <1>3, <1>6 DEF t

\* And an uncertain transition.
LEMMA WholeUncertain ==
  ASSUME NEW s, Whole(s), s.contractAddress, s.report # None, ~unresolved(s.reportAttempts),
         NEW c \in Transitions
  PROVE  LET t == [s EXCEPT !.uncertainTransition = c]
         IN  /\ Whole(t) /\ SameJournal(s, t) /\ t.report = s.report
             /\ t.uncertainTransition = c
<1> DEFINE t == [s EXCEPT !.uncertainTransition = c]
<1>1. s \in Snapshots /\ s.mode = "midnight"
  BY WholeIs
<1>3. /\ t \in Snapshots /\ SameJournal(s, t)
      /\ t.report = s.report /\ t.status = s.status /\ t.history = s.history
      /\ t.patch = s.patch /\ t.retest = s.retest /\ t.payout = s.payout
      /\ t.uncertainTransition = c
      /\ t.pendingReport = s.pendingReport
  BY <1>1 DEF Snapshots, SameJournal
<1> HIDE DEF t
<1>4. clean(t) <=> clean(s)
  BY <1>3, WholeIs DEF clean
<1>5. t.reportAttempts # <<>> => Shows(t)
  <2>1. ASSUME t.reportAttempts # <<>> PROVE latest(t).outcome # "unknown"
    BY <1>3, <2>1, WholeIs DEF SameJournal, unresolved, latest, Last
  <2>2. QED
    BY <2>1 DEF Shows
<1>6. Whole(t)
  BY <1>1, <1>3, <1>4, <1>5, WholeIs, WholeBy DEF SameJournal
<1>7. QED
  BY <1>3, <1>6 DEF t

\* t is s with one more attempt.
Attempted(s, t, a) ==
    /\ t.mode = s.mode /\ t.contractAddress = s.contractAddress
    /\ t.deploymentAttempt = s.deploymentAttempt
    /\ t.deploymentTransactionId = s.deploymentTransactionId
    /\ t.reportAttempts = Append(s.reportAttempts, a)

\* An unresolved attempt may follow resolved ones, if the session shows it.
LEMMA WholeAttempted ==
  ASSUME NEW s, Whole(s), s.contractAddress, ~reportJournalBlocks(s.reportAttempts),
         NEW c \in DOMAIN Circuits, NEW r \in Reports, NEW n \in Circuits[c].to,
         IF c = "submitReport" THEN s.pendingReport = [id |-> r, submissionStarted |-> TRUE]
         ELSE s.report = r /\ s.uncertainTransition = c
  PROVE  LET a == [circuit |-> c, reportId |-> r, nextStatus |-> n,
                   transactionId |-> 0, outcome |-> "unknown"]
             t == [s EXCEPT !.reportAttempts = Append(@, a)]
         IN  Whole(t) /\ Attempted(s, t, a) /\ a \in Attempts
<1> DEFINE a == [circuit |-> c, reportId |-> r, nextStatus |-> n,
                 transactionId |-> 0, outcome |-> "unknown"]
           t == [s EXCEPT !.reportAttempts = Append(@, a)]
           m == Len(s.reportAttempts)
<1>1. s \in Snapshots /\ s.mode = "midnight" /\ s.reportAttempts \in Seq(Attempts)
  BY WholeIs
<1>2. a \in Attempts
  BY Workflow DEF Attempts
<1>3. Append(s.reportAttempts, a) \in Seq(Attempts)
  BY <1>1, <1>2
<1>4. /\ t \in Snapshots /\ Attempted(s, t, a)
      /\ t.report = s.report /\ t.status = s.status /\ t.history = s.history
      /\ t.patch = s.patch /\ t.retest = s.retest /\ t.payout = s.payout
      /\ t.uncertainTransition = s.uncertainTransition /\ t.pendingReport = s.pendingReport
  BY <1>1, <1>3 DEF Snapshots, Attempted, Attempts
<1> HIDE DEF t
<1>5. /\ m \in Nat /\ m < MaxAttempts /\ DOMAIN s.reportAttempts = 1..m
      /\ t.reportAttempts = Append(s.reportAttempts, a) /\ Len(t.reportAttempts) = m + 1
      /\ DOMAIN t.reportAttempts = 1..(m + 1) /\ t.reportAttempts[m + 1] = a
      /\ \A i \in 1..m : t.reportAttempts[i] = s.reportAttempts[i] /\ s.reportAttempts[i] \in Attempts
  BY <1>1, <1>2, <1>4, SessionConstants DEF Attempted, reportJournalBlocks
<1>6. \A i \in 1..m : s.reportAttempts[i].outcome = "sdk-confirmed"
  BY <1>5 DEF reportJournalBlocks, unresolved, Attempts
<1>7. m # 0 => Ordered(s.reportAttempts)
  BY <1>1, <1>5, WholeIs
<1>8. Ordered(t.reportAttempts)
  <2>1. Len(t.reportAttempts) =< MaxAttempts
    BY <1>5, SessionConstants
  <2>2. ASSUME NEW i \in 1..(m + 1), NEW j \in 1..(m + 1), t.reportAttempts[i].transactionId # 0,
               t.reportAttempts[j].transactionId # 0,
               t.reportAttempts[i].transactionId = t.reportAttempts[j].transactionId
        PROVE  i = j
    <3>1. i \in 1..m /\ j \in 1..m
      BY <1>5, <2>2
    <3>2. QED
      BY <1>5, <1>7, <2>2, <3>1 DEF Ordered
  <2>3. ASSUME NEW i \in 1..(m + 1)
        PROVE  /\ t.reportAttempts[i].nextStatus \in Circuits[t.reportAttempts[i].circuit].to
               /\ t.reportAttempts[i].outcome = "sdk-confirmed" => t.reportAttempts[i].transactionId # 0
               /\ t.reportAttempts[i].outcome = "unknown" => i = m + 1
    <3>1. CASE i = m + 1
      BY <1>5, <3>1
    <3>2. CASE i \in 1..m
      BY <1>5, <1>6, <1>7, <3>2 DEF Ordered
    <3>3. QED
      BY <1>5, <3>1, <3>2
  <2>4. QED
    BY <1>5, <2>1, <2>2, <2>3 DEF Ordered
<1>9. Shows(t)
  <2>1. latest(t) = a
    BY <1>5 DEF latest, Last
  <2> HIDE DEF a
  <2>2. a.circuit = c /\ a.reportId = r
    BY DEF a
  <2>3. QED
    BY <1>4, <2>1, <2>2 DEF Shows
<1>10. clean(t) <=> clean(s)
  BY <1>4 DEF clean
<1>11. ~s.deploymentAttempt
  BY WholeIs
<1>12. Whole(t)
  BY <1>1, <1>4, <1>8, <1>9, <1>10, <1>11, WholeIs, WholeBy DEF Attempted
<1>13. QED
  BY <1>2, <1>4, <1>12 DEF t

\* t is s with another last attempt.
Reattempted(s, t, a) ==
    /\ t.mode = s.mode /\ t.contractAddress = s.contractAddress
    /\ t.deploymentAttempt = s.deploymentAttempt
    /\ t.deploymentTransactionId = s.deploymentTransactionId
    /\ t.reportAttempts = [s.reportAttempts EXCEPT ![Len(s.reportAttempts)] = a]

\* A journal whose last attempt has become another one.
LEMMA OrderedReattempted ==
  ASSUME NEW p \in Seq(Attempts), p # <<>>, Ordered(p), NEW a \in Attempts,
         LET l == p[Len(p)]
         IN  /\ a.circuit = l.circuit /\ a.reportId = l.reportId /\ a.nextStatus = l.nextStatus
             /\ a.outcome = "sdk-confirmed" => a.transactionId # 0
             /\ \A i \in 1..(Len(p) - 1) : p[i].transactionId # a.transactionId
  PROVE  LET q == [p EXCEPT ![Len(p)] = a]
         IN  Ordered(q) /\ q \in Seq(Attempts) /\ q # <<>> /\ Len(q) = Len(p) /\ q[Len(q)] = a
<1> DEFINE q == [p EXCEPT ![Len(p)] = a]
           m == Len(p)
<1>1. /\ m \in Nat \ {0} /\ DOMAIN p = 1..m /\ q \in Seq(Attempts) /\ Len(q) = m /\ DOMAIN q = 1..m
      /\ q[m] = a /\ \A i \in 1..m : i # m => q[i] = p[i]
      /\ \A i \in 1..m : p[i] \in Attempts
  OBVIOUS
<1> HIDE DEF q, m
<1>2. Len(q) =< MaxAttempts
  BY <1>1 DEF Ordered, m
<1>3. ASSUME NEW i \in 1..m, NEW j \in 1..m, q[i].transactionId # 0, q[j].transactionId # 0,
             q[i].transactionId = q[j].transactionId
      PROVE  i = j
  <2>1. CASE i # m /\ j # m
    <3>1. q[i] = p[i] /\ q[j] = p[j]
      BY <1>1, <2>1
    <3>2. QED
      BY <1>1, <1>3, <3>1 DEF Ordered
  <2>2. CASE i = m /\ j # m
    <3>1. j \in 1..(m - 1) /\ q[j] = p[j] /\ q[i] = a
      BY <1>1, <2>2
    <3>2. p[j].transactionId # a.transactionId
      BY <3>1 DEF m
    <3>3. QED
      BY <1>3, <3>1, <3>2
  <2>3. CASE i # m /\ j = m
    <3>1. i \in 1..(m - 1) /\ q[i] = p[i] /\ q[j] = a
      BY <1>1, <2>3
    <3>2. p[i].transactionId # a.transactionId
      BY <3>1 DEF m
    <3>3. QED
      BY <1>3, <3>1, <3>2
  <2>4. QED
    BY <2>1, <2>2, <2>3
<1>4. ASSUME NEW i \in 1..m
      PROVE  /\ q[i].nextStatus \in Circuits[q[i].circuit].to
             /\ q[i].outcome = "sdk-confirmed" => q[i].transactionId # 0
             /\ q[i].outcome = "unknown" => i = m
  <2>1. CASE i = m
    BY <1>1, <2>1 DEF Ordered, m
  <2>2. CASE i # m
    <3>1. q[i] = p[i]
      BY <1>1, <2>2
    <3>2. QED
      BY <1>1, <3>1 DEF Ordered, m
  <2>3. QED
    BY <2>1, <2>2
<1>5. Ordered(q)
  BY <1>1, <1>2, <1>3, <1>4 DEF Ordered
<1>6. QED
  BY <1>1, <1>5 DEF q, m

\* The unresolved attempt gets its identifier, which no other attempt has.
LEMMA WholeMarked ==
  ASSUME NEW s, Whole(s), s.reportAttempts # <<>>, latest(s).outcome = "unknown",
         NEW id \in Nat \ {0},
         \A i \in DOMAIN s.reportAttempts : s.reportAttempts[i].transactionId # id
  PROVE  LET n == Len(s.reportAttempts)
             t == [s EXCEPT !.reportAttempts[n].transactionId = id]
         IN  Whole(t) /\ Reattempted(s, t, [latest(s) EXCEPT !.transactionId = id])
<1> DEFINE n == Len(s.reportAttempts)
           t == [s EXCEPT !.reportAttempts[n].transactionId = id]
           a == [latest(s) EXCEPT !.transactionId = id]
<1>1. /\ s \in Snapshots /\ s.mode = "midnight" /\ s.contractAddress
      /\ s.reportAttempts \in Seq(Attempts) /\ Ordered(s.reportAttempts) /\ Shows(s)
      /\ ~s.deploymentAttempt
  BY WholeIs
<1>2. n \in Nat \ {0} /\ DOMAIN s.reportAttempts = 1..n /\ latest(s) = s.reportAttempts[n]
      /\ latest(s) \in Attempts
  BY <1>1 DEF latest, Last
<1>3. /\ a \in Attempts /\ a.circuit = latest(s).circuit /\ a.reportId = latest(s).reportId
      /\ a.nextStatus = latest(s).nextStatus /\ a.transactionId = id /\ a.outcome = "unknown"
  BY <1>2 DEF Attempts
<1> DEFINE q == [s.reportAttempts EXCEPT ![n] = a]
<1>4. t.reportAttempts = q
  BY <1>1, <1>2 DEF Snapshots
<1>5. Ordered(q) /\ q \in Seq(Attempts) /\ q # <<>> /\ Len(q) = n /\ q[n] = a
  <2> HIDE DEF a
  <2>1. QED
    BY <1>1, <1>2, <1>3, OrderedReattempted
<1>6. /\ t \in Snapshots /\ Reattempted(s, t, a)
      /\ t.report = s.report /\ t.status = s.status /\ t.history = s.history
      /\ t.patch = s.patch /\ t.retest = s.retest /\ t.payout = s.payout
      /\ t.uncertainTransition = s.uncertainTransition /\ t.pendingReport = s.pendingReport
  <2> HIDE DEF a
  <2>1. q \in Seq(Attempts)
    BY <1>5
  <2>2. t = [s EXCEPT !.reportAttempts = q]
    BY <1>1, <1>2, SnapshotIs DEF a
  <2> HIDE DEF q
  <2>3. QED
    BY <1>1, <2>1, <2>2 DEF Snapshots, Attempts, Reattempted, q
<1> HIDE DEF t, q, a
<1>7. latest(t) = a
  BY <1>4, <1>5 DEF latest, Last
<1>8. Shows(t)
  BY <1>1, <1>3, <1>6, <1>7 DEF Shows
<1>9. clean(t) <=> clean(s)
  BY <1>6 DEF clean
<1>10. Whole(t)
  BY <1>1, <1>4, <1>5, <1>6, <1>8, <1>9, WholeIs, WholeBy DEF Reattempted
<1>11. QED
  BY <1>6, <1>10 DEF t, a

\* The SDK's confirmation resolves the last attempt.
LEMMA WholeConfirmed ==
  ASSUME NEW s, Whole(s), s.reportAttempts # <<>>, latest(s).outcome = "unknown",
         latest(s).transactionId # 0
  PROVE  LET n == Len(s.reportAttempts)
             t == [s EXCEPT !.reportAttempts[n].outcome = "sdk-confirmed", !.uncertainTransition = None]
         IN  /\ Whole(t) /\ Reattempted(s, t, [latest(s) EXCEPT !.outcome = "sdk-confirmed"])
             /\ ~unresolved(t.reportAttempts)
             /\ t.report = s.report /\ t.pendingReport = s.pendingReport /\ t.status = s.status
             /\ t.history = s.history /\ t.uncertainTransition = None
<1> DEFINE n == Len(s.reportAttempts)
           t == [s EXCEPT !.reportAttempts[n].outcome = "sdk-confirmed", !.uncertainTransition = None]
           a == [latest(s) EXCEPT !.outcome = "sdk-confirmed"]
           q == [s.reportAttempts EXCEPT ![n] = a]
<1>1. /\ s \in Snapshots /\ s.mode = "midnight" /\ s.contractAddress
      /\ s.reportAttempts \in Seq(Attempts) /\ Ordered(s.reportAttempts) /\ Shows(s)
      /\ ~s.deploymentAttempt
  BY WholeIs
<1>2. n \in Nat \ {0} /\ DOMAIN s.reportAttempts = 1..n /\ latest(s) = s.reportAttempts[n]
      /\ latest(s) \in Attempts
  BY <1>1 DEF latest, Last
<1>3. /\ a \in Attempts /\ a.circuit = latest(s).circuit /\ a.reportId = latest(s).reportId
      /\ a.nextStatus = latest(s).nextStatus /\ a.transactionId = latest(s).transactionId
      /\ a.outcome = "sdk-confirmed"
  BY <1>2 DEF Attempts
<1>4. \A i \in 1..(n - 1) : s.reportAttempts[i].transactionId # a.transactionId
  BY <1>1, <1>2, <1>3 DEF Ordered
<1>5. Ordered(q) /\ q \in Seq(Attempts) /\ q # <<>> /\ Len(q) = n /\ q[n] = a
  <2> HIDE DEF a
  <2>1. QED
    BY <1>1, <1>2, <1>3, <1>4, OrderedReattempted
<1>6. /\ t \in Snapshots /\ Reattempted(s, t, a) /\ t.reportAttempts = q
      /\ t.report = s.report /\ t.status = s.status /\ t.history = s.history
      /\ t.patch = s.patch /\ t.retest = s.retest /\ t.payout = s.payout
      /\ t.uncertainTransition = None /\ t.pendingReport = s.pendingReport
  <2>1. q \in Seq(Attempts)
    BY <1>5
  <2>2. t = [s EXCEPT !.reportAttempts = q, !.uncertainTransition = None]
    BY <1>1, <1>2, SnapshotIs
  <2> HIDE DEF q, t, a
  <2>3. QED
    BY <1>1, <2>1, <2>2 DEF Snapshots, Attempts, Reattempted, q
<1> HIDE DEF t, q, a
<1>7. latest(t) = a
  BY <1>5, <1>6 DEF latest, Last
<1>8. Shows(t)
  BY <1>3, <1>7 DEF Shows
<1>9. clean(t) <=> clean(s)
  BY <1>6 DEF clean
<1>10. Whole(t)
  BY <1>1, <1>5, <1>6, <1>8, <1>9, WholeIs, WholeBy DEF Reattempted
<1>11. ~unresolved(t.reportAttempts)
  <2>1. DOMAIN q = 1..n
    BY <1>5
  <2>2. ASSUME NEW i \in 1..n, q[i].outcome = "unknown" PROVE FALSE
    BY <1>3, <1>5, <2>1, <2>2 DEF Ordered
  <2>3. QED
    BY <1>6, <2>1, <2>2 DEF unresolved
<1>12. QED
  BY <1>6, <1>10, <1>11 DEF t, a

\* What a confirmed operation changes.
LEMMA ShownFields ==
  ASSUME NEW s \in Snapshots, NEW c \in DOMAIN Circuits, NEW n \in Statuses,
         c = "submitReport" => s.pendingReport \in [id : Reports, submissionStarted : BOOLEAN]
  PROVE  LET t == shown(s, c, n)
         IN  /\ t \in Snapshots /\ SameJournal(s, t)
             /\ t.status = n /\ t.history = Append(s.history, n)
             /\ t.report = (IF c = "submitReport" THEN s.pendingReport.id ELSE s.report)
             /\ t.pendingReport = (IF c = "submitReport" THEN None ELSE s.pendingReport)
             /\ t.uncertainTransition = s.uncertainTransition
             /\ c # "anchorPatch" => t.patch = s.patch
             /\ c \notin {"anchorPatch", "submitRetest"} => t.retest = s.retest
             /\ c \notin {"anchorPatch", "authorizePayout"} => t.payout = s.payout
             /\ c = "anchorPatch" => ~t.retest /\ ~t.payout
             /\ s.mode = "guided-local" =>
                    /\ c = "anchorPatch" => t.patch
                    /\ c = "submitRetest" => t.retest
                    /\ c = "authorizePayout" => t.payout
<1> DEFINE u == recordTransition(s, n)
<1>1. /\ u \in Snapshots /\ SameJournal(s, u) /\ u.status = n /\ u.history = Append(s.history, n)
      /\ u.report = s.report /\ u.pendingReport = s.pendingReport
      /\ u.uncertainTransition = s.uncertainTransition
      /\ u.patch = s.patch /\ u.retest = s.retest /\ u.payout = s.payout
  <2>1. s.history \in Seq(Statuses) /\ Append(s.history, n) \in Seq(Statuses)
    BY DEF Snapshots
  <2>2. PICK h \in Seq(Statuses) : h = Append(s.history, n)
    BY <2>1
  <2>3. u = [s EXCEPT !.status = n, !.history = h]
    BY <2>2 DEF recordTransition
  <2> HIDE DEF u
  <2>4. QED
    BY <2>2, <2>3 DEF Snapshots, SameJournal
<1> DEFINE guided == s.mode = "guided-local"
<1>g. guided \in BOOLEAN
  OBVIOUS
<1> HIDE DEF u
<1>2. CASE c = "submitReport"
  <2>1. shown(s, c, n) = [u EXCEPT !.report = s.pendingReport.id, !.pendingReport = None]
    BY <1>2 DEF shown, u
  <2>2. s.pendingReport.id \in Reports
    BY <1>2
  <2>3. QED
    BY <1>1, <1>2, <2>1, <2>2 DEF Snapshots, SameJournal
<1>3. CASE c = "anchorPatch"
  <2>1. shown(s, c, n) = [u EXCEPT !.patch = guided, !.retest = FALSE, !.payout = FALSE]
    BY <1>3 DEF shown, u
  <2>2. PICK t : t = shown(s, c, n)
    OBVIOUS
  <2> HIDE DEF guided
  <2>3. /\ t \in Snapshots /\ SameJournal(u, t) /\ t.status = u.status /\ t.history = u.history
        /\ t.report = u.report /\ t.pendingReport = u.pendingReport
        /\ t.uncertainTransition = u.uncertainTransition
        /\ t.patch = guided /\ t.retest = FALSE /\ t.payout = FALSE
    BY <1>1, <1>g, <2>1, <2>2 DEF Snapshots, SameJournal
  <2>4. QED
    BY <1>1, <1>3, <2>2, <2>3 DEF SameJournal, guided
<1>4. CASE c = "submitRetest"
  <2>1. shown(s, c, n) = [u EXCEPT !.retest = (s.mode = "guided-local")]
    BY <1>4 DEF shown, u
  <2>2. QED
    BY <1>1, <1>4, <2>1 DEF Snapshots, SameJournal
<1>5. CASE c = "authorizePayout"
  <2>1. shown(s, c, n) = [u EXCEPT !.payout = (s.mode = "guided-local")]
    BY <1>5 DEF shown, u
  <2>2. QED
    BY <1>1, <1>5, <2>1 DEF Snapshots, SameJournal
<1>6. CASE c \notin {"submitReport", "anchorPatch", "submitRetest", "authorizePayout"}
  <2>1. shown(s, c, n) = u
    BY <1>6 DEF shown, u
  <2>2. QED
    BY <1>1, <1>6, <2>1
<1>7. QED
  BY <1>2, <1>3, <1>4, <1>5, <1>6

\* In a network session a confirmed operation leaves a whole session, also
\* before its commitments are read.
LEMMA WholeShown ==
  ASSUME NEW s, Whole(s), s.contractAddress, ~unresolved(s.reportAttempts),
         s.uncertainTransition = None, NEW c \in DOMAIN Circuits, NEW n \in Statuses,
         IF c = "submitReport" THEN s.pendingReport \in [id : Reports, submissionStarted : BOOLEAN]
         ELSE s.report # None
  PROVE  LET t == shown(s, c, n)
         IN  Whole(t) /\ SameJournal(s, t) /\ t.report # None
<1> DEFINE t == shown(s, c, n)
<1>1. s \in Snapshots /\ s.mode = "midnight" /\ ~s.deploymentAttempt
  BY WholeIs
<1>2. /\ t \in Snapshots /\ SameJournal(s, t)
      /\ t.status = n /\ t.history = Append(s.history, n)
      /\ t.report = (IF c = "submitReport" THEN s.pendingReport.id ELSE s.report)
      /\ t.pendingReport = (IF c = "submitReport" THEN None ELSE s.pendingReport)
      /\ t.uncertainTransition = s.uncertainTransition
  <2>1. c = "submitReport" => s.pendingReport \in [id : Reports, submissionStarted : BOOLEAN]
    OBVIOUS
  <2>2. QED
    BY <1>1, <2>1, ShownFields
<1> HIDE DEF t
<1>3. t.report # None
  BY <1>2, SessionConstants
<1>4. t.history # <<>> /\ Last(t.history) = t.status
  <2>1. s.history \in Seq(Statuses)
    BY <1>1 DEF Snapshots
  <2>2. QED
    BY <1>2, <2>1 DEF Last
<1>5. t.pendingReport = None
  BY <1>2, WholeIs DEF clean
<1>6. t.reportAttempts # <<>> => Ordered(t.reportAttempts) /\ Shows(t)
  <2>1. ASSUME t.reportAttempts # <<>> PROVE latest(t).outcome # "unknown"
    <3>1. s.reportAttempts \in Seq(Attempts)
      BY WholeIs
    <3>2. QED
      BY <1>2, <2>1, <3>1 DEF SameJournal, unresolved, latest, Last
  <2>2. QED
    BY <1>2, <2>1, WholeIs DEF Shows, SameJournal
<1>7. Whole(t)
  BY <1>1, <1>2, <1>3, <1>4, <1>5, <1>6, WholeIs, WholeBy DEF SameJournal
<1>8. QED
  BY <1>2, <1>3, <1>7 DEF t

\* What is saved of a confirmed transition.
LEMMA WholeRecorded ==
  ASSUME NEW s, Whole(s), s.contractAddress, ~unresolved(s.reportAttempts),
         s.uncertainTransition = None, s.report # None, NEW n \in Statuses
  PROVE  Whole(recordTransition(s, n)) /\ SameJournal(s, recordTransition(s, n))
<1>1. s \in Snapshots
  BY WholeIs
<1>2. "beginTriage" \in DOMAIN Circuits /\ recordTransition(s, n) = shown(s, "beginTriage", n)
  BY Workflow DEF shown
<1>3. QED
  BY <1>1, <1>2, WholeShown

\* A deployment's attempt is saved before anything else of it is known.
LEMMA WholeDeploying ==
  LET t == [Blank EXCEPT !.deploymentAttempt = TRUE]
  IN  /\ Whole(t) /\ t.deploymentAttempt /\ t.deploymentTransactionId = 0 /\ t.reportAttempts = <<>>
      /\ Blank.deploymentTransactionId = 0 /\ Blank.reportAttempts = <<>>
<1> DEFINE t == [Blank EXCEPT !.deploymentAttempt = TRUE]
<1>1. /\ Blank \in Snapshots /\ Blank.mode = "midnight" /\ Blank.contractAddress = FALSE
      /\ Blank.deploymentTransactionId = 0 /\ Blank.reportAttempts = <<>>
      /\ Blank.pendingReport = None /\ Blank.report = None /\ Blank.status = "COMMITTED"
      /\ Blank.history = <<>> /\ Blank.patch = FALSE /\ Blank.retest = FALSE /\ Blank.payout = FALSE
      /\ Blank.uncertainTransition = None
  <2>1. Fresh \in Snapshots
    BY DEF Fresh, Snapshots, Statuses
  <2>2. Blank \in Snapshots
    BY <2>1 DEF Blank, Snapshots
  <2>3. QED
    BY <2>2 DEF Blank, Fresh
<1>2. /\ t \in Snapshots /\ t.mode = "midnight" /\ t.contractAddress = FALSE
      /\ t.deploymentAttempt = TRUE
      /\ t.deploymentTransactionId = 0 /\ t.reportAttempts = <<>>
      /\ t.pendingReport = None /\ t.report = None /\ t.status = "COMMITTED"
      /\ t.history = <<>> /\ t.patch = FALSE /\ t.retest = FALSE /\ t.payout = FALSE
      /\ t.uncertainTransition = None
  BY <1>1 DEF Snapshots
<1> HIDE DEF t
<1>4. clean(t)
  BY <1>2 DEF clean
<1>5. Whole(t)
  BY <1>2, <1>4, WholeBy
<1>6. QED
  BY <1>1, <1>2, <1>5 DEF t

\* The deployment gets its identifier.
LEMMA WholeIdentified ==
  ASSUME NEW s, Whole(s), s.deploymentAttempt, NEW id \in Nat \ {0}
  PROVE  LET t == [s EXCEPT !.deploymentTransactionId = id]
         IN  /\ Whole(t) /\ t.deploymentAttempt /\ t.deploymentTransactionId = id
             /\ t.reportAttempts = s.reportAttempts
<1> DEFINE t == [s EXCEPT !.deploymentTransactionId = id]
<1>1. s \in Snapshots
  BY WholeIs
<1>2. /\ t \in Snapshots /\ t.mode = s.mode /\ t.contractAddress = s.contractAddress
      /\ t.deploymentAttempt = s.deploymentAttempt /\ t.deploymentTransactionId = id
      /\ t.reportAttempts = s.reportAttempts /\ t.pendingReport = s.pendingReport
      /\ t.report = s.report /\ t.status = s.status /\ t.history = s.history
      /\ t.patch = s.patch /\ t.retest = s.retest /\ t.payout = s.payout
      /\ t.uncertainTransition = s.uncertainTransition
  BY <1>1 DEF Snapshots
<1> HIDE DEF t
<1>3. clean(t) <=> clean(s)
  BY <1>2 DEF clean
<1>4. Whole(t)
  BY <1>2, <1>3, WholeIs, WholeBy
<1>5. QED
  BY <1>2, <1>4 DEF t

\* And becomes a program.
LEMMA WholeDeployed ==
  ASSUME NEW s, Whole(s), s.deploymentAttempt
  PROVE  LET t == [s EXCEPT !.deploymentAttempt = FALSE, !.contractAddress = TRUE]
         IN  /\ Whole(t) /\ t.deploymentTransactionId = s.deploymentTransactionId
             /\ t.reportAttempts = s.reportAttempts /\ t.contractAddress /\ t.reportAttempts = <<>>
<1> DEFINE t == [s EXCEPT !.deploymentAttempt = FALSE, !.contractAddress = TRUE]
<1>1. s \in Snapshots
  BY WholeIs
<1>2. /\ t \in Snapshots /\ t.mode = s.mode /\ t.contractAddress = TRUE
      /\ t.deploymentAttempt = FALSE /\ t.deploymentTransactionId = s.deploymentTransactionId
      /\ t.reportAttempts = s.reportAttempts /\ t.pendingReport = s.pendingReport
      /\ t.report = s.report /\ t.status = s.status /\ t.history = s.history
      /\ t.patch = s.patch /\ t.retest = s.retest /\ t.payout = s.payout
      /\ t.uncertainTransition = s.uncertainTransition
  BY <1>1 DEF Snapshots
<1> HIDE DEF t
<1>3. clean(t) <=> clean(s)
  BY <1>2 DEF clean
<1>4. Whole(t)
  BY <1>2, <1>3, WholeIs, WholeBy
<1>5. QED
  BY <1>2, <1>4, WholeIs DEF t

\* An empty history is a valid one.
LEMMA EmptyHistory ==
  ASSUME NEW s, s.history = <<>>, s.status = "COMMITTED",
         s.patch = FALSE, s.retest = FALSE, s.payout = FALSE
  PROVE  validHistory(s)
<1>1. Range(<<>>) = {} /\ \A i \in 2..Len(<<>>) : FALSE
  BY DEF Range
<1>2. ("PATCH_READY" \in Range(<<>>)) = FALSE /\ ("PAYOUT_AUTHORIZED" \in Range(<<>>)) = FALSE
  BY <1>1
<1>3. (\/ s.status \in {"RETEST_FAILED", "RETEST_PASSED", "PAYOUT_AUTHORIZED"}
       \/ s.status = "CLOSED" /\ "RETEST_PASSED" \in Range(<<>>)) = FALSE
  OBVIOUS
<1>4. QED
  BY <1>1, <1>2, <1>3 DEF validHistory

\* A finished report is put aside, unless something of it is unresolved.
LEMMA WholeReset ==
  ASSUME NEW s, Whole(s), s.report # None, s.uncertainTransition = None
  PROVE  LET t == [s EXCEPT !.report = None, !.pendingReport = None, !.status = "COMMITTED",
                            !.history = <<>>, !.patch = FALSE, !.retest = FALSE, !.payout = FALSE]
         IN  Whole(t) /\ SameJournal(s, t)
<1> DEFINE t == [s EXCEPT !.report = None, !.pendingReport = None, !.status = "COMMITTED",
                          !.history = <<>>, !.patch = FALSE, !.retest = FALSE, !.payout = FALSE]
<1>1. s \in Snapshots
  BY WholeIs
<1>2. /\ t \in Snapshots /\ SameJournal(s, t) /\ t.report = None /\ t.pendingReport = None
      /\ t.status = "COMMITTED" /\ t.history = <<>> /\ ~t.patch /\ ~t.retest /\ ~t.payout
      /\ t.uncertainTransition = None
  <2>1. PICK c \in Statuses, h \in Seq(Statuses), no \in BOOLEAN :
            c = "COMMITTED" /\ h = <<>> /\ no = FALSE
    <3>1. "COMMITTED" \in Statuses /\ <<>> \in Seq(Statuses) /\ FALSE \in BOOLEAN
      BY DEF Statuses
    <3>2. QED
      BY <3>1
  <2>2. PICK u : u = [s EXCEPT !.report = None, !.pendingReport = None, !.status = c]
    OBVIOUS
  <2>3. /\ u \in Snapshots /\ SameJournal(s, u) /\ u.report = None /\ u.pendingReport = None
        /\ u.status = c /\ u.uncertainTransition = s.uncertainTransition
    BY <1>1, <2>2 DEF Snapshots, SameJournal
  <2>4. t = [u EXCEPT !.history = h, !.patch = no, !.retest = no, !.payout = no]
    BY <2>1, <2>2
  <2> HIDE DEF t
  <2>5. /\ t \in Snapshots /\ SameJournal(u, t) /\ t.report = u.report
        /\ t.pendingReport = u.pendingReport /\ t.uncertainTransition = u.uncertainTransition
        /\ t.status = u.status /\ t.history = h /\ t.patch = no /\ t.retest = no /\ t.payout = no
    BY <2>3, <2>4 DEF Snapshots, SameJournal
  <2>6. QED
    BY <2>1, <2>3, <2>5 DEF SameJournal
<1> HIDE DEF t
<1>3. clean(t)
  BY <1>2 DEF clean
<1>4. validHistory(t)
  <2>1. t.patch \in BOOLEAN /\ t.retest \in BOOLEAN /\ t.payout \in BOOLEAN
    BY <1>2 DEF Snapshots
  <2>2. QED
    BY <1>2, <2>1, EmptyHistory
<1>5. t.reportAttempts # <<>> => Shows(t)
  <2>1. ASSUME t.reportAttempts # <<>>, latest(t).outcome = "unknown" PROVE FALSE
    <3>1. latest(s) = latest(t) /\ s.reportAttempts # <<>> /\ Shows(s) /\ latest(s) \in Attempts
      <4>1. s.reportAttempts \in Seq(Attempts) /\ s.reportAttempts # <<>> /\ Shows(s)
        BY <1>2, <2>1, WholeIs DEF SameJournal
      <4>2. latest(s) \in Attempts
        BY <4>1 DEF latest, Last
      <4>3. QED
        BY <1>2, <4>1, <4>2 DEF SameJournal, latest
    <3>2. latest(s).circuit # None /\ latest(s).reportId \in Reports
      BY <3>1, SessionConstants DEF Attempts
    <3>3. latest(s).circuit = "submitReport"
      BY <2>1, <3>1, <3>2 DEF Shows
    <3>4. s.pendingReport = [id |-> latest(s).reportId, submissionStarted |-> TRUE]
      BY <2>1, <3>1, <3>3 DEF Shows
    <3>5. s.pendingReport # None
      <4>1. s.pendingReport \in [id : Reports, submissionStarted : BOOLEAN]
        BY <3>2, <3>4
      <4>2. QED
        BY <4>1, SessionConstants
    <3>6. QED
      BY <3>5, WholeIs DEF clean
  <2>2. QED
    BY <2>1 DEF Shows
<1>6. ~s.deploymentAttempt
  BY WholeIs DEF clean
<1>7. Whole(t)
  BY <1>2, <1>3, <1>4, <1>5, <1>6, WholeIs, WholeBy DEF SameJournal
<1>8. QED
  BY <1>2, <1>7 DEF t

\* What the ledger says of the report replaces its commitments.
LEMMA WholeRefreshed ==
  ASSUME NEW s, Whole(s), s.contractAddress, s.report # None,
         NEW p \in BOOLEAN, NEW r \in BOOLEAN, NEW y \in BOOLEAN
  PROVE  LET t == [s EXCEPT !.patch = p, !.retest = r, !.payout = y]
         IN  Whole(t) /\ SameJournal(s, t)
<1> DEFINE t == [s EXCEPT !.patch = p, !.retest = r, !.payout = y]
<1>1. s \in Snapshots /\ s.mode = "midnight" /\ ~s.deploymentAttempt
  BY WholeIs
<1>2. /\ t \in Snapshots /\ SameJournal(s, t) /\ t.pendingReport = s.pendingReport
      /\ t.report = s.report /\ t.status = s.status /\ t.history = s.history
      /\ t.uncertainTransition = s.uncertainTransition
  BY <1>1 DEF Snapshots, SameJournal
<1> HIDE DEF t
<1>3. t.pendingReport = None
  BY <1>2, WholeIs DEF clean
<1>4. t.reportAttempts # <<>> => Ordered(t.reportAttempts) /\ Shows(t)
  BY <1>2, WholeIs DEF SameJournal, Shows, latest
<1>5. Whole(t)
  BY <1>1, <1>2, <1>3, <1>4, WholeIs, WholeBy DEF SameJournal
<1>6. QED
  BY <1>2, <1>5 DEF t

\* A restore takes its report from the ledger.
LEMMA WholeRestored ==
  ASSUME NEW s, Whole(s), NEW l \in [Reports -> Records \cup {None}],
         joins(s) => verifyRecoveryLedger(s, l)
  PROVE  Whole(restored(s, l)) /\ SameJournal(s, restored(s, l))
<1>1. s \in Snapshots
  BY WholeIs
<1>2. CASE ~(s.mode = "midnight" /\ ~s.deploymentAttempt /\ s.report # None)
  BY <1>2 DEF restored, SameJournal
<1>3. CASE s.mode = "midnight" /\ ~s.deploymentAttempt /\ s.report # None
  <2>1. s.report \in Reports /\ s.contractAddress
    BY <1>3, WholeIs
  <2>2. PICK r : r = l[s.report]
    OBVIOUS
  <2>3. r \in Records
    BY <1>3, <2>1, <2>2 DEF joins, verifyRecoveryLedger
  <2>4. PICK t : t = restored(s, l)
    OBVIOUS
  <2>5. t = [s EXCEPT !.status = r.status, !.history = <<r.status>>,
                      !.patch = r.patch, !.retest = r.retest, !.payout = r.payout]
    BY <1>3, <2>2, <2>4 DEF restored
  <2>6. r.status \in Statuses /\ r.patch \in BOOLEAN /\ r.retest \in BOOLEAN /\ r.payout \in BOOLEAN
    BY <2>3 DEF Records
  <2>7. <<r.status>> \in Seq(Statuses) /\ Last(<<r.status>>) = r.status /\ <<r.status>> # <<>>
    BY <2>6 DEF Last
  <2>8. /\ t \in Snapshots /\ SameJournal(s, t) /\ t.pendingReport = s.pendingReport
        /\ t.report = s.report /\ t.status = r.status /\ t.history = <<r.status>>
        /\ t.uncertainTransition = s.uncertainTransition
    <3>1. PICK h \in Seq(Statuses) : h = <<r.status>>
      BY <2>7
    <3>2. QED
      BY <1>1, <2>5, <2>6, <3>1 DEF Snapshots, SameJournal
  <2>9. t.pendingReport = None
    BY <1>3, <2>8, WholeIs DEF clean
  <2>10. t.reportAttempts # <<>> => Ordered(t.reportAttempts) /\ Shows(t)
    BY <2>8, WholeIs DEF SameJournal, Shows, latest
  <2>11. Whole(t)
    BY <1>3, <2>1, <2>7, <2>8, <2>9, <2>10, WholeIs, WholeBy DEF SameJournal
  <2>12. QED
    BY <2>4, <2>8, <2>11
<1>4. QED
  BY <1>2, <1>3

\* A session of which nothing is used is the one that a tab starts with.
LEMMA UnusedIsFresh ==
  ASSUME NEW s, Whole(s), Unused(s)
  PROVE  s = Fresh
<1>1. s \in Snapshots
  BY WholeIs
<1>2. /\ s.mode = "guided-local" /\ s.deploymentAttempt = FALSE /\ s.contractAddress = FALSE
      /\ s.deploymentTransactionId = 0 /\ s.reportAttempts = <<>> /\ s.uncertainTransition = None
      /\ s.report = None /\ s.pendingReport = None /\ s.status = "COMMITTED" /\ s.history = <<>>
  BY WholeIs DEF Unused
<1>3. s.patch = FALSE /\ s.retest = FALSE /\ s.payout = FALSE
  BY <1>1, <1>2, WholeIs DEF clean, Snapshots
<1>4. QED
  BY <1>1, <1>2, <1>3, SnapshotIs DEF Fresh

\* The session that a tab starts with is whole.
LEMMA WholeFresh == Whole(Fresh)
<1>1. Fresh \in Snapshots /\ clean(Fresh)
  BY DEF Fresh, Snapshots, Statuses, clean
<1>2. validHistory(Fresh)
  BY EmptyHistory DEF Fresh
<1>3. QED
  BY <1>1, <1>2, WholeBy DEF Fresh

\* A history that starts with the submission and follows the circuits.
Walk(h) ==
    /\ h # <<>> => h[1] = "COMMITTED"
    /\ \A i \in 2..Len(h) :
        \E c \in DOMAIN Circuits : h[i - 1] \in Circuits[c].from /\ h[i] \in Circuits[c].to

Retested(status, seen) ==
    \/ status \in {"RETEST_FAILED", "RETEST_PASSED", "PAYOUT_AUTHORIZED"}
    \/ status = "CLOSED" /\ "RETEST_PASSED" \in seen

\* Validation of a history, with its commitments as conditions.
LEMMA HistoryValid ==
  ASSUME NEW s, s.patch \in BOOLEAN, s.retest \in BOOLEAN, s.payout \in BOOLEAN
  PROVE  validHistory(s) <=>
             /\ Walk(s.history)
             /\ s.patch <=> "PATCH_READY" \in Range(s.history)
             /\ s.retest <=> Retested(s.status, Range(s.history))
             /\ s.payout <=> "PAYOUT_AUTHORIZED" \in Range(s.history)
<1> DEFINE seen == Range(s.history)
<1>1. (s.patch = ("PATCH_READY" \in seen)) <=> (s.patch <=> "PATCH_READY" \in seen)
  <2> HIDE DEF seen
  <2>1. CASE "PATCH_READY" \in seen
    <3>1. ("PATCH_READY" \in seen) = TRUE
      BY <2>1
    <3>2. QED
      BY <3>1
  <2>2. CASE "PATCH_READY" \notin seen
    <3>1. ("PATCH_READY" \in seen) = FALSE
      BY <2>2
    <3>2. QED
      BY <3>1
  <2>3. QED
    BY <2>1, <2>2
<1>2. (s.payout = ("PAYOUT_AUTHORIZED" \in seen)) <=> (s.payout <=> "PAYOUT_AUTHORIZED" \in seen)
  <2> HIDE DEF seen
  <2>1. CASE "PAYOUT_AUTHORIZED" \in seen
    <3>1. ("PAYOUT_AUTHORIZED" \in seen) = TRUE
      BY <2>1
    <3>2. QED
      BY <3>1
  <2>2. CASE "PAYOUT_AUTHORIZED" \notin seen
    <3>1. ("PAYOUT_AUTHORIZED" \in seen) = FALSE
      BY <2>2
    <3>2. QED
      BY <3>1
  <2>3. QED
    BY <2>1, <2>2
<1>3. (s.retest = Retested(s.status, seen)) <=> (s.retest <=> Retested(s.status, seen))
  <2>1. CASE Retested(s.status, seen)
    <3>1. Retested(s.status, seen) = TRUE
      BY <2>1 DEF Retested
    <3>2. QED
      BY <3>1
  <2>2. CASE ~Retested(s.status, seen)
    <3>1. Retested(s.status, seen) = FALSE
      BY <2>2 DEF Retested
    <3>2. QED
      BY <3>1
  <2>3. QED
    BY <2>1, <2>2
<1>4. validHistory(s) <=>
         /\ Walk(s.history)
         /\ s.patch = ("PATCH_READY" \in seen)
         /\ s.retest = Retested(s.status, seen)
         /\ s.payout = ("PAYOUT_AUTHORIZED" \in seen)
  BY DEF validHistory, Walk, Retested
<1>5. QED
  BY <1>1, <1>2, <1>3, <1>4

\* What the last stage says of the ones before, without going through them all:
\* a payout has its retest before it and at most the closing behind it, and a
\* rejected report has three stages.
LEMMA WalkFacts ==
  ASSUME NEW h \in Seq(Statuses), h # <<>>, Walk(h)
  PROVE  /\ Last(h) \notin {"PAYOUT_AUTHORIZED", "CLOSED"} => "PAYOUT_AUTHORIZED" \notin Range(h)
         /\ Last(h) = "PAYOUT_AUTHORIZED" =>
                "RETEST_PASSED" \in Range(h) /\ "PAYOUT_AUTHORIZED" \in Range(h)
         /\ Last(h) = "REJECTED" => "RETEST_PASSED" \notin Range(h)
<1> DEFINE m == Len(h)
<1>1. m \in Nat \ {0} /\ DOMAIN h = 1..m /\ Last(h) = h[m] /\ h[1] = "COMMITTED"
  BY DEF Walk, Last
<1>r. Range(h) = {h[i] : i \in 1..m}
  BY <1>1 DEF Range
<1>2. ASSUME NEW i \in 1..m, i # 1
      PROVE  /\ i - 1 \in 1..m
             /\ h[i - 1] # "CLOSED"
             /\ h[i - 1] = "PAYOUT_AUTHORIZED" => h[i] = "CLOSED"
             /\ h[i] = "PAYOUT_AUTHORIZED" => h[i - 1] = "RETEST_PASSED"
             /\ h[i] = "REJECTED" => h[i - 1] = "TRIAGED"
             /\ h[i] = "TRIAGED" => h[i - 1] = "COMMITTED"
             /\ h[i] # "COMMITTED"
  <2>1. i \in 2..m /\ i - 1 \in 1..m
    BY <1>1, <1>2
  <2>2. PICK c \in DOMAIN Circuits : h[i - 1] \in Circuits[c].from /\ h[i] \in Circuits[c].to
    BY <2>1 DEF Walk
  <2>3. PICK a \in Circuits[c].from, b \in Circuits[c].to : a = h[i - 1] /\ b = h[i]
    BY <2>2
  <2> HIDE DEF m
  <2>4. QED
    BY <2>1, <2>3, WorkflowSteps
<1> HIDE DEF m
<1>3. ASSUME Last(h) \notin {"PAYOUT_AUTHORIZED", "CLOSED"}, NEW i \in 1..m, h[i] = "PAYOUT_AUTHORIZED"
      PROVE  FALSE
  <2>1. i # m
    BY <1>1, <1>3
  <2>2. i + 1 \in 1..m /\ i + 1 # 1 /\ (i + 1) - 1 = i
    BY <1>1, <2>1
  <2>3. h[i + 1] = "CLOSED"
    BY <1>2, <1>3, <2>2
  <2>4. CASE i + 1 = m
    BY <1>1, <1>3, <2>3, <2>4
  <2>5. CASE i + 1 # m
    <3>1. i + 2 \in 1..m /\ i + 2 # 1 /\ (i + 2) - 1 = i + 1
      BY <1>1, <2>2, <2>5
    <3>2. QED
      BY <1>2, <2>3, <3>1
  <2>6. QED
    BY <2>4, <2>5
<1>4. ASSUME Last(h) = "PAYOUT_AUTHORIZED"
      PROVE  "RETEST_PASSED" \in Range(h) /\ "PAYOUT_AUTHORIZED" \in Range(h)
  <2>1. m \in 1..m /\ m # 1
    <3>1. m \in 1..m
      BY <1>1
    <3>2. h[m] # h[1]
      BY <1>1, <1>4
    <3>3. QED
      BY <3>1, <3>2
  <2>2. h[m - 1] = "RETEST_PASSED" /\ m - 1 \in 1..m /\ h[m] = "PAYOUT_AUTHORIZED"
    BY <1>1, <1>2, <1>4, <2>1
  <2>3. QED
    BY <1>r, <2>1, <2>2
<1>5. ASSUME Last(h) = "REJECTED", NEW i \in 1..m, h[i] = "RETEST_PASSED"
      PROVE  FALSE
  <2>1. m \in 1..m /\ m # 1
    BY <1>1, <1>5
  <2>2. h[m - 1] = "TRIAGED" /\ m - 1 \in 1..m /\ m - 1 # 1
    BY <1>1, <1>2, <1>5, <2>1
  <2>3. h[(m - 1) - 1] = "COMMITTED" /\ (m - 1) - 1 \in 1..m
    BY <1>2, <2>2
  <2>4. (m - 1) - 1 = 1
    BY <1>2, <2>3
  <2>5. m = 3 /\ i \in {1, 2, 3}
    BY <1>1, <2>4
  <2>6. h[1] = "COMMITTED" /\ h[2] = "TRIAGED" /\ h[3] = "REJECTED"
    <3>1. m - 1 = 2
      BY <2>5
    <3>2. QED
      BY <1>1, <1>5, <2>2, <2>5, <3>1
  <2>7. QED
    BY <1>5, <2>5, <2>6
<1>6. QED
  BY <1>r, <1>3, <1>4, <1>5

\* A walk goes on along a circuit.
LEMMA WalkOn ==
  ASSUME NEW h \in Seq(Statuses), Walk(h), NEW c \in DOMAIN Circuits, NEW n \in Circuits[c].to,
         h = <<>> => n = "COMMITTED",
         h # <<>> => Last(h) \in Circuits[c].from
  PROVE  LET g == Append(h, n)
         IN  Walk(g) /\ Range(g) = Range(h) \cup {n}
<1> DEFINE g == Append(h, n)
           m == Len(h)
<1>1. /\ n \in Statuses /\ m \in Nat /\ DOMAIN h = 1..m /\ Len(g) = m + 1 /\ DOMAIN g = 1..(m + 1)
      /\ g[m + 1] = n /\ \A i \in 1..m : g[i] = h[i]
      /\ m # 0 <=> h # <<>>
  BY Workflow
<1> HIDE DEF g, m
<1>2. Range(g) = Range(h) \cup {n}
  <2>1. Range(g) = {g[i] : i \in 1..(m + 1)} /\ Range(h) = {h[i] : i \in 1..m}
    BY <1>1 DEF Range
  <2>2. 1..(m + 1) = 1..m \cup {m + 1}
    BY <1>1
  <2>3. QED
    BY <1>1, <2>1, <2>2
<1>3. g[1] = "COMMITTED"
  <2>1. CASE m = 0
    BY <1>1, <2>1
  <2>2. CASE m # 0
    <3>1. 1 \in 1..m /\ h[1] = "COMMITTED"
      BY <1>1, <2>2 DEF Walk
    <3>2. QED
      BY <1>1, <3>1
  <2>3. QED
    BY <2>1, <2>2
<1>4. ASSUME NEW i \in 2..(m + 1)
      PROVE  \E d \in DOMAIN Circuits : g[i - 1] \in Circuits[d].from /\ g[i] \in Circuits[d].to
  <2>1. CASE i = m + 1
    <3>1. m # 0 /\ m \in 1..m /\ i - 1 = m
      BY <1>1, <2>1
    <3>2. g[i - 1] = Last(h)
      BY <1>1, <3>1 DEF Last, m
    <3>3. QED
      BY <1>1, <2>1, <3>1, <3>2
  <2>2. CASE i # m + 1
    <3>1. i \in 2..m /\ i \in 1..m /\ i - 1 \in 1..m
      BY <1>1, <2>2
    <3>2. g[i - 1] = h[i - 1] /\ g[i] = h[i]
      BY <1>1, <3>1
    <3>3. QED
      BY <3>1, <3>2 DEF Walk, m
  <2>3. QED
    BY <2>1, <2>2
<1>5. QED
  BY <1>1, <1>2, <1>3, <1>4 DEF Walk, g

\* A guided operation leaves a whole session.
LEMMA WholeGuided ==
  ASSUME NEW s, Whole(s), s.mode = "guided-local",
         NEW c \in DOMAIN Circuits, NEW n \in Circuits[c].to,
         IF c = "submitReport"
         THEN s.report = None /\ s.pendingReport \in [id : Reports, submissionStarted : BOOLEAN]
         ELSE s.report # None /\ s.status \in Circuits[c].from
  PROVE  LET t == shown(s, c, n)
         IN  Whole(t) /\ SameJournal(s, t)
<1> DEFINE t == shown(s, c, n)
           seen == Range(s.history)
<1>1. /\ s \in Snapshots /\ ~s.deploymentAttempt /\ ~s.contractAddress /\ s.reportAttempts = <<>>
      /\ s.uncertainTransition = None /\ validHistory(s)
  BY WholeIs
<1>2. /\ s.history \in Seq(Statuses) /\ s.patch \in BOOLEAN /\ s.retest \in BOOLEAN
      /\ s.payout \in BOOLEAN /\ s.status \in Statuses
  BY <1>1 DEF Snapshots
<1>3. n \in Statuses
  BY Workflow
<1>4. /\ t \in Snapshots /\ SameJournal(s, t)
      /\ t.status = n /\ t.history = Append(s.history, n)
      /\ t.report = (IF c = "submitReport" THEN s.pendingReport.id ELSE s.report)
      /\ t.pendingReport = (IF c = "submitReport" THEN None ELSE s.pendingReport)
      /\ t.uncertainTransition = s.uncertainTransition
      /\ c # "anchorPatch" => t.patch = s.patch
      /\ c \notin {"anchorPatch", "submitRetest"} => t.retest = s.retest
      /\ c \notin {"anchorPatch", "authorizePayout"} => t.payout = s.payout
      /\ c = "anchorPatch" => ~t.retest /\ ~t.payout
      /\ c = "anchorPatch" => t.patch
      /\ c = "submitRetest" => t.retest
      /\ c = "authorizePayout" => t.payout
  <2>1. c = "submitReport" => s.pendingReport \in [id : Reports, submissionStarted : BOOLEAN]
    OBVIOUS
  <2>2. QED
    BY <1>1, <1>3, <2>1, ShownFields
<1> HIDE DEF t
<1>5. /\ Walk(s.history)
      /\ s.patch <=> "PATCH_READY" \in seen
      /\ s.retest <=> Retested(s.status, seen)
      /\ s.payout <=> "PAYOUT_AUTHORIZED" \in seen
  BY <1>1, <1>2, HistoryValid
<1>6. /\ c = "submitReport" => s.history = <<>> /\ s.status = "COMMITTED" /\ n = "COMMITTED" /\ clean(s)
      /\ c # "submitReport" => /\ s.history # <<>> /\ Last(s.history) = s.status
                               /\ s.status \in Circuits[c].from /\ s.report # None
  BY WholeIs, Workflow
<1>7. Walk(t.history) /\ Range(t.history) = seen \cup {n}
  <2>1. /\ s.history = <<>> => n = "COMMITTED"
        /\ s.history # <<>> => Last(s.history) \in Circuits[c].from
    BY <1>6
  <2>2. QED
    BY <1>2, <1>4, <1>5, <2>1, WalkOn
<1>8. s.history # <<>> =>
         /\ s.status \notin {"PAYOUT_AUTHORIZED", "CLOSED"} => "PAYOUT_AUTHORIZED" \notin seen
         /\ s.status = "PAYOUT_AUTHORIZED" => "RETEST_PASSED" \in seen /\ "PAYOUT_AUTHORIZED" \in seen
         /\ s.status = "REJECTED" => "RETEST_PASSED" \notin seen
  BY <1>2, <1>5, <1>6, WalkFacts
<1>9. c = "submitReport" => seen = {}
  BY <1>6 DEF Range
<1> HIDE DEF seen
<1>10. /\ t.patch <=> "PATCH_READY" \in seen \cup {n}
       /\ t.retest <=> Retested(n, seen \cup {n})
       /\ t.payout <=> "PAYOUT_AUTHORIZED" \in seen \cup {n}
  <2>1. CASE c = "submitReport"
    BY <1>4, <1>5, <1>6, <1>9, <2>1 DEF Retested
  <2>2. CASE c # "submitReport"
    <3>1. PICK a \in Circuits[c].from : a = s.status
      BY <1>6, <2>2
    <3>2. \/ c = "beginTriage" /\ a = "COMMITTED" /\ n = "TRIAGED"
          \/ c = "acceptReport" /\ a = "TRIAGED" /\ n = "ACCEPTED"
          \/ c = "rejectReport" /\ a = "TRIAGED" /\ n = "REJECTED"
          \/ c = "anchorPatch" /\ a \in {"ACCEPTED", "RETEST_FAILED"} /\ n = "PATCH_READY"
          \/ c = "submitRetest" /\ a = "PATCH_READY" /\ n \in {"RETEST_PASSED", "RETEST_FAILED"}
          \/ c = "authorizePayout" /\ a = "RETEST_PASSED" /\ n = "PAYOUT_AUTHORIZED"
          \/ c = "closeReport" /\ a \in {"REJECTED", "PAYOUT_AUTHORIZED"} /\ n = "CLOSED"
      BY WorkflowSteps
    <3>3. CASE c \in {"beginTriage", "acceptReport", "rejectReport"}
      BY <1>4, <1>5, <3>1, <3>2, <3>3 DEF Retested
    <3>4. CASE c = "anchorPatch"
      BY <1>4, <1>5, <1>6, <1>8, <2>2, <3>1, <3>2, <3>4 DEF Retested
    <3>5. CASE c = "submitRetest"
      BY <1>4, <1>5, <3>1, <3>2, <3>5 DEF Retested
    <3>6. CASE c = "authorizePayout"
      BY <1>4, <1>5, <3>1, <3>2, <3>6 DEF Retested
    <3>7. CASE c = "closeReport"
      BY <1>4, <1>5, <1>6, <1>8, <2>2, <3>1, <3>2, <3>7 DEF Retested
    <3>8. QED
      BY <3>2, <3>3, <3>4, <3>5, <3>6, <3>7
  <2>3. QED
    BY <2>1, <2>2
<1>11. validHistory(t)
  <2>1. t.patch \in BOOLEAN /\ t.retest \in BOOLEAN /\ t.payout \in BOOLEAN
    BY <1>4 DEF Snapshots
  <2>2. /\ t.patch <=> "PATCH_READY" \in Range(t.history)
        /\ t.retest <=> Retested(t.status, Range(t.history))
        /\ t.payout <=> "PAYOUT_AUTHORIZED" \in Range(t.history)
    BY <1>4, <1>7, <1>10
  <2>3. QED
    BY <1>7, <2>1, <2>2, HistoryValid
<1>12. t.report # None /\ t.pendingReport = None
  BY <1>4, <1>6, SessionConstants, WholeIs DEF clean
<1>13. t.history # <<>> /\ Last(t.history) = t.status
  BY <1>2, <1>3, <1>4 DEF Last
<1>14. Whole(t)
  BY <1>1, <1>4, <1>11, <1>12, <1>13, WholeIs, WholeBy DEF SameJournal
<1>15. QED
  BY <1>4, <1>14 DEF t
-----------------------------------------------------------------------------
(* The session, its operation and its SDK call.                            *)

\* The connected session without a program, by its fields.
LEMMA BlankIs ==
  /\ Blank \in Snapshots /\ Blank.mode = "midnight" /\ ~Blank.contractAddress
  /\ ~Blank.deploymentAttempt /\ Blank.deploymentTransactionId = 0 /\ Blank.reportAttempts = <<>>
  /\ Blank.report = None /\ Blank.pendingReport = None /\ Blank.uncertainTransition = None
<1>1. Fresh \in Snapshots
  BY DEF Fresh, Snapshots, Statuses
<1>2. Blank \in Snapshots
  BY <1>1 DEF Blank, Snapshots
<1>3. QED
  BY <1>2 DEF Blank, Fresh

\* A session is a snapshot; it has a journal only with a program.
LEMMA SessionIs ==
  ASSUME SessionInv
  PROVE  /\ session \in Snapshots /\ session.reportAttempts \in Seq(Attempts)
         /\ session.deploymentAttempt \/ session.contractAddress \/ session.mode = "guided-local"
            => Whole(session)
         /\ session.mode \in {"guided-local", "midnight"}
         /\ session.deploymentAttempt => ~session.contractAddress
         /\ ~session.contractAddress => session.reportAttempts = <<>>
         /\ ~session.contractAddress /\ ~session.deploymentAttempt =>
                session.deploymentTransactionId = 0 /\ sdk = {}
<1>1. CASE Whole(session)
  <2>1. /\ session \in Snapshots /\ session.reportAttempts \in Seq(Attempts)
        /\ session.mode \in {"guided-local", "midnight"}
        /\ session.deploymentAttempt => ~session.contractAddress
        /\ ~session.contractAddress => session.reportAttempts = <<>>
        /\ ~session.contractAddress /\ ~session.deploymentAttempt => session.deploymentTransactionId = 0
    BY <1>1, WholeIs
  <2>2. QED
    BY <1>1, <2>1 DEF SessionInv, Calling, Awaited, Journaled
<1>2. CASE session = Blank
  <2>1. sdk = {}
    BY <1>2, BlankIs DEF SessionInv, Calling, Awaited, Journaled
  <2>2. session.reportAttempts \in Seq(Attempts)
    BY <1>2, BlankIs
  <2>3. QED
    BY <1>2, <2>1, <2>2, BlankIs
<1>3. QED
  BY <1>1, <1>2 DEF SessionInv, Sound

\* What keeps the tab busy is known from what it waits for.
LEMMA TaskIs ==
  ASSUME Busy
  PROVE  /\ task = Task("connect", "waiting") => Connecting
         /\ task = Task("deploy", "copying") => Deploying
         /\ task \in {Task("seal", "saving"), Task("seal", "uploading")} => Sealing
         /\ task # None /\ task.step = "digest" => Deciding
         /\ transacting => DeploymentUnderWay \/ ReportUnderWay
         /\ task = Task("refresh", "reading") => Refreshing
         /\ task # None /\ task.op = "import" => Importing
         /\ task = Task("recover", "joining") => Recovering
<1> DEFINE Is(t, op, step) == t # None /\ t.op = op /\ t.step = step /\ "call" \notin DOMAIN t
<1>1. /\ Is(Task("connect", "waiting"), "connect", "waiting")
      /\ Is(Task("deploy", "copying"), "deploy", "copying")
      /\ Is(Task("refresh", "reading"), "refresh", "reading")
      /\ Is(Task("recover", "joining"), "recover", "joining")
      /\ Is(Task("seal", "saving"), "seal", "saving")
      /\ Is(Task("seal", "uploading"), "seal", "uploading")
  <2>1. Is(Task("connect", "waiting"), "connect", "waiting")
    BY SessionConstants DEF Task
  <2>2. Is(Task("deploy", "copying"), "deploy", "copying")
    BY SessionConstants DEF Task
  <2>3. Is(Task("refresh", "reading"), "refresh", "reading")
    BY SessionConstants DEF Task
  <2>4. Is(Task("recover", "joining"), "recover", "joining")
    BY SessionConstants DEF Task
  <2>5. Is(Task("seal", "saving"), "seal", "saving")
    BY SessionConstants DEF Task
  <2>6. Is(Task("seal", "uploading"), "seal", "uploading")
    BY SessionConstants DEF Task
  <2> HIDE DEF Is
  <2>7. QED
    BY <2>1, <2>2, <2>3, <2>4, <2>5, <2>6
<1>2. /\ Connecting => Is(task, "connect", "waiting")
      /\ Deploying => Is(task, "deploy", "copying")
      /\ Refreshing => Is(task, "refresh", "reading")
      /\ Recovering => Is(task, "recover", "joining")
      /\ Sealing => Is(task, "seal", "saving") \/ Is(task, "seal", "uploading")
  <2> HIDE DEF Is
  <2>1. QED
    BY <1>1 DEF Connecting, Deploying, Refreshing, Recovering, Sealing
<1>4. Deciding => task.op = "transition" /\ task.step = "digest" /\ "call" \notin DOMAIN task
  <2>1. ASSUME Deciding PROVE task.op = "transition" /\ task.step = "digest" /\ "call" \notin DOMAIN task
    <3>1. PICK c \in Transitions : \E next \in Circuits[c].to :
            task = [op |-> "transition", step |-> "digest", circuit |-> c, next |-> next]
      BY <2>1 DEF Deciding
    <3>2. QED
      BY <3>1
  <2>2. QED
    BY <2>1
<1>5. DeploymentUnderWay => task.op = "deploy" /\ task.step \in {"sdk", "sent", "confirming"}
  <2>1. ASSUME DeploymentUnderWay PROVE task.op = "deploy" /\ task.step \in {"sdk", "sent", "confirming"}
    <3>1. PICK step \in {"sdk", "sent", "confirming"} : 
            task = [op |-> "deploy", step |-> step, call |-> task.call]
      BY <2>1 DEF DeploymentUnderWay
    <3>2. QED
      BY <3>1
  <2>2. QED
    BY <2>1
<1>6. ReportUnderWay => /\ task.op \in {"seal", "transition"}
                        /\ task.step \in {"intent", "sdk", "sent", "confirming"}
  <2>1. ASSUME ReportUnderWay
        PROVE  task.op \in {"seal", "transition"} /\ task.step \in {"intent", "sdk", "sent", "confirming"}
    <3>1. PICK step \in {"intent", "sdk", "sent", "confirming"}, op \in {"seal", "transition"} :
            task = [op |-> op, step |-> step, call |-> task.call]
      BY <2>1 DEF ReportUnderWay
    <3>2. task.op = op /\ task.step = step
      BY <3>1
    <3>3. QED
      BY <3>2
  <2>2. QED
    BY <2>1
<1>7. Importing => task.op = "import" /\ task.step \in {"reading", "installing"} /\ "call" \notin DOMAIN task
  <2>1. ASSUME Importing
        PROVE  task.op = "import" /\ task.step \in {"reading", "installing"} /\ "call" \notin DOMAIN task
    <3>1. PICK step \in {"reading", "installing"} : 
            task = [op |-> "import", step |-> step, copy |-> task.copy]
      BY <2>1 DEF Importing
    <3>2. QED
      BY <3>1
  <2>2. QED
    BY <2>1
<1>8. task = None => ~transacting
  BY DEF transacting
<1>9. transacting => "call" \in DOMAIN task
  BY DEF transacting
<1>10. task \in {Task("seal", "saving"), Task("seal", "uploading")} => Sealing
  BY <1>1, <1>2, <1>4, <1>5, <1>6, <1>7 DEF Busy
<1>11. /\ task = Task("connect", "waiting") => Connecting
       /\ task = Task("deploy", "copying") => Deploying
       /\ task = Task("refresh", "reading") => Refreshing
       /\ task = Task("recover", "joining") => Recovering
  BY <1>1, <1>2, <1>4, <1>5, <1>6, <1>7 DEF Busy
<1>12. /\ task # None /\ task.step = "digest" => Deciding
       /\ task # None /\ task.op = "import" => Importing
  BY <1>2, <1>4, <1>5, <1>6, <1>7 DEF Busy
<1>13. transacting => DeploymentUnderWay \/ ReportUnderWay
  BY <1>2, <1>4, <1>7, <1>8, <1>9 DEF Busy
<1>14. QED
  BY <1>10, <1>11, <1>12, <1>13

\* No identifier is given back.
LEMMA UnissuedStays ==
  ASSUME SessionInv, calls' = calls, sdk' \subseteq sdk,
         ~(transacting /\ task.step = "intent")'
  PROVE  Unissued' \subseteq Unissued
BY DEF Unissued

\* What is known stays known.
LEMMA KnownStays ==
  ASSUME NEW s, Known(s), Unissued' \subseteq Unissued
  PROVE  Known(s)'
BY DEF Known

\* A step that gives no identifier twice, and after which the session names
\* what it named.
Advances == Unissued' \subseteq Unissued /\ Grows(session, session')

\* A session with the same journal names the same transactions.
LEMMA SameGrows ==
  ASSUME NEW s, NEW t, SameJournal(s, t)
  PROVE  Grows(s, t)
BY DEF SameJournal, Grows

\* The session stays; an operation begins, goes on or ends.
LEMMA SessionWaits ==
  ASSUME SessionInv, UNCHANGED <<session, providers, pool, ledger, calls>>, sdk' \subseteq sdk,
         Busy', checkpointing' = None, Unissued' \subseteq Unissued
  PROVE  SessionInv' /\ Advances
<1>1. Sound'
  BY DEF SessionInv, Sound, Whole, clean, Known
<1>2. Calling'
  BY DEF SessionInv, Calling, Awaited, Journaled, latest
<1>3. Network'
  BY DEF SessionInv, Network
<1>4. Grows(session, session')
  BY DEF Grows
<1>5. QED
  BY <1>1, <1>2, <1>3, <1>4 DEF SessionInv, Checkpointing, Advances

\* The session changes, but not its deployment and journal.
LEMMA SessionChanges ==
  ASSUME SessionInv, UNCHANGED <<pool, ledger, calls, sdk>>, SameJournal(session, session'),
         Whole(session)', session.contractAddress => providers', providers' \in BOOLEAN,
         Busy', checkpointing' = None, Unissued' \subseteq Unissued
  PROVE  SessionInv' /\ Advances
<1>1. session' # Blank
  <2>1. PICK s : s = session'
    OBVIOUS
  <2>2. Whole(s)
    BY <2>1 DEF Whole, clean
  <2>3. QED
    BY <2>1, <2>2, BlankIs, WholeIs
<1>2. Sound'
  BY <1>1 DEF SessionInv, Sound, Known, SameJournal
<1>3. Calling'
  BY DEF SessionInv, Calling, Awaited, Journaled, latest, SameJournal
<1>4. Network'
  BY DEF SessionInv, Network
<1>5. Grows(session, session')
  BY DEF Grows, SameJournal
<1>6. QED
  BY <1>2, <1>3, <1>4, <1>5 DEF SessionInv, Checkpointing, Advances

\* What keeps the tab busy still does, if nothing of it changes.
LEMMA BusyStays ==
  ASSUME SessionInv, UNCHANGED <<session, providers, task, calls>>, sdk' \subseteq sdk,
         Unissued' \subseteq Unissued
  PROVE  Busy'
<1>1. Busy /\ (transacting' = transacting) /\ \A step : importing(step)' = importing(step)
  BY DEF SessionInv, importing, transacting
<1>2. (Connecting \/ Deploying \/ Sealing \/ Deciding \/ Recovering \/ Refreshing)
      => (Connecting \/ Deploying \/ Sealing \/ Deciding \/ Recovering \/ Refreshing)'
  BY DEF Connecting, Deploying, Sealing, Deciding, Recovering, Refreshing, Ready, Unused
<1>3. DeploymentUnderWay => DeploymentUnderWay'
  BY <1>1 DEF DeploymentUnderWay
<1>4. ReportUnderWay => ReportUnderWay'
  BY <1>1 DEF ReportUnderWay, Journaled, latest
<1>5. Importing => Importing'
  BY <1>1 DEF Importing, Known, Unused, Whole, clean
<1>6. QED
  BY <1>1, <1>2, <1>3, <1>4, <1>5 DEF Busy

\* Nothing of the session's changes.
LEMMA SessionStays ==
  ASSUME SessionInv, UNCHANGED <<local, network>>
  PROVE  SessionInv' /\ Advances
<1>1. UNCHANGED <<session, providers, task, checkpointing, sdk, calls, pool, ledger>>
  BY DEF local, network
<1>2. Unissued' = Unissued /\ transacting' = transacting
  BY <1>1 DEF Unissued, transacting
<1>3. Busy'
  BY <1>1, <1>2, BusyStays
<1>4. Sound' /\ Network'
  BY <1>1, <1>2 DEF SessionInv, Sound, Known, Network, Whole, clean
<1>5. Calling' /\ Checkpointing'
  BY <1>1, <1>2 DEF SessionInv, Calling, Awaited, Checkpointing, Marked, Journaled, latest
<1>6. Advances
  BY <1>1, <1>2 DEF Advances, Grows
<1>7. QED
  BY <1>3, <1>4, <1>5, <1>6 DEF SessionInv

\* Without a transaction no checkpoint waits.
LEMMA NoCheckpoint ==
  ASSUME SessionInv, ~transacting
  PROVE  checkpointing = None
BY DEF SessionInv, Checkpointing

\* What an ended operation leaves.
LEMMA EndKeeps ==
  ASSUME SessionInv, end, UNCHANGED <<session, providers, network>>, checkpointing' = None
  PROVE  SessionInv' /\ Advances
<1>1. task' = None /\ UNCHANGED <<pool, ledger, calls, sdk>>
  BY DEF end, network
<1>2. ~transacting' /\ Busy'
  BY <1>1 DEF transacting, Busy
<1>3. Unissued' \subseteq Unissued
  BY <1>1, <1>2, UnissuedStays
<1>4. QED
  BY <1>1, <1>2, <1>3, SessionWaits

\* The wallet is asked only before anything is used.
LEMMA ConnectWalletKeeps == SessionInv /\ connectWallet => SessionInv' /\ Advances
<1> SUFFICES ASSUME SessionInv, connectWallet PROVE SessionInv' /\ Advances
  OBVIOUS
<1>1. /\ task = None /\ task' = Task("connect", "waiting") /\ checkpointing' = checkpointing
      /\ UNCHANGED <<session, providers, pool, ledger, calls, sdk>>
      /\ ~providers /\ ~session.deploymentAttempt /\ session.report = None /\ session.pendingReport = None
  BY DEF connectWallet, begin, network, rest
<1>2. ~transacting /\ ~transacting'
  BY <1>1 DEF transacting, Task
<1>3. ~session.contractAddress
  BY <1>1 DEF SessionInv, Sound
<1>4. Busy'
  BY <1>1, <1>3 DEF Busy, Connecting, Unused
<1>5. Unissued' \subseteq Unissued
  BY <1>1, <1>2, UnissuedStays
<1>6. QED
  BY <1>1, <1>2, <1>4, <1>5, NoCheckpoint, SessionWaits

\* A program is created where there is none.
LEMMA CreateProgramKeeps == SessionInv /\ createProgram => SessionInv' /\ Advances
<1> SUFFICES ASSUME SessionInv, createProgram PROVE SessionInv' /\ Advances
  OBVIOUS
<1>1. /\ task = None /\ checkpointing' = checkpointing
      /\ UNCHANGED <<session, providers, pool, ledger, calls, sdk>>
      /\ ~session.deploymentAttempt /\ ~session.contractAddress
      /\ \/ task' = task
         \/ /\ task' = Task("deploy", "copying") /\ providers /\ session.mode # "guided-local"
            /\ calls < MaxSubmissions
  BY DEF createProgram, begin, network, rest
<1>2. ~transacting /\ ~transacting'
  BY <1>1 DEF transacting, Task
<1>3. session.mode # "guided-local" => session = Blank
  <2>1. session.mode \in {"guided-local", "midnight"}
    BY SessionIs
  <2>2. PICK s : s = session
    OBVIOUS
  <2>3. session.mode # "guided-local" => ~Whole(s)
    BY <1>1, <2>1, <2>2, WholeIs
  <2>4. QED
    BY <2>2, <2>3 DEF SessionInv, Sound
<1>4. Busy'
  BY <1>1, <1>3 DEF Busy, Deploying
<1>5. Unissued' \subseteq Unissued
  BY <1>1, <1>2, UnissuedStays
<1>6. QED
  BY <1>1, <1>2, <1>4, <1>5, NoCheckpoint, SessionWaits

\* A deployment or a preparation that fails leaves its session.
LEMMA FailureKeeps ==
  SessionInv /\ (deployFails \/ preparationFails \/ transitionFails \/ importFails) => SessionInv' /\ Advances
<1> SUFFICES ASSUME SessionInv, deployFails \/ preparationFails \/ transitionFails \/ importFails
             PROVE  SessionInv' /\ Advances
  OBVIOUS
<1>1. end /\ UNCHANGED <<session, providers, network, checkpointing>>
  BY DEF deployFails, preparationFails, transitionFails, importFails, rest
<1>2. ~transacting
  <2>1. CASE deployFails
    BY <2>1 DEF deployFails, transacting, Task
  <2>2. CASE preparationFails
    BY <2>2 DEF preparationFails, transacting, Task
  <2>3. CASE transitionFails
    <3>1. Deciding
      BY <2>3, TaskIs DEF SessionInv, transitionFails
    <3>2. QED
      BY <3>1 DEF Deciding, transacting
  <2>4. CASE importFails
    <3>1. Importing
      BY <2>4, TaskIs DEF SessionInv, importFails
    <3>2. QED
      BY <3>1 DEF Importing, transacting
  <2>5. QED
    BY <2>1, <2>2, <2>3, <2>4
<1>3. QED
  BY <1>1, <1>2, NoCheckpoint, EndKeeps

\* What was prepared is uploaded once it is saved.
LEMMA PreparationSavedKeeps == SessionInv /\ preparationSaved => SessionInv' /\ Advances
<1> SUFFICES ASSUME SessionInv, preparationSaved PROVE SessionInv' /\ Advances
  OBVIOUS
<1>1. /\ task = Task("seal", "saving") /\ task' = Task("seal", "uploading")
      /\ checkpointing' = checkpointing
      /\ UNCHANGED <<session, providers, pool, ledger, calls, sdk>>
  BY DEF preparationSaved, network, rest
<1>2. ~transacting /\ ~transacting'
  BY <1>1 DEF transacting, Task
<1>3. Sealing
  BY <1>1, TaskIs DEF SessionInv
<1>4. Busy'
  BY <1>1, <1>3 DEF Busy, Sealing, Ready
<1>5. Unissued' \subseteq Unissued
  BY <1>1, <1>2, UnissuedStays
<1>6. QED
  BY <1>1, <1>2, <1>4, <1>5, NoCheckpoint, SessionWaits

\* A transition begins at its stage, with nothing unresolved.
LEMMA ActionKeeps ==
  ASSUME SessionInv, NEW c \in Transitions, NEW next \in Circuits[c].to,
         vendorOrResearcherAction(c, next)
  PROVE  SessionInv' /\ Advances
<1>1. /\ task = None
      /\ task' = [op |-> "transition", step |-> "digest", circuit |-> c, next |-> next]
      /\ checkpointing' = checkpointing
      /\ UNCHANGED <<session, providers, pool, ledger, calls, sdk>>
      /\ session.uncertainTransition = None /\ session.report # None
      /\ session.status \in Circuits[c].from
      /\ session.mode = "midnight" => session.contractAddress
      /\ session.contractAddress => ~reportJournalBlocks(session.reportAttempts)
  BY DEF vendorOrResearcherAction, beginAction, begin, network, rest
<1>2. ~transacting /\ ~transacting'
  BY <1>1 DEF transacting
<1>3. Busy'
  BY <1>1 DEF Busy, Deciding, Ready
<1>4. Unissued' \subseteq Unissued
  BY <1>1, <1>2, UnissuedStays
<1>5. QED
  BY <1>1, <1>2, <1>3, <1>4, NoCheckpoint, SessionWaits

\* Commitments are read of a report of the program.
LEMMA RetryKeeps == SessionInv /\ retryPublicRead => SessionInv' /\ Advances
<1> SUFFICES ASSUME SessionInv, retryPublicRead PROVE SessionInv' /\ Advances
  OBVIOUS
<1>1. /\ task = None /\ task' = Task("refresh", "reading") /\ checkpointing' = checkpointing
      /\ UNCHANGED <<session, providers, pool, ledger, calls, sdk>>
      /\ session.contractAddress /\ session.report # None
  BY DEF retryPublicRead, begin, network
<1>2. ~transacting /\ ~transacting'
  BY <1>1 DEF transacting, Task
<1>3. Busy'
  BY <1>1 DEF Busy, Refreshing
<1>4. Unissued' \subseteq Unissued
  BY <1>1, <1>2, UnissuedStays
<1>5. QED
  BY <1>1, <1>2, <1>3, <1>4, NoCheckpoint, SessionWaits

\* A deployment with an identifier can be taken up.
LEMMA RecoverKeeps == SessionInv /\ recoverDeployment => SessionInv' /\ Advances
<1> SUFFICES ASSUME SessionInv, recoverDeployment PROVE SessionInv' /\ Advances
  OBVIOUS
<1>1. /\ task = None /\ task' = Task("recover", "joining") /\ checkpointing' = checkpointing
      /\ UNCHANGED <<session, providers, pool, ledger, calls, sdk>>
      /\ session.deploymentAttempt /\ session.deploymentTransactionId # 0
  BY DEF recoverDeployment, begin, network, rest
<1>2. ~transacting /\ ~transacting'
  BY <1>1 DEF transacting, Task
<1>3. Busy'
  BY <1>1 DEF Busy, Recovering
<1>4. Unissued' \subseteq Unissued
  BY <1>1, <1>2, UnissuedStays
<1>5. QED
  BY <1>1, <1>2, <1>3, <1>4, NoCheckpoint, SessionWaits

\* A copy is taken up as it was kept.
LEMMA ImportKeeps ==
  ASSUME SessionInv, RowsKept, NEW i \in DOMAIN rows, importRecovery(i)
  PROVE  SessionInv' /\ Advances
<1>1. /\ task = None
      /\ task' = [op |-> "import", step |-> "reading", copy |-> rows[i]]
      /\ checkpointing' = checkpointing
      /\ UNCHANGED <<session, providers, pool, ledger, calls, sdk>>
      /\ Unused(session)
  BY DEF importRecovery, begin, network, rest, Unused
<1>2. ~transacting /\ ~transacting'
  BY <1>1 DEF transacting
<1>3. Unissued' \subseteq Unissued
  BY <1>1, <1>2, UnissuedStays
<1>4. PICK copy : copy = rows[i]
  OBVIOUS
<1>5. Whole(copy) /\ Known(copy)'
  <2>1. Whole(copy) /\ Known(copy)
    BY <1>4 DEF RowsKept, Savable
  <2>2. QED
    BY <1>3, <2>1, KnownStays
<1>6. task'.copy = copy /\ task'.op = "import" /\ task'.step = "reading"
  BY <1>1, <1>4
<1>7. task' # None => Importing'
  BY <1>1, <1>4, <1>5, <1>6 DEF Importing, importing, Unused, Known
<1>8. Busy'
  BY <1>7 DEF Busy
<1>9. QED
  BY <1>1, <1>2, <1>3, <1>8, NoCheckpoint, SessionWaits

\* A wallet makes a session of the network out of an unused one.
LEMMA WalletKeeps == SessionInv /\ walletConnected => SessionInv' /\ Advances
<1> SUFFICES ASSUME SessionInv, walletConnected PROVE SessionInv' /\ Advances
  OBVIOUS
<1>1. /\ task = Task("connect", "waiting") /\ task' = None /\ checkpointing' = checkpointing
      /\ UNCHANGED <<pool, ledger, calls, sdk>>
      /\ \/ providers' = TRUE /\ session' = [session EXCEPT !.mode = "midnight"]
         \/ UNCHANGED <<session, providers>>
  BY DEF walletConnected, end, network
<1>2. ~transacting /\ ~transacting' /\ Busy'
  BY <1>1 DEF transacting, Task, Busy
<1>3. Unissued' \subseteq Unissued
  BY <1>1, <1>2, UnissuedStays
<1>4. CASE UNCHANGED <<session, providers>>
  BY <1>1, <1>2, <1>3, <1>4, NoCheckpoint, SessionWaits
<1>5. CASE providers' = TRUE /\ session' = [session EXCEPT !.mode = "midnight"]
  <2>1. Unused(session)
    BY <1>1, TaskIs DEF SessionInv, Connecting
  <2>2. session' = Blank
    <3>1. PICK s : s = session
      OBVIOUS
    <3>2. CASE Whole(s)
      BY <1>5, <2>1, <3>1, <3>2, UnusedIsFresh DEF Blank
    <3>3. CASE s = Blank
      <4>1. Blank = [Blank EXCEPT !.mode = "midnight"]
        BY BlankIs DEF Snapshots
      <4>2. QED
        BY <1>5, <3>1, <3>3, <4>1
    <3>4. QED
      BY <3>1, <3>2, <3>3 DEF SessionInv, Sound
  <2>3. sdk = {} /\ session.deploymentTransactionId = 0 /\ session.reportAttempts = <<>>
    BY <2>1, SessionIs DEF Unused
  <2>4. Sound'
    <3>1. Known(session)'
      BY <2>2, BlankIs DEF Known
    <3>2. providers' \in BOOLEAN
      BY <1>5
    <3>3. QED
      BY <1>5, <2>2, <3>1, <3>2 DEF Sound
  <2>5. Calling' /\ Network'
    BY <1>1, <2>3 DEF SessionInv, Calling, Network
  <2>6. Checkpointing'
    BY <1>1, <1>2, NoCheckpoint DEF Checkpointing
  <2>7. Grows(session, session')
    BY <2>3 DEF Grows
  <2>8. QED
    BY <1>2, <1>3, <2>4, <2>5, <2>6, <2>7 DEF SessionInv, Advances
<1>6. QED
  BY <1>1, <1>4, <1>5

\* The SDK is called for a deployment that is saved.
LEMMA DeployKeeps ==
  SessionInv /\ deploy => /\ SessionInv' /\ Advances
                          /\ Whole(session)' /\ session' = [session EXCEPT !.deploymentAttempt = TRUE]
                          /\ session'.reportAttempts = <<>>
<1> SUFFICES ASSUME SessionInv, deploy
             PROVE  /\ SessionInv' /\ Advances
                    /\ Whole(session)' /\ session' = [session EXCEPT !.deploymentAttempt = TRUE]
                    /\ session'.reportAttempts = <<>>
  OBVIOUS
<1> DEFINE call == [id |-> calls + 1, circuit |-> "constructor"]
<1>1. /\ task = Task("deploy", "copying") /\ task' = [op |-> "deploy", step |-> "sdk", call |-> call]
      /\ session' = [session EXCEPT !.deploymentAttempt = TRUE]
      /\ sdk' = sdk \cup {call} /\ calls' = calls + 1
      /\ UNCHANGED <<providers, checkpointing, pool, ledger>>
  BY DEF deploy
<1>2. session = Blank /\ providers /\ ~transacting /\ calls < MaxSubmissions
  <2>1. ~transacting
    BY <1>1 DEF transacting, Task
  <2>2. QED
    BY <1>1, <2>1, TaskIs DEF SessionInv, Deploying
<1>3. sdk = {} /\ calls \in Nat
  BY <1>2, BlankIs, SessionIs DEF SessionInv, Calling
<1>4. Whole(session)' /\ session'.deploymentAttempt /\ session'.deploymentTransactionId = 0
      /\ session'.reportAttempts = <<>> /\ session.reportAttempts = <<>>
      /\ session.deploymentTransactionId = 0
  <2>1. PICK t : t = [Blank EXCEPT !.deploymentAttempt = TRUE]
    OBVIOUS
  <2>2. Whole(t) /\ t.deploymentAttempt /\ t.deploymentTransactionId = 0 /\ t.reportAttempts = <<>>
    BY <2>1, WholeDeploying
  <2>3. session' = t
    BY <1>1, <1>2, <2>1
  <2>4. QED
    BY <1>2, <2>2, <2>3, BlankIs DEF Whole, clean
<1>5. call \in Deployments
  BY <1>3 DEF Deployments
<1> HIDE DEF call
<1>6. call.id = calls + 1 /\ task'.step # "intent" /\ task'.op = "deploy" /\ task'.call = call
  BY <1>1 DEF call
<1>7. Busy'
  BY <1>1, <1>2, <1>4, <1>5, <1>6 DEF Busy, DeploymentUnderWay, transacting
<1>8. Unissued' \subseteq Unissued
  <2>1. calls + 1 \in 1..MaxSubmissions
    BY <1>2, <1>3, SessionConstants
  <2>2. \A n \in 1..MaxSubmissions : n > calls + 1 => n > calls
    BY <1>3
  <2>3. QED
    BY <1>1, <1>3, <1>6, <2>1, <2>2 DEF Unissued
<1>9. Sound'
  BY <1>1, <1>2, <1>4 DEF SessionInv, Sound, Known
<1>10. Calling'
  <2>1. sdk' = {call} /\ calls' \in Nat /\ call.id = calls'
    BY <1>1, <1>3, <1>6
  <2>2. QED
    BY <1>4, <1>5, <2>1 DEF Calling, Awaited
<1>11. Checkpointing' /\ Network'
  BY <1>1, <1>2, NoCheckpoint DEF SessionInv, Checkpointing, Network
<1>12. Grows(session, session')
  BY <1>4 DEF Grows
<1>13. QED
  BY <1>1, <1>4, <1>7, <1>8, <1>9, <1>10, <1>11, <1>12 DEF SessionInv, Advances

\* A report is prepared.
LEMMA SubmitKeeps ==
  ASSUME SessionInv, NEW r \in Reports, submitSealedReport(r)
  PROVE  SessionInv' /\ Advances /\ Whole(session)'
<1>1. /\ task = None /\ task' \in {Task("seal", "saving"), Task("seal", "uploading")}
      /\ UNCHANGED <<providers, checkpointing, pool, ledger, calls, sdk>>
      /\ session.report = None
      /\ session' = [session EXCEPT !.pendingReport = [id |-> r, submissionStarted |-> FALSE]]
      /\ session.mode = "midnight" => session.contractAddress
      /\ session.contractAddress => ~reportJournalBlocks(session.reportAttempts)
  <2>1. beginAction(task')
    BY DEF submitSealedReport, beginAction, begin
  <2>2. task' \in {Task("seal", "saving"), Task("seal", "uploading")}
    BY DEF submitSealedReport, beginAction, begin
  <2>3. QED
    BY <2>1, <2>2 DEF submitSealedReport, beginAction, begin, network, rest
<1>2. PICK s : s = session
  OBVIOUS
<1>3. Whole(s) /\ ~unresolved(s.reportAttempts)
  <2>1. s # Blank
    BY <1>1, <1>2, BlankIs
  <2>2. Whole(s)
    BY <1>2, <2>1 DEF SessionInv, Sound
  <2>3. CASE s.contractAddress
    BY <1>1, <1>2, <2>2, <2>3 DEF reportJournalBlocks
  <2>4. CASE ~s.contractAddress
    <3>1. s.reportAttempts = <<>>
      BY <2>2, <2>4, WholeIs
    <3>2. QED
      BY <2>2, <3>1 DEF unresolved
  <2>5. QED
    BY <2>2, <2>3, <2>4
<1>4. PICK t : t = [s EXCEPT !.pendingReport = [id |-> r, submissionStarted |-> FALSE]]
  OBVIOUS
<1>5. /\ Whole(t) /\ SameJournal(s, t) /\ t.report = None
      /\ t.pendingReport = [id |-> r, submissionStarted |-> FALSE]
  BY <1>1, <1>2, <1>3, <1>4, WholePrepared
<1>6. session' = t
  BY <1>1, <1>2, <1>4
<1>7. ~transacting /\ ~transacting'
  BY <1>1 DEF transacting, Task
<1>8. Sealing'
  <2>1. Ready'
    BY <1>1, <1>2, <1>5, <1>6 DEF Ready, SameJournal
  <2>2. t.pendingReport \in [id : Reports, submissionStarted : {FALSE}]
    BY <1>5
  <2>3. QED
    BY <1>1, <1>5, <1>6, <2>1, <2>2 DEF Sealing
<1>9. Busy'
  BY <1>8 DEF Busy
<1>10. Unissued' \subseteq Unissued
  BY <1>1, <1>7, UnissuedStays
<1>11. Whole(session)' /\ SameJournal(session, session')
  BY <1>2, <1>5, <1>6 DEF Whole, clean
<1>12. (session.contractAddress => providers') /\ providers' \in BOOLEAN
  BY <1>1 DEF SessionInv, Sound
<1>13. QED
  BY <1>1, <1>7, <1>9, <1>10, <1>11, <1>12, NoCheckpoint, SessionChanges

\* What an operation at the network is about.
LEMMA AtNetwork ==
  ASSUME SessionInv, atNetwork
  PROVE  /\ Whole(session) /\ Ready /\ ~transacting
         /\ circuitOf \in DOMAIN Circuits /\ nextOf \in Circuits[circuitOf].to
         /\ reportOf(session) \in Reports
         /\ \/ /\ Sealing /\ task.op = "seal" /\ circuitOf = "submitReport" /\ nextOf = "COMMITTED"
               /\ session.report = None /\ reportOf(session) = session.pendingReport.id
            \/ /\ task.op = "transition" /\ circuitOf \in Transitions
               /\ session.report # None /\ reportOf(session) = session.report
               /\ session.status \in Circuits[circuitOf].from
<1>1. Sealing \/ Deciding
  BY TaskIs DEF SessionInv, atNetwork
<1>2. Ready /\ ~transacting
  <2>1. CASE Sealing
    BY <2>1 DEF Sealing, transacting, Task
  <2>2. CASE Deciding
    BY <2>2 DEF Deciding, transacting
  <2>3. QED
    BY <1>1, <2>1, <2>2
<1>3. Whole(session)
  BY <1>2, BlankIs DEF SessionInv, Sound, Ready
<1>4. CASE Sealing
  <2>1. task.op = "seal" /\ session.report = None
    BY <1>4 DEF Sealing, Task
  <2>2. session.pendingReport.id \in Reports
    BY <1>4 DEF Sealing
  <2>3. circuitOf = "submitReport" /\ nextOf = "COMMITTED" /\ reportOf(session) = session.pendingReport.id
    BY <2>1 DEF circuitOf, nextOf, reportOf
  <2>4. QED
    BY <1>2, <1>3, <1>4, <2>1, <2>2, <2>3, Workflow
<1>5. CASE Deciding
  <2>1. PICK c \in Transitions : \E next \in Circuits[c].to :
          /\ task = [op |-> "transition", step |-> "digest", circuit |-> c, next |-> next]
          /\ session.report # None /\ session.status \in Circuits[c].from
    BY <1>5 DEF Deciding
  <2>2. PICK next \in Circuits[c].to :
          task = [op |-> "transition", step |-> "digest", circuit |-> c, next |-> next]
    BY <2>1
  <2>3. task.op = "transition" /\ circuitOf = c /\ nextOf = next /\ reportOf(session) = session.report
    BY <2>1, <2>2 DEF circuitOf, nextOf, reportOf
  <2>4. session.report \in Reports
    <3>1. PICK s : s = session
      OBVIOUS
    <3>2. QED
      BY <1>3, <2>1, <3>1, WholeIs
  <2>5. QED
    BY <1>2, <1>3, <2>1, <2>2, <2>3, <2>4, Workflow
<1>6. QED
  BY <1>1, <1>4, <1>5

\* A guided operation is done at once.
LEMMA GuidedKeeps == SessionInv /\ finishGuided => SessionInv' /\ Advances
<1> SUFFICES ASSUME SessionInv, finishGuided PROVE SessionInv' /\ Advances
  OBVIOUS
<1>1. /\ atNetwork /\ ~session.contractAddress /\ task' = None
      /\ session' = shown(session, circuitOf, nextOf)
      /\ UNCHANGED <<providers, checkpointing, pool, ledger, calls, sdk>>
  BY DEF finishGuided, end, network, rest
<1>2. PICK s, c, n : s = session /\ c = circuitOf /\ n = nextOf
  OBVIOUS
<1>3. /\ Whole(s) /\ s.mode = "guided-local" /\ c \in DOMAIN Circuits /\ n \in Circuits[c].to
      /\ IF c = "submitReport"
         THEN s.report = None /\ s.pendingReport \in [id : Reports, submissionStarted : BOOLEAN]
         ELSE s.report # None /\ s.status \in Circuits[c].from
  <2>1. s.mode = "guided-local"
    BY <1>1, <1>2, AtNetwork, SessionIs DEF Ready
  <2>2. Sealing => s.pendingReport \in [id : Reports, submissionStarted : BOOLEAN]
    BY <1>2 DEF Sealing
  <2>3. "submitReport" \notin Transitions
    BY Workflow
  <2>4. QED
    BY <1>1, <1>2, <2>1, <2>2, <2>3, AtNetwork
<1>4. PICK t : t = shown(s, c, n)
  OBVIOUS
<1>5. Whole(t) /\ SameJournal(s, t)
  BY <1>3, <1>4, WholeGuided
<1>6. session' = t
  BY <1>1, <1>2, <1>4
<1>7. ~transacting /\ ~transacting' /\ Busy'
  BY <1>1, AtNetwork DEF transacting, Busy
<1>8. Unissued' \subseteq Unissued
  BY <1>1, <1>7, UnissuedStays
<1>9. Whole(session)' /\ SameJournal(session, session')
  BY <1>2, <1>5, <1>6 DEF Whole, clean
<1>10. (session.contractAddress => providers') /\ providers' \in BOOLEAN
  BY <1>1 DEF SessionInv, Sound
<1>11. QED
  BY <1>1, <1>7, <1>8, <1>9, <1>10, NoCheckpoint, SessionChanges

\* An operation at the network first records that its outcome is uncertain.
LEMMA UncertainIs ==
  ASSUME SessionInv, atNetwork, session.contractAddress, NEW u, u = uncertain
  PROVE  /\ Whole(u) /\ SameJournal(session, u) /\ reportOf(u) = reportOf(session)
         /\ IF circuitOf = "submitReport"
            THEN u.pendingReport = [id |-> reportOf(session), submissionStarted |-> TRUE]
            ELSE u.report = reportOf(session) /\ u.uncertainTransition = circuitOf
<1>1. PICK s, c, r : s = session /\ c = circuitOf /\ r = reportOf(session)
  OBVIOUS
<1>2. Whole(s) /\ s.contractAddress /\ ~unresolved(s.reportAttempts)
  BY <1>1, AtNetwork DEF Ready, reportJournalBlocks
<1>3. CASE /\ Sealing /\ task.op = "seal" /\ circuitOf = "submitReport"
           /\ session.report = None /\ reportOf(session) = session.pendingReport.id
  <2>1. u = [s EXCEPT !.pendingReport.submissionStarted = TRUE]
    BY <1>1, <1>3 DEF uncertain
  <2>2. s.pendingReport \in [id : Reports, submissionStarted : {FALSE}]
    BY <1>1, <1>3 DEF Sealing
  <2>3. s.report = None
    BY <1>1, <1>3
  <2>4. /\ Whole(u) /\ SameJournal(s, u) /\ u.report = None
        /\ u.pendingReport = [id |-> s.pendingReport.id, submissionStarted |-> TRUE]
    BY <1>2, <2>1, <2>2, <2>3, WholeStarted
  <2>5. QED
    BY <1>1, <1>3, <2>4 DEF reportOf
<1>4. CASE /\ task.op = "transition" /\ circuitOf \in Transitions
           /\ session.report # None /\ reportOf(session) = session.report
  <2>1. u = [s EXCEPT !.uncertainTransition = c] /\ c \in Transitions /\ c # "submitReport"
    BY <1>1, <1>4, Workflow DEF uncertain, circuitOf
  <2>2. Whole(u) /\ SameJournal(s, u) /\ u.report = s.report /\ u.uncertainTransition = c
    BY <1>1, <1>2, <1>4, <2>1, WholeUncertain
  <2>3. QED
    BY <1>1, <1>4, <2>1, <2>2 DEF reportOf
<1>5. QED
  BY <1>3, <1>4, AtNetwork

\* The attempt is journaled, still without an identifier, before the SDK is called.
LEMMA TransactionKeeps ==
  SessionInv /\ runReportTransaction => SessionInv' /\ Advances /\ Whole(session)'
<1> SUFFICES ASSUME SessionInv, runReportTransaction
             PROVE  SessionInv' /\ Advances /\ Whole(session)'
  OBVIOUS
<1>1. /\ atNetwork /\ session.contractAddress /\ ~transacting
      /\ UNCHANGED <<providers, checkpointing, pool, ledger, sdk>>
  BY AtNetwork DEF runReportTransaction
<1>2. PICK u : u = uncertain
  OBVIOUS
<1>3. /\ Whole(u) /\ SameJournal(session, u) /\ reportOf(u) = reportOf(session)
      /\ IF circuitOf = "submitReport"
         THEN u.pendingReport = [id |-> reportOf(session), submissionStarted |-> TRUE]
         ELSE u.report = reportOf(session) /\ u.uncertainTransition = circuitOf
  BY <1>1, <1>2, UncertainIs
<1>4. providers /\ checkpointing = None
  BY <1>1, NoCheckpoint DEF SessionInv, Sound
<1>5. CASE session' = uncertain /\ end /\ UNCHANGED calls
  <2>1. session' = u
    BY <1>2, <1>5
  <2>2. Whole(session)' /\ SameJournal(session, session')
    BY <1>3, <2>1 DEF Whole, clean
  <2>3. ~transacting' /\ Busy'
    BY <1>5 DEF end, transacting, Busy
  <2>4. Unissued' \subseteq Unissued
    BY <1>1, <1>5, <2>3, UnissuedStays
  <2>5. QED
    BY <1>1, <1>4, <1>5, <2>2, <2>3, <2>4, SessionChanges
<1> DEFINE call == [id |-> calls + 1, circuit |-> circuitOf, reportId |-> reportOf(session),
                    nextStatus |-> nextOf]
           a == [circuit |-> circuitOf, reportId |-> reportOf(session), nextStatus |-> nextOf,
                 transactionId |-> 0, outcome |-> "unknown"]
<1>6. CASE /\ calls < MaxSubmissions /\ calls' = call.id /\ session' = withAttempt(uncertain, 0)
           /\ task' = [op |-> task.op, step |-> "intent", call |-> call]
  <2>1. session' = [u EXCEPT !.reportAttempts = Append(@, a)]
    BY <1>2, <1>3, <1>6 DEF withAttempt
  <2>2. PICK c, r, n : c = circuitOf /\ r = reportOf(session) /\ n = nextOf
    OBVIOUS
  <2>3. ~reportJournalBlocks(u.reportAttempts) /\ u.contractAddress
    BY <1>1, <1>3, AtNetwork DEF Ready, SameJournal
  <2>4. c \in DOMAIN Circuits /\ r \in Reports /\ n \in Circuits[c].to /\ n \in Statuses
    <3>1. c \in DOMAIN Circuits /\ r \in Reports /\ n \in Circuits[c].to
      BY <1>1, <2>2, AtNetwork
    <3>2. QED
      BY <3>1, Workflow
  <2>5. IF c = "submitReport" THEN u.pendingReport = [id |-> r, submissionStarted |-> TRUE]
        ELSE u.report = r /\ u.uncertainTransition = c
    BY <1>3, <2>2
  <2>6. PICK b : b = [circuit |-> c, reportId |-> r, nextStatus |-> n,
                      transactionId |-> 0, outcome |-> "unknown"]
    OBVIOUS
  <2>7. PICK t : t = [u EXCEPT !.reportAttempts = Append(@, b)]
    OBVIOUS
  <2>8. Whole(t) /\ Attempted(u, t, b) /\ b \in Attempts
    BY <1>3, <2>3, <2>4, <2>5, <2>6, <2>7, WholeAttempted
  <2>9. session' = t
    BY <2>1, <2>2, <2>6, <2>7
  <2>10. /\ t.contractAddress /\ t.reportAttempts = Append(u.reportAttempts, b)
         /\ u.reportAttempts = session.reportAttempts /\ u.reportAttempts \in Seq(Attempts)
         /\ t.deploymentTransactionId = session.deploymentTransactionId
         /\ t.deploymentAttempt = session.deploymentAttempt /\ ~session.deploymentAttempt
    BY <1>1, <1>3, <2>3, <2>8, WholeIs, SessionIs DEF SameJournal, Attempted
  <2>11. /\ t.reportAttempts # <<>> /\ latest(t) = b
         /\ DOMAIN session.reportAttempts \subseteq DOMAIN t.reportAttempts
         /\ \A i \in DOMAIN session.reportAttempts : t.reportAttempts[i] = session.reportAttempts[i]
         /\ \A i \in DOMAIN t.reportAttempts :
               t.reportAttempts[i] = b \/ i \in DOMAIN session.reportAttempts
    BY <2>8, <2>10, AppendProperties DEF latest, Last
  <2>12. sdk = {} /\ calls \in Nat
    <3>1. \A i \in DOMAIN session.reportAttempts : session.reportAttempts[i].outcome # "unknown"
      BY <2>3, <2>10 DEF reportJournalBlocks, unresolved
    <3>2. session.reportAttempts # <<>> => latest(session).outcome # "unknown"
      BY <2>10, <3>1 DEF latest, Last
    <3>3. QED
      BY <2>10, <3>2 DEF SessionInv, Calling, Awaited, Journaled
  <2>13. PICK d : d = call
    OBVIOUS
  <2> HIDE DEF call, a
  <2>14. /\ d.id = calls + 1 /\ d.circuit = c /\ d.reportId = r /\ d.nextStatus = n
         /\ d \in ReportCalls /\ b.transactionId = 0 /\ b.circuit = c /\ b.reportId = r
         /\ b.nextStatus = n /\ b.outcome = "unknown"
    BY <2>2, <2>4, <2>6, <2>12, <2>13 DEF call, ReportCalls
  <2>15. /\ task.op \in {"seal", "transition"}
         /\ task.op = "seal" <=> d.circuit = "submitReport"
    BY <1>1, <2>2, <2>14, AtNetwork, Workflow
  <2>16. /\ task' = [op |-> task.op, step |-> "intent", call |-> d]
         /\ task'.op = task.op /\ task'.step = "intent" /\ task'.call = d
         /\ "call" \in DOMAIN task'
    BY <1>6, <2>13
  <2>17. Journaled(session', d) /\ latest(session)' = b
    <3>1. Journaled(t, d)
      BY <2>10, <2>11, <2>14 DEF Journaled
    <3>2. QED
      BY <2>9, <2>11, <3>1 DEF latest
  <2>18. Busy'
    <3>1. task' # None => ReportUnderWay'
      <4>1. task' # None => transacting'
        BY <2>16 DEF transacting
      <4>2. Journaled(session, task.call)'
        BY <2>16, <2>17 DEF Journaled, latest
      <4>3. sdk' = {} /\ latest(session)'.transactionId = 0 /\ d.id =< calls'
        BY <1>1, <1>6, <2>12, <2>13, <2>14, <2>17
      <4>4. task'.call \in ReportCalls
        BY <2>14, <2>16
      <4>5. QED
        BY <2>15, <2>16, <4>1, <4>2, <4>3, <4>4 DEF ReportUnderWay
    <3>2. QED
      BY <3>1 DEF Busy
  <2>19. Unissued' \subseteq Unissued
    <3>1. calls' = calls + 1 /\ d.id \in 1..MaxSubmissions /\ d.id > calls
      BY <1>6, <2>12, <2>13, <2>14, SessionConstants
    <3>2. QED
      BY <1>1, <2>12, <2>16, <3>1 DEF Unissued
  <2>20. Whole(session)'
    BY <2>8, <2>9 DEF Whole, clean
  <2>21. Sound'
    <3>1. Known(session)
      BY DEF SessionInv, Sound
    <3>2. 0 \notin Unissued'
      BY <1>1, <2>12, <2>14, <2>16, SessionConstants DEF Unissued
    <3>3. Known(session)'
      BY <2>8, <2>9, <2>10, <2>11, <2>14, <2>19, <3>1, <3>2 DEF Known
    <3>4. QED
      BY <1>1, <1>4, <2>20, <3>3 DEF Sound
  <2>22. Calling' /\ Checkpointing' /\ Network'
    BY <1>1, <1>4, <2>12, <1>6, <2>13, <2>14 DEF SessionInv, Calling, Checkpointing, Network
  <2>23. Grows(session, session')
    BY <2>9, <2>10, <2>11 DEF Grows
  <2>24. QED
    BY <2>18, <2>19, <2>20, <2>21, <2>22, <2>23 DEF SessionInv, Advances
<1>7. QED
  BY <1>1, <1>5, <1>6 DEF runReportTransaction

\* A transaction, by its parts.
DeploymentAt(step, c) ==
    /\ step \in {"sdk", "sent", "confirming"}
    /\ c \in Deployments
    /\ step # "confirming" => session.deploymentAttempt
    /\ step = "sent" => session.deploymentTransactionId # 0

ReportAt(op, step, c) ==
    /\ op \in {"seal", "transition"} /\ step \in {"intent", "sdk", "sent", "confirming"}
    /\ c \in ReportCalls
    /\ op = "seal" <=> c.circuit = "submitReport"
    /\ Journaled(session, c)
    /\ step = "intent" => sdk = {} /\ latest(session).transactionId = 0 /\ c.id =< calls
    /\ step \in {"sent", "confirming"} => latest(session).transactionId # 0

\* A transaction under way is one of a deployment or of a report.
LEMMA UnderWay ==
  ASSUME SessionInv, transacting
  PROVE  /\ task = [op |-> task.op, step |-> task.step, call |-> task.call]
         /\ providers
         /\ (task.op = "deploy" /\ task.step = "confirming") \/ Whole(session)
         /\ \/ task.op = "deploy" /\ DeploymentAt(task.step, task.call)
            \/ task.op # "deploy" /\ session.contractAddress /\ ReportAt(task.op, task.step, task.call)
<1>1. DeploymentUnderWay \/ ReportUnderWay
  BY TaskIs DEF SessionInv
<1>2. CASE DeploymentUnderWay
  <2>1. PICK step \in {"sdk", "sent", "confirming"} :
          /\ task = [op |-> "deploy", step |-> step, call |-> task.call]
          /\ task.op = "deploy" /\ task.call \in Deployments /\ providers
          /\ step # "confirming" => session.deploymentAttempt
          /\ step = "sent" => session.deploymentTransactionId # 0
    BY <1>2 DEF DeploymentUnderWay
  <2>2. task.step = step
    BY <2>1
  <2>3. DeploymentAt(task.step, task.call)
    BY <2>1, <2>2 DEF DeploymentAt
  <2>4. step # "confirming" => Whole(session)
    BY <2>1, SessionIs
  <2>5. QED
    BY <2>1, <2>2, <2>3, <2>4
<1>3. CASE ReportUnderWay
  <2>1. PICK step \in {"intent", "sdk", "sent", "confirming"}, op \in {"seal", "transition"} :
          /\ task = [op |-> op, step |-> step, call |-> task.call]
          /\ task.op = op /\ task.call \in ReportCalls
          /\ op = "seal" <=> task.call.circuit = "submitReport"
          /\ Journaled(session, task.call)
          /\ step = "intent" => sdk = {} /\ latest(session).transactionId = 0 /\ task.call.id =< calls
          /\ step \in {"sent", "confirming"} => latest(session).transactionId # 0
    BY <1>3 DEF ReportUnderWay
  <2>2. task.step = step
    BY <2>1
  <2>3. ReportAt(task.op, task.step, task.call)
    BY <2>1, <2>2 DEF ReportAt
  <2>4. session.contractAddress /\ providers
    BY <2>1 DEF Journaled, SessionInv, Sound
  <2>5. Whole(session) /\ task.op # "deploy"
    BY <2>1, <2>4, SessionIs
  <2>6. QED
    BY <2>1, <2>2, <2>3, <2>4, <2>5
<1>4. QED
  BY <1>1, <1>2, <1>3

\* And what has these parts keeps the tab busy.
LEMMA StaysUnderWay ==
  ASSUME NEW op, NEW step, NEW c, task' = [op |-> op, step |-> step, call |-> c], providers',
         \/ op = "deploy" /\ DeploymentAt(step, c)'
         \/ ReportAt(op, step, c)'
  PROVE  Busy'
<1>1. /\ task'.op = op /\ task'.step = step /\ task'.call = c
      /\ "call" \in DOMAIN task'
  OBVIOUS
<1>2. SUFFICES ASSUME task' # None PROVE Busy'
  BY DEF Busy
<1>3. transacting'
  BY <1>1, <1>2 DEF transacting
<1>4. CASE op = "deploy" /\ DeploymentAt(step, c)'
  <2>1. DeploymentUnderWay'
    BY <1>1, <1>3, <1>4 DEF DeploymentUnderWay, DeploymentAt
  <2>2. QED
    BY <2>1 DEF Busy
<1>5. CASE ReportAt(op, step, c)'
  <2>1. ReportUnderWay'
    BY <1>1, <1>3, <1>5 DEF ReportUnderWay, ReportAt, Journaled, latest
  <2>2. QED
    BY <2>1 DEF Busy
<1>6. QED
  BY <1>4, <1>5

\* The session with its whole journal stays, so that its invariant does.
LEMMA SoundStays ==
  ASSUME SessionInv, UNCHANGED <<session, providers>>, Unissued' \subseteq Unissued
  PROVE  Sound' /\ Grows(session, session')
BY DEF SessionInv, Sound, Known, Whole, clean, Grows

\* The SDK is called once the intent is saved.
LEMMA IntentKeeps == SessionInv /\ intentSaved => SessionInv' /\ Advances
<1> SUFFICES ASSUME SessionInv, intentSaved PROVE SessionInv' /\ Advances
  OBVIOUS
<1>1. /\ transacting /\ task.step = "intent" /\ task' = [task EXCEPT !.step = "sdk"]
      /\ sdk' = sdk \cup {task.call}
      /\ UNCHANGED <<session, providers, checkpointing, pool, ledger, calls>>
  BY DEF intentSaved, rest
<1>2. PICK op, c : op = task.op /\ c = task.call
  OBVIOUS
<1>3. /\ task = [op |-> op, step |-> "intent", call |-> c] /\ providers
      /\ ReportAt(op, "intent", c)
  BY <1>1, <1>2, UnderWay DEF DeploymentAt
<1>4. task' = [op |-> op, step |-> "sdk", call |-> c] /\ sdk = {} /\ sdk' = {c}
  BY <1>1, <1>2, <1>3 DEF ReportAt
<1>5. Busy'
  <2>1. ReportAt(op, "sdk", c)'
    BY <1>1, <1>3 DEF ReportAt, Journaled, latest
  <2>2. QED
    BY <1>1, <1>3, <1>4, <2>1, StaysUnderWay
<1>6. Unissued' \subseteq Unissued
  <2>1. task'.step = "sdk"
    BY <1>4
  <2>2. QED
    BY <1>1, <1>2, <1>4, <2>1 DEF Unissued
<1>7. Calling'
  BY <1>1, <1>3, <1>4 DEF SessionInv, Calling, Awaited, ReportAt, Journaled, latest
<1>8. Checkpointing' /\ Network'
  BY <1>1 DEF SessionInv, Checkpointing, Network
<1>9. QED
  BY <1>1, <1>5, <1>6, <1>7, <1>8, SoundStays DEF SessionInv, Advances

\* A failed transaction leaves its attempt unresolved.
LEMMA TransactionFailsKeeps == SessionInv /\ transactionFails => SessionInv' /\ Advances
BY EndKeeps DEF transactionFails

\* Once the checkpoint is saved, the transaction is with the wallet.
LEMMA CheckpointSavedKeeps ==
  SessionInv /\ checkpointSaved =>
      SessionInv' /\ Advances /\ Marked(session, checkpointing)
      /\ checkpointing \in Deployments \cup ReportCalls
<1> SUFFICES ASSUME SessionInv, checkpointSaved
             PROVE  /\ SessionInv' /\ Advances /\ Marked(session, checkpointing)
                    /\ checkpointing \in Deployments \cup ReportCalls
  OBVIOUS
<1>1. /\ transacting /\ task.step = "sdk" /\ task' = [task EXCEPT !.step = "sent"]
      /\ checkpointing # None /\ checkpointing' = None /\ pool' = pool \cup {checkpointing}
      /\ UNCHANGED <<session, providers, ledger, calls, sdk>>
  BY DEF checkpointSaved
<1>2. Marked(session, checkpointing) /\ checkpointing \in Deployments \cup ReportCalls
  BY <1>1 DEF SessionInv, Checkpointing, Marked
<1>3. PICK op, c : op = task.op /\ c = task.call
  OBVIOUS
<1>4. /\ task = [op |-> op, step |-> "sdk", call |-> c] /\ providers
      /\ \/ op = "deploy" /\ DeploymentAt("sdk", c)
         \/ op # "deploy" /\ session.contractAddress /\ ReportAt(op, "sdk", c)
  BY <1>1, <1>3, UnderWay
<1>5. task' = [op |-> op, step |-> "sent", call |-> c]
  BY <1>1, <1>4
<1>6. Busy'
  <2>1. CASE op = "deploy" /\ DeploymentAt("sdk", c)
    <3>1. session.deploymentAttempt /\ ~session.contractAddress
      BY <2>1, SessionIs DEF DeploymentAt
    <3>2. session.deploymentTransactionId # 0
      BY <1>2, <3>1 DEF Marked, Journaled, Deployments
    <3>3. DeploymentAt("sent", c)'
      BY <1>1, <2>1, <3>1, <3>2 DEF DeploymentAt
    <3>4. QED
      BY <1>1, <1>4, <1>5, <2>1, <3>3, StaysUnderWay
  <2>2. CASE session.contractAddress /\ ReportAt(op, "sdk", c)
    <3>1. ~session.deploymentAttempt
      BY <2>2, SessionIs
    <3>2. latest(session).transactionId # 0
      BY <1>2, <3>1 DEF Marked, ReportCalls
    <3>3. ReportAt(op, "sent", c)'
      BY <1>1, <2>2, <3>2 DEF ReportAt, Journaled, latest
    <3>4. QED
      BY <1>1, <1>4, <1>5, <3>3, StaysUnderWay
  <2>3. QED
    BY <1>4, <2>1, <2>2
<1>7. Unissued' \subseteq Unissued
  <2>1. task'.step = "sent"
    BY <1>5
  <2>2. QED
    BY <1>1, <2>1, UnissuedStays
<1>8. Calling'
  BY <1>1 DEF SessionInv, Calling, Awaited, Journaled, latest
<1>9. Checkpointing' /\ Network'
  BY <1>1, <1>2 DEF SessionInv, Checkpointing, Network
<1>10. QED
  BY <1>1, <1>2, <1>6, <1>7, <1>8, <1>9, SoundStays DEF SessionInv, Advances

\* What a call means to the session is not lost where the session stays.
LEMMA CallingStays ==
  ASSUME SessionInv, UNCHANGED <<session, calls>>, sdk' \subseteq sdk
  PROVE  Calling'
BY DEF SessionInv, Calling, Awaited, Journaled, latest

\* An SDK call reaches its checkpoint.  If its own transaction still waits, the
\* session takes its identifier over; otherwise it is forgotten.
LEMMA CheckpointKeeps ==
  ASSUME SessionInv, NEW call \in sdk, checkpointTransaction(call)
  PROVE  /\ SessionInv' /\ Advances
         /\ checkpointOpen => Whole(session)'
         /\ call \in Deployments \cup ReportCalls
<1>1. /\ checkpointing = None /\ sdk' = sdk \ {call}
      /\ UNCHANGED <<providers, task, pool, ledger, calls>>
      /\ \/ /\ checkpointOpen /\ checkpointing' = call
            /\ session' = IF task.op = "deploy"
                          THEN [session EXCEPT !.deploymentTransactionId = call.id]
                          ELSE [session EXCEPT !.reportAttempts[Len(session.reportAttempts)].transactionId = call.id]
         \/ ~checkpointOpen /\ UNCHANGED <<session, checkpointing>>
  BY DEF checkpointTransaction
<1>2. sdk' = {} /\ Awaited(call) /\ calls \in Nat /\ call.id =< calls /\ call.id \in Unissued
  BY <1>1 DEF SessionInv, Calling, Unissued
<1>3. call \in Deployments \cup ReportCalls
  BY <1>2 DEF Awaited
<1>4. Unissued' \subseteq Unissued
  BY <1>1, <1>2 DEF Unissued, transacting
<1>5. Network' /\ Calling'
  BY <1>1, <1>2 DEF SessionInv, Network, Calling
<1>6. CASE ~checkpointOpen /\ UNCHANGED <<session, checkpointing>>
  <2>1. Busy'
    BY <1>1, <1>4, <1>6, BusyStays
  <2>2. Checkpointing'
    BY <1>1, <1>6 DEF Checkpointing
  <2>3. QED
    BY <1>1, <1>3, <1>4, <1>5, <1>6, <2>1, <2>2, SoundStays DEF SessionInv, Advances
<1>7. CASE checkpointOpen /\ checkpointing' = call /\ task.op = "deploy"
           /\ session' = [session EXCEPT !.deploymentTransactionId = call.id]
  <2>1. transacting /\ task.step = "sdk" /\ session.deploymentTransactionId = 0
    BY <1>7 DEF checkpointOpen
  <2>2. PICK c : c = task.call
    OBVIOUS
  <2>3. task = [op |-> "deploy", step |-> "sdk", call |-> c] /\ providers
        /\ DeploymentAt("sdk", c) /\ session.deploymentAttempt
    BY <1>7, <2>1, <2>2, UnderWay DEF DeploymentAt
  <2>4. PICK s : s = session
    OBVIOUS
  <2>5. Whole(s) /\ s.deploymentAttempt /\ s.reportAttempts = <<>> /\ call \in Deployments
    BY <1>2, <2>3, <2>4, SessionIs DEF Awaited, Journaled
  <2>6. PICK t : t = [s EXCEPT !.deploymentTransactionId = call.id]
    OBVIOUS
  <2>7. /\ Whole(t) /\ t.deploymentAttempt /\ t.deploymentTransactionId = call.id
        /\ t.reportAttempts = <<>> /\ ~t.contractAddress /\ call.id # 0
    <3>1. call.id \in Nat \ {0}
      BY <2>5 DEF Deployments
    <3>2. /\ Whole(t) /\ t.deploymentAttempt /\ t.deploymentTransactionId = call.id
          /\ t.reportAttempts = s.reportAttempts
      BY <2>5, <2>6, <3>1, WholeIdentified
    <3>3. QED
      BY <2>5, <3>1, <3>2, WholeIs
  <2>8. session' = t
    BY <1>7, <2>4, <2>6
  <2>9. Whole(session)' /\ Known(session)'
    BY <2>7, <2>8 DEF Whole, clean, Known
  <2>10. Sound'
    BY <1>1, <2>3, <2>7, <2>8, <2>9 DEF SessionInv, Sound
  <2>11. Busy'
    <3>1. DeploymentAt("sdk", c)'
      BY <2>3, <2>7, <2>8 DEF DeploymentAt
    <3>2. QED
      BY <1>1, <2>3, <3>1, StaysUnderWay
  <2>12. Checkpointing'
    <3>1. transacting' /\ task'.step = "sdk"
      BY <1>1, <2>1 DEF transacting
    <3>2. Marked(session', call)
      BY <2>5, <2>7, <2>8 DEF Marked
    <3>3. QED
      BY <1>7, <3>1, <3>2 DEF Checkpointing, Marked, Journaled, latest
  <2>13. Grows(session, session')
    BY <2>1, <2>4, <2>5 DEF Grows
  <2>14. QED
    BY <1>3, <1>4, <1>5, <1>7, <2>9, <2>10, <2>11, <2>12, <2>13 DEF SessionInv, Advances
<1>8. CASE checkpointOpen /\ checkpointing' = call /\ task.op # "deploy"
           /\ session' = [session EXCEPT !.reportAttempts[Len(session.reportAttempts)].transactionId = call.id]
  <2>1. transacting /\ task.step = "sdk"
    BY <1>8 DEF checkpointOpen
  <2>2. PICK c, op : c = task.call /\ op = task.op
    OBVIOUS
  <2>3. task = [op |-> op, step |-> "sdk", call |-> c] /\ providers
        /\ ReportAt(op, "sdk", c) /\ Journaled(session, c)
    BY <1>8, <2>1, <2>2, UnderWay DEF ReportAt
  <2>4. PICK s : s = session
    OBVIOUS
  <2>5. /\ Whole(s) /\ s.contractAddress /\ ~s.deploymentAttempt
        /\ s.reportAttempts # <<>> /\ s.reportAttempts \in Seq(Attempts)
        /\ latest(s).outcome = "unknown"
    BY <2>3, <2>4, SessionIs DEF Journaled
  <2>6. call \in ReportCalls /\ Journaled(s, call) /\ latest(s).transactionId = 0
    BY <1>2, <2>4, <2>5 DEF Awaited
  <2>7. call.id \in Nat \ {0} /\ \A i \in DOMAIN s.reportAttempts : s.reportAttempts[i].transactionId # call.id
    BY <1>2, <2>4, <2>6 DEF ReportCalls, SessionInv, Sound, Known
  <2>8. PICK t : t = [s EXCEPT !.reportAttempts[Len(s.reportAttempts)].transactionId = call.id]
    OBVIOUS
  <2>9. PICK a : a = [latest(s) EXCEPT !.transactionId = call.id]
    OBVIOUS
  <2>10. Whole(t) /\ Reattempted(s, t, a)
    BY <2>5, <2>7, <2>8, <2>9, WholeMarked
  <2>11. session' = t
    BY <1>8, <2>4, <2>8
  <2>12. /\ latest(s) \in Attempts /\ a.transactionId = call.id /\ a.outcome = "unknown"
         /\ a.circuit = latest(s).circuit /\ a.reportId = latest(s).reportId
         /\ a.nextStatus = latest(s).nextStatus
    <3>1. latest(s) \in Attempts
      BY <2>5 DEF latest, Last
    <3>2. QED
      BY <2>5, <2>7, <2>9, <3>1 DEF Attempts
  <2>13. /\ t.contractAddress /\ ~t.deploymentAttempt /\ t.reportAttempts # <<>>
         /\ t.deploymentTransactionId = s.deploymentTransactionId
         /\ latest(t) = a /\ DOMAIN t.reportAttempts = DOMAIN s.reportAttempts
         /\ \A i \in DOMAIN s.reportAttempts :
               \/ t.reportAttempts[i] = s.reportAttempts[i]
               \/ t.reportAttempts[i] = a /\ s.reportAttempts[i] = latest(s)
    <3>1. t.reportAttempts = [s.reportAttempts EXCEPT ![Len(s.reportAttempts)] = a]
      BY <2>10 DEF Reattempted
    <3>2. /\ Len(s.reportAttempts) \in 1..Len(s.reportAttempts)
          /\ DOMAIN s.reportAttempts = 1..Len(s.reportAttempts)
          /\ DOMAIN t.reportAttempts = DOMAIN s.reportAttempts
      BY <2>5, <3>1
    <3>3. Len(t.reportAttempts) = Len(s.reportAttempts) /\ t.reportAttempts # <<>>
      BY <2>5, <3>1, <3>2
    <3>4. t.reportAttempts[Len(s.reportAttempts)] = a
      BY <3>1, <3>2
    <3>5. t.contractAddress /\ ~t.deploymentAttempt /\ t.deploymentTransactionId = s.deploymentTransactionId
      BY <2>5, <2>10 DEF Reattempted
    <3>6. QED
      BY <2>5, <3>1, <3>2, <3>3, <3>4, <3>5 DEF latest, Last
  <2>14. Whole(session)'
    BY <2>10, <2>11 DEF Whole, clean
  <2>15. Known(session)'
    <3>1. call.id \notin Unissued'
      BY <1>1, <1>2, <2>1 DEF Unissued, transacting
    <3>2. Known(s)
      BY <2>4 DEF SessionInv, Sound
    <3>3. QED
      BY <1>4, <2>11, <2>12, <2>13, <3>1, <3>2 DEF Known
  <2>16. Sound'
    BY <1>1, <2>3, <2>13, <2>14, <2>15 DEF SessionInv, Sound
  <2>17. Journaled(session', call) /\ Journaled(session', c) /\ latest(session') = a
    BY <2>3, <2>4, <2>6, <2>11, <2>12, <2>13 DEF Journaled
  <2>18. Busy'
    <3>1. ReportAt(op, "sdk", c)'
      BY <2>3, <2>17 DEF ReportAt, Journaled, latest
    <3>2. QED
      BY <1>1, <2>3, <3>1, StaysUnderWay
  <2>19. Checkpointing'
    <3>1. transacting' /\ task'.step = "sdk"
      BY <1>1, <2>1 DEF transacting
    <3>2. Marked(session', call)
      BY <2>6, <2>12, <2>17 DEF Marked
    <3>3. QED
      BY <1>8, <3>1, <3>2 DEF Checkpointing, Marked, Journaled, latest
  <2>20. Grows(session, session')
    BY <2>4, <2>6, <2>11, <2>13 DEF Grows
  <2>21. QED
    BY <1>3, <1>4, <1>5, <1>8, <2>14, <2>16, <2>18, <2>19, <2>20 DEF SessionInv, Advances
<1>9. QED
  BY <1>1, <1>6, <1>7, <1>8

\* The session of a confirmed report transaction names the transactions that
\* it named before.
LEMMA ConfirmedIs ==
  ASSUME SessionInv, transacting, task.op # "deploy", task.step \in {"sent", "confirming"},
         NEW u, u = sdkConfirmed
  PROVE  /\ Whole(u) /\ u.contractAddress /\ ~unresolved(u.reportAttempts)
         /\ u.uncertainTransition = None /\ Known(u)
         /\ Grows(session, u) /\ Grows(u, session) /\ u.mode = session.mode
         /\ task.call.circuit \in DOMAIN Circuits /\ task.call.nextStatus \in Statuses
         /\ task.op = "seal" <=> task.call.circuit = "submitReport"
         /\ IF task.call.circuit = "submitReport"
            THEN u.pendingReport \in [id : Reports, submissionStarted : BOOLEAN]
            ELSE u.report # None
<1>1. PICK s, c : s = session /\ c = task.call
  OBVIOUS
<1>2. /\ Whole(s) /\ s.contractAddress /\ c \in ReportCalls /\ Journaled(s, c)
      /\ latest(s).transactionId # 0
      /\ task.op = "seal" <=> c.circuit = "submitReport"
  BY <1>1, UnderWay DEF ReportAt
<1>3. s.reportAttempts # <<>> /\ latest(s).outcome = "unknown" /\ s.reportAttempts \in Seq(Attempts)
      /\ Shows(s) /\ latest(s).circuit = c.circuit /\ latest(s).reportId = c.reportId
  BY <1>2, WholeIs DEF Journaled
<1>4. u = [s EXCEPT !.reportAttempts[Len(s.reportAttempts)].outcome = "sdk-confirmed",
                    !.uncertainTransition = None]
  BY <1>1 DEF sdkConfirmed
<1>5. PICK a : a = [latest(s) EXCEPT !.outcome = "sdk-confirmed"]
  OBVIOUS
<1>6. /\ Whole(u) /\ Reattempted(s, u, a) /\ ~unresolved(u.reportAttempts)
      /\ u.report = s.report /\ u.pendingReport = s.pendingReport /\ u.uncertainTransition = None
  <2>1. Whole(s) /\ s.reportAttempts # <<>> /\ latest(s).outcome = "unknown" /\ latest(s).transactionId # 0
    BY <1>2, <1>3
  <2>2. QED
    BY <1>4, <1>5, <2>1, WholeConfirmed
<1>7. u.mode = s.mode /\ u.contractAddress
      /\ u.deploymentTransactionId = s.deploymentTransactionId
      /\ u.reportAttempts = [s.reportAttempts EXCEPT ![Len(s.reportAttempts)] = a]
  BY <1>2, <1>6 DEF Reattempted
<1>8. /\ a.transactionId = latest(s).transactionId
      /\ a.circuit = latest(s).circuit /\ a.reportId = latest(s).reportId
  <2>1. latest(s) \in Attempts
    BY <1>3 DEF latest, Last
  <2>2. QED
    BY <1>5, <2>1 DEF Attempts
<1>9. /\ DOMAIN u.reportAttempts = DOMAIN s.reportAttempts
      /\ \A i \in DOMAIN s.reportAttempts :
            /\ u.reportAttempts[i].transactionId = s.reportAttempts[i].transactionId
            /\ u.reportAttempts[i].circuit = s.reportAttempts[i].circuit
            /\ u.reportAttempts[i].reportId = s.reportAttempts[i].reportId
  <2>1. DOMAIN s.reportAttempts = 1..Len(s.reportAttempts)
    BY <1>3
  <2>2. ASSUME NEW i \in DOMAIN s.reportAttempts
        PROVE  \/ u.reportAttempts[i] = s.reportAttempts[i]
               \/ u.reportAttempts[i] = a /\ s.reportAttempts[i] = latest(s)
    BY <1>3, <1>7, <2>1 DEF latest, Last
  <2>3. DOMAIN u.reportAttempts = DOMAIN s.reportAttempts
    BY <1>7
  <2>4. QED
    BY <1>8, <2>2, <2>3
<1>10. Known(u) /\ Grows(session, u) /\ Grows(u, session)
  BY <1>1, <1>7, <1>9 DEF SessionInv, Sound, Known, Grows
<1>11. c.circuit \in DOMAIN Circuits /\ c.nextStatus \in Statuses /\ c.reportId \in Reports
  BY <1>2 DEF ReportCalls
<1>12. IF c.circuit = "submitReport" THEN u.pendingReport \in [id : Reports, submissionStarted : BOOLEAN]
       ELSE u.report # None
  <2>1. CASE c.circuit = "submitReport"
    <3>1. u.pendingReport = [id |-> c.reportId, submissionStarted |-> TRUE]
      BY <1>3, <1>6, <2>1 DEF Shows
    <3>2. QED
      BY <1>11, <2>1, <3>1
  <2>2. CASE c.circuit # "submitReport"
    <3>1. u.report = c.reportId
      BY <1>3, <1>6, <2>2 DEF Shows
    <3>2. QED
      BY <1>11, <2>2, <3>1, SessionConstants
  <2>3. QED
    BY <2>1, <2>2
<1>13. QED
  BY <1>1, <1>2, <1>6, <1>7, <1>10, <1>11, <1>12

\* So does what is saved of it, and what is then shown of it.
LEMMA ConfirmedSavable ==
  ASSUME SessionInv, transacting, task.op # "deploy", task.step \in {"sent", "confirming"},
         NEW w, w = confirmed \/ w = shown(sdkConfirmed, task.call.circuit, task.call.nextStatus)
  PROVE  /\ Savable(w) /\ Grows(session, w) /\ Grows(w, session)
         /\ w.contractAddress /\ w.mode = session.mode
         /\ w = shown(sdkConfirmed, task.call.circuit, task.call.nextStatus) => w.report # None
<1>1. PICK u, c, n : u = sdkConfirmed /\ c = task.call.circuit /\ n = task.call.nextStatus
  OBVIOUS
<1>2. /\ Whole(u) /\ u.contractAddress /\ ~unresolved(u.reportAttempts)
      /\ u.uncertainTransition = None /\ Known(u)
      /\ Grows(session, u) /\ Grows(u, session) /\ u.mode = session.mode
      /\ c \in DOMAIN Circuits /\ n \in Statuses /\ (task.op = "seal" <=> c = "submitReport")
      /\ IF c = "submitReport" THEN u.pendingReport \in [id : Reports, submissionStarted : BOOLEAN]
         ELSE u.report # None
  BY <1>1, ConfirmedIs
<1>3. Whole(w) /\ SameJournal(u, w)
      /\ (w = shown(u, c, n) => w.report # None)
  <2>1. ASSUME NEW m \in Statuses, w = shown(u, c, m)
        PROVE  Whole(w) /\ SameJournal(u, w) /\ w.report # None
    BY <1>2, <2>1, WholeShown
  <2>2. CASE w = shown(u, c, n)
    BY <1>2, <2>1, <2>2
  <2>3. CASE w # shown(u, c, n) /\ c = "submitReport"
    <3>1. w = shown(u, c, "COMMITTED") /\ "COMMITTED" \in Statuses
      BY <1>1, <1>2, <2>3 DEF confirmed, Statuses
    <3>2. QED
      BY <2>1, <2>3, <3>1
  <2>4. CASE w # shown(u, c, n) /\ c # "submitReport"
    <3>1. w = recordTransition(u, n)
      BY <1>1, <1>2, <2>4 DEF confirmed
    <3>2. QED
      BY <1>2, <2>4, <3>1, WholeRecorded
  <2>5. QED
    BY <2>2, <2>3, <2>4
<1>4. Known(w) /\ Grows(session, w) /\ Grows(w, session) /\ w.contractAddress /\ w.mode = session.mode
  BY <1>2, <1>3 DEF SameJournal, Known, Grows
<1>5. QED
  BY <1>1, <1>3, <1>4 DEF Savable

\* Without a call under way, the session may become another whole one.
LEMMA SessionMoves ==
  ASSUME SessionInv, sdk = {}, UNCHANGED <<pool, ledger, calls, sdk>>,
         NEW t, session' = t, Savable(t), Grows(session, t),
         t.contractAddress => providers', providers' \in BOOLEAN,
         Busy', checkpointing' = None, Unissued' \subseteq Unissued
  PROVE  SessionInv' /\ Advances
<1>1. Whole(session)' /\ Known(session)' /\ session' # Blank
  BY BlankIs, WholeIs DEF Savable, Whole, clean, Known
<1>2. Sound'
  BY <1>1 DEF SessionInv, Sound
<1>3. Calling' /\ Checkpointing' /\ Network'
  BY DEF SessionInv, Calling, Checkpointing, Network
<1>4. QED
  BY <1>2, <1>3 DEF SessionInv, Advances

\* A call that has its identifier in the journal is under way no more.
LEMMA NoSdkCall ==
  ASSUME SessionInv,
         \/ session.deploymentAttempt /\ session.deploymentTransactionId # 0
         \/ ~session.deploymentAttempt /\ session.reportAttempts # <<>> /\ latest(session).transactionId # 0
  PROVE  sdk = {}
BY SessionIs DEF SessionInv, Calling, Awaited, Journaled

\* The SDK has confirmed; a deployment becomes the program of the session.
LEMMA ConfirmedKeeps ==
  ASSUME SessionInv, transactionConfirmed, NEW w, w = confirmed
  PROVE  /\ SessionInv' /\ Advances /\ checkpointing' = None
         /\ Savable(w) /\ Grows(session, w) /\ Grows(w, session')
         /\ w.mode = session.mode
<1>1. /\ transacting /\ task.step = "sent" /\ task' = [task EXCEPT !.step = "confirming"]
      /\ session' = IF task.op = "deploy" THEN w ELSE session
      /\ UNCHANGED <<providers, checkpointing, pool, ledger, calls, sdk>>
  BY DEF transactionConfirmed, network
<1>2. checkpointing = None
  BY <1>1 DEF SessionInv, Checkpointing
<1>3. PICK op, c : op = task.op /\ c = task.call
  OBVIOUS
<1>4. /\ task = [op |-> op, step |-> "sent", call |-> c] /\ providers
      /\ \/ op = "deploy" /\ DeploymentAt("sent", c)
         \/ op # "deploy" /\ session.contractAddress /\ ReportAt(op, "sent", c)
  BY <1>1, <1>3, UnderWay
<1>5. task' = [op |-> op, step |-> "confirming", call |-> c]
  BY <1>1, <1>4
<1>6. Unissued' \subseteq Unissued
  <2>1. task'.step = "confirming"
    BY <1>5
  <2>2. QED
    BY <1>1, <2>1, UnissuedStays
<1>7. CASE op = "deploy" /\ DeploymentAt("sent", c)
  <2>1. session.deploymentAttempt /\ session.deploymentTransactionId # 0 /\ Whole(session)
    BY <1>7, SessionIs DEF DeploymentAt
  <2>2. w = [session EXCEPT !.deploymentAttempt = FALSE, !.contractAddress = TRUE]
    BY <1>3, <1>7 DEF confirmed
  <2>3. PICK s : s = session
    OBVIOUS
  <2>4. /\ Whole(w) /\ w.deploymentTransactionId = s.deploymentTransactionId
        /\ w.reportAttempts = <<>> /\ w.reportAttempts = s.reportAttempts
    BY <2>1, <2>2, <2>3, WholeDeployed
  <2>5. w.mode = session.mode
    BY <2>2, SessionIs DEF Snapshots
  <2>6. Savable(w) /\ Grows(session, w) /\ Grows(w, w)
    BY <2>3, <2>4 DEF Savable, Known, Grows
  <2>7. Busy'
    <3>1. DeploymentAt("confirming", c)'
      BY <1>7 DEF DeploymentAt
    <3>2. QED
      BY <1>1, <1>4, <1>5, <1>7, <3>1, StaysUnderWay
  <2>8. session' = w /\ sdk = {}
    BY <1>1, <1>3, <1>7, <2>1, NoSdkCall
  <2>9. providers' /\ providers' \in BOOLEAN
    BY <1>1, <1>4 DEF SessionInv, Sound
  <2>10. SessionInv' /\ Advances
    BY <1>1, <1>2, <1>6, <2>6, <2>7, <2>8, <2>9, SessionMoves
  <2>11. QED
    BY <1>1, <1>2, <2>5, <2>6, <2>8, <2>10
<1>8. CASE op # "deploy" /\ ReportAt(op, "sent", c)
  <2>1. Savable(w) /\ Grows(session, w) /\ Grows(w, session) /\ w.mode = session.mode
    BY <1>1, <1>3, <1>8, ConfirmedSavable
  <2>2. Busy'
    <3>1. session' = session
      BY <1>1, <1>3, <1>8
    <3>2. ReportAt(op, "confirming", c)'
      BY <1>8, <3>1 DEF ReportAt, Journaled, latest
    <3>3. QED
      BY <1>1, <1>4, <1>5, <3>2, StaysUnderWay
  <2>3. SessionInv' /\ Advances
    BY <1>1, <1>2, <1>3, <1>6, <1>8, <2>2, SessionWaits
  <2>4. QED
    BY <1>1, <1>2, <1>3, <1>8, <2>1, <2>3
<1>9. QED
  BY <1>4, <1>7, <1>8

\* The result of a report transaction is shown; a commitment is read next.
LEMMA FinishKeeps ==
  SessionInv /\ finishTransaction => SessionInv' /\ Advances /\ checkpointing' = None
<1> SUFFICES ASSUME SessionInv, finishTransaction
             PROVE  SessionInv' /\ Advances /\ checkpointing' = None
  OBVIOUS
<1>1. /\ transacting /\ task.step = "confirming"
      /\ session' = IF task.op = "deploy" THEN session
                    ELSE shown(sdkConfirmed, task.call.circuit, task.call.nextStatus)
      /\ IF task.call.circuit \in Refreshed THEN task' = Task("refresh", "reading") ELSE task' = None
      /\ UNCHANGED <<providers, checkpointing, network>>
      /\ UNCHANGED <<pool, ledger, calls, sdk>>
  BY DEF finishTransaction, network, end
<1>2. checkpointing = None
  BY <1>1 DEF SessionInv, Checkpointing
<1>3. CASE task.op = "deploy"
  <2>1. task.call \in Deployments
    BY <1>1, <1>3, UnderWay DEF DeploymentAt
  <2>2. task' = None
    BY <1>1, <2>1 DEF Deployments, Refreshed
  <2>3. QED
    BY <1>1, <1>2, <1>3, <2>2, EndKeeps DEF end
<1>4. CASE task.op # "deploy"
  <2>1. PICK w : w = shown(sdkConfirmed, task.call.circuit, task.call.nextStatus)
    OBVIOUS
  <2>2. /\ Savable(w) /\ Grows(session, w) /\ w.contractAddress /\ w.report # None
    BY <1>1, <1>4, <2>1, ConfirmedSavable
  <2>3. session' = w
    BY <1>1, <1>4, <2>1
  <2>4. ReportAt(task.op, task.step, task.call) /\ session.contractAddress /\ providers
    BY <1>1, <1>4, UnderWay
  <2>5. sdk = {}
    BY <1>1, <2>4, SessionIs, NoSdkCall DEF ReportAt, Journaled
  <2>6. Busy' /\ ~transacting'
    <3>1. ~transacting'
      BY <1>1 DEF transacting, Task
    <3>2. Busy'
      BY <1>1, <2>2, <2>3 DEF Busy, Refreshing
    <3>3. QED
      BY <3>1, <3>2
  <2>7. Unissued' \subseteq Unissued
    BY <1>1, <2>6, UnissuedStays
  <2>8. providers' /\ providers' \in BOOLEAN
    BY <1>1, <2>4 DEF SessionInv, Sound
  <2>9. SessionInv' /\ Advances
    BY <1>1, <1>2, <2>2, <2>3, <2>5, <2>6, <2>7, <2>8, SessionMoves
  <2>10. QED
    BY <1>1, <1>2, <2>9
<1>5. QED
  BY <1>3, <1>4

\* Commitments are taken over from the ledger.
LEMMA RefreshKeeps == SessionInv /\ refreshCommitments => SessionInv' /\ Advances
<1> SUFFICES ASSUME SessionInv, refreshCommitments PROVE SessionInv' /\ Advances
  OBVIOUS
<1>1. /\ task = Task("refresh", "reading") /\ task' = None
      /\ UNCHANGED <<providers, checkpointing, network>>
      /\ UNCHANGED <<pool, ledger, calls, sdk>>
      /\ \/ /\ ledger[session.report] # None
            /\ session' = [session EXCEPT !.patch = ledger[session.report].patch,
                                          !.retest = ledger[session.report].retest,
                                          !.payout = ledger[session.report].payout]
         \/ session' = session
  BY DEF refreshCommitments, end, network
<1>2. ~transacting /\ ~transacting' /\ Busy' /\ checkpointing = None
  <2>1. ~transacting
    BY <1>1 DEF transacting, Task
  <2>2. QED
    BY <1>1, <2>1, NoCheckpoint DEF transacting, Busy
<1>3. CASE session' = session
  BY <1>1, <1>2, <1>3, EndKeeps DEF end
<1>4. CASE /\ ledger[session.report] # None
           /\ session' = [session EXCEPT !.patch = ledger[session.report].patch,
                                         !.retest = ledger[session.report].retest,
                                         !.payout = ledger[session.report].payout]
  <2>1. session.contractAddress /\ session.report # None /\ Whole(session)
    BY <1>1, TaskIs, SessionIs DEF SessionInv, Refreshing
  <2>2. PICK s, p, r, y : /\ s = session /\ p = ledger[session.report].patch
                          /\ r = ledger[session.report].retest /\ y = ledger[session.report].payout
    OBVIOUS
  <2>3. s.report \in Reports
    BY <2>1, <2>2, WholeIs
  <2>4. ledger[session.report] \in Records
    BY <1>4, <2>2, <2>3 DEF SessionInv, Network
  <2>5. p \in BOOLEAN /\ r \in BOOLEAN /\ y \in BOOLEAN
    BY <2>2, <2>4 DEF Records
  <2>6. PICK t : t = [s EXCEPT !.patch = p, !.retest = r, !.payout = y]
    OBVIOUS
  <2>7. Whole(t) /\ SameJournal(s, t)
    BY <2>1, <2>2, <2>5, <2>6, WholeRefreshed
  <2>8. session' = t
    BY <1>4, <2>2, <2>6
  <2>9. Whole(session)' /\ SameJournal(session, session')
    BY <2>2, <2>7, <2>8 DEF Whole, clean
  <2>10. providers' /\ providers' \in BOOLEAN
    BY <1>1, <2>1 DEF SessionInv, Sound
  <2>11. Unissued' \subseteq Unissued
    BY <1>1, <1>2, UnissuedStays
  <2>12. QED
    BY <1>1, <1>2, <2>9, <2>10, <2>11, SessionChanges
<1>5. QED
  BY <1>1, <1>3, <1>4

\* Nothing unresolved is put aside.
LEMMA ResetKeeps == SessionInv /\ resetDemo => SessionInv' /\ Advances
<1> SUFFICES ASSUME SessionInv, resetDemo PROVE SessionInv' /\ Advances
  OBVIOUS
<1>1. /\ task = None /\ task' = None /\ session.report # None /\ session.uncertainTransition = None
      /\ session' = [session EXCEPT !.report = None, !.pendingReport = None, !.status = "COMMITTED",
                                    !.history = <<>>, !.patch = FALSE, !.retest = FALSE, !.payout = FALSE]
      /\ UNCHANGED <<providers, checkpointing, pool, ledger, calls, sdk>>
  BY DEF resetDemo, network
<1>2. ~transacting /\ ~transacting' /\ Busy'
  BY <1>1 DEF transacting, Busy
<1>3. PICK s : s = session
  OBVIOUS
<1>4. Whole(s)
  BY <1>1, <1>3, BlankIs DEF SessionInv, Sound
<1>5. PICK t : t = [s EXCEPT !.report = None, !.pendingReport = None, !.status = "COMMITTED",
                             !.history = <<>>, !.patch = FALSE, !.retest = FALSE, !.payout = FALSE]
  OBVIOUS
<1>6. Whole(t) /\ SameJournal(s, t)
  BY <1>1, <1>3, <1>4, <1>5, WholeReset
<1>7. session' = t
  BY <1>1, <1>3, <1>5
<1>8. Whole(session)' /\ SameJournal(session, session')
  BY <1>3, <1>6, <1>7 DEF Whole, clean
<1>9. (session.contractAddress => providers') /\ providers' \in BOOLEAN
  BY <1>1 DEF SessionInv, Sound
<1>10. Unissued' \subseteq Unissued
  BY <1>1, <1>2, UnissuedStays
<1>11. QED
  BY <1>1, <1>2, <1>8, <1>9, <1>10, NoCheckpoint, SessionChanges

\* What an import holds until it is installed.
LEMMA ImportIs ==
  ASSUME SessionInv, NEW step, importing(step)
  PROVE  /\ task = [op |-> "import", step |-> step, copy |-> task.copy]
         /\ Savable(task.copy) /\ Unused(session) /\ ~transacting
<1>1. Importing
  BY TaskIs DEF SessionInv, importing
<1>2. PICK st \in {"reading", "installing"} :
        /\ importing(st) /\ task = [op |-> "import", step |-> st, copy |-> task.copy]
        /\ Whole(task.copy) /\ Known(task.copy) /\ Unused(session)
  BY <1>1 DEF Importing
<1>3. st = step
  BY <1>2 DEF importing
<1>4. "call" \notin DOMAIN task
  BY <1>2
<1>5. QED
  BY <1>2, <1>3, <1>4 DEF Savable, transacting

\* A copy that was read is compared with the ledger, and what the ledger has is
\* taken over.
LEMMA VerifiedKeeps == SessionInv /\ importVerified => SessionInv' /\ Advances
<1> SUFFICES ASSUME SessionInv, importVerified PROVE SessionInv' /\ Advances
  OBVIOUS
<1>1. /\ importing("reading")
      /\ joins(task.copy) => verifyRecoveryLedger(task.copy, ledger)
      /\ task' = [task EXCEPT !.step = "installing", !.copy = restored(@, ledger)]
      /\ UNCHANGED <<session, providers, checkpointing, pool, ledger, calls, sdk>>
  BY DEF importVerified, rest, network
<1>2. PICK s, l : s = task.copy /\ l = ledger
  OBVIOUS
<1>3. /\ task = [op |-> "import", step |-> "reading", copy |-> s]
      /\ Whole(s) /\ Known(s) /\ Unused(session) /\ ~transacting
  BY <1>1, <1>2, ImportIs DEF Savable
<1>4. PICK t : t = restored(s, l)
  OBVIOUS
<1>5. Whole(t) /\ SameJournal(s, t)
  BY <1>1, <1>2, <1>3, <1>4, WholeRestored DEF SessionInv, Network
<1>6. task' = [op |-> "import", step |-> "installing", copy |-> t]
  <2>1. restored(s, ledger) = t
    BY <1>2, <1>4
  <2>2. task' = [task EXCEPT !.step = "installing", !.copy = restored(s, ledger)]
    BY <1>1, <1>2, <1>3
  <2>3. task' = [task EXCEPT !.step = "installing", !.copy = t]
    BY <2>1, <2>2
  <2>4. QED
    BY <1>3, <2>3
<1>7. ~transacting' /\ task'.copy = t /\ task'.op = "import" /\ task'.step = "installing"
  BY <1>6 DEF transacting
<1>8. Unissued' \subseteq Unissued
  BY <1>1, <1>7, UnissuedStays
<1>9. Known(t)'
  <2>1. Known(t)
    BY <1>3, <1>5 DEF Known, SameJournal
  <2>2. QED
    BY <1>8, <2>1, KnownStays
<1>10. task' # None => Importing'
  BY <1>1, <1>3, <1>5, <1>6, <1>7, <1>9 DEF Importing, importing, Unused, Known
<1>11. Busy'
  BY <1>10 DEF Busy
<1>12. QED
  BY <1>1, <1>3, <1>8, <1>11, NoCheckpoint, SessionWaits

\* The session of a copy takes the place of an unused one.
LEMMA InstalledKeeps ==
  SessionInv /\ importInstalled => SessionInv' /\ Advances /\ checkpointing' = None
<1> SUFFICES ASSUME SessionInv, importInstalled
             PROVE  SessionInv' /\ Advances /\ checkpointing' = None
  OBVIOUS
<1>1. /\ importing("installing") /\ task' = None
      /\ session' = task.copy /\ providers' = joins(task.copy)
      /\ UNCHANGED <<checkpointing, pool, ledger, calls, sdk>>
  BY DEF importInstalled, end, network
<1>2. PICK t : t = task.copy
  OBVIOUS
<1>3. Savable(t) /\ Unused(session) /\ ~transacting
  BY <1>1, <1>2, ImportIs
<1>4. sdk = {} /\ Grows(session, t)
  BY <1>3, SessionIs DEF Unused, Grows
<1>5. (t.contractAddress => providers') /\ providers' \in BOOLEAN
  <2>1. t.contractAddress => joins(t)
    BY <1>3, WholeIs DEF Savable, joins
  <2>2. joins(t) \in BOOLEAN
    BY DEF joins
  <2>3. QED
    BY <1>1, <1>2, <2>1, <2>2
<1>6. ~transacting' /\ Busy'
  BY <1>1 DEF transacting, Busy
<1>7. Unissued' \subseteq Unissued
  BY <1>1, <1>6, UnissuedStays
<1>8. QED
  BY <1>1, <1>2, <1>3, <1>4, <1>5, <1>6, <1>7, NoCheckpoint, SessionMoves

\* A deployment that is final becomes the program of its session.
LEMMA RecoveredKeeps ==
  ASSUME SessionInv, deploymentRecovered,
         NEW w, w = [session EXCEPT !.deploymentAttempt = FALSE, !.contractAddress = TRUE]
  PROVE  SessionInv' /\ Advances /\ checkpointing' = None /\ Savable(w)
<1>1. /\ task = Task("recover", "joining") /\ task' = None
      /\ UNCHANGED <<checkpointing, network>>
      /\ UNCHANGED <<pool, ledger, calls, sdk>>
      /\ \/ session' = w /\ providers' = TRUE
         \/ UNCHANGED <<session, providers>>
  BY DEF deploymentRecovered, end, network
<1>2. ~transacting /\ ~transacting' /\ Busy' /\ checkpointing = None
  <2>1. ~transacting
    BY <1>1 DEF transacting, Task
  <2>2. QED
    BY <1>1, <2>1, NoCheckpoint DEF transacting, Busy
<1>3. session.deploymentAttempt /\ session.deploymentTransactionId # 0 /\ Whole(session) /\ sdk = {}
  <2>1. session.deploymentAttempt /\ session.deploymentTransactionId # 0
    BY <1>1, TaskIs DEF SessionInv, Recovering
  <2>2. QED
    BY <2>1, SessionIs, NoSdkCall
<1>4. PICK s : s = session
  OBVIOUS
<1>5. /\ Whole(w) /\ w.deploymentTransactionId = s.deploymentTransactionId
      /\ w.reportAttempts = s.reportAttempts /\ w.reportAttempts = <<>>
  BY <1>3, <1>4, WholeDeployed
<1>6. Savable(w) /\ Grows(session, w)
  BY <1>4, <1>5 DEF Savable, Known, Grows
<1>7. CASE UNCHANGED <<session, providers>>
  BY <1>1, <1>2, <1>6, <1>7, EndKeeps DEF end
<1>8. CASE session' = w /\ providers' = TRUE
  <2>1. Unissued' \subseteq Unissued
    BY <1>1, <1>2, UnissuedStays
  <2>2. SessionInv' /\ Advances
    BY <1>1, <1>2, <1>3, <1>6, <1>8, <2>1, SessionMoves
  <2>3. QED
    BY <1>1, <1>2, <1>6, <2>2
<1>9. QED
  BY <1>1, <1>7, <1>8

\* A tab that starts afresh has no session.
LEMMA ReloadKeeps == SessionInv /\ reload => SessionInv' /\ Unissued' \subseteq Unissued
<1> SUFFICES ASSUME SessionInv, reload PROVE SessionInv' /\ Unissued' \subseteq Unissued
  OBVIOUS
<1>1. /\ session' = Fresh /\ providers' = FALSE /\ task' = None /\ checkpointing' = None
      /\ sdk' = {} /\ UNCHANGED <<pool, ledger, calls>>
  BY DEF reload, end
<1>2. ~transacting' /\ Busy'
  BY <1>1 DEF transacting, Busy
<1>3. Unissued' \subseteq Unissued
  BY <1>1, <1>2, UnissuedStays
<1>4. /\ Fresh.reportAttempts = <<>> /\ ~Fresh.contractAddress /\ Fresh.mode # "midnight"
  BY DEF Fresh
<1>5. Sound'
  <2>1. Whole(session)'
    BY <1>1, WholeFresh DEF Whole, clean
  <2>2. Known(session)'
    BY <1>1, <1>4 DEF Known
  <2>3. Fresh # Blank
    BY <1>4, BlankIs
  <2>4. QED
    BY <1>1, <1>4, <2>1, <2>2, <2>3 DEF Sound
<1>6. Calling' /\ Checkpointing' /\ Network'
  BY <1>1 DEF SessionInv, Calling, Checkpointing, Network
<1>7. QED
  BY <1>2, <1>3, <1>5, <1>6 DEF SessionInv

\* What the contract makes of an accepted call is a record.
LEMMA AppliedIsLedger ==
  ASSUME NEW l \in [Reports -> Records \cup {None}], NEW t \in ReportCalls, accepts(l, t)
  PROVE  applied(l, t) \in [Reports -> Records \cup {None}]
<1>1. t.reportId \in Reports /\ t.nextStatus \in Statuses /\ t.circuit \in DOMAIN Circuits
  BY DEF ReportCalls
<1>2. t.circuit # "submitReport" => l[t.reportId] \in Records
  BY <1>1 DEF accepts
<1>3. \A n \in Statuses, p \in BOOLEAN, r \in BOOLEAN, y \in BOOLEAN : Record(n, p, r, y) \in Records
  BY DEF Record, Records
<1>4. \A r \in Records : /\ [r EXCEPT !.status = t.nextStatus, !.payout = TRUE] \in Records
                         /\ [r EXCEPT !.status = t.nextStatus] \in Records
  BY <1>1 DEF Records
<1>5. "COMMITTED" \in Statuses /\ "PATCH_READY" \in Statuses
  BY DEF Statuses
<1>6. \E a \in Records : applied(l, t) = [l EXCEPT ![t.reportId] = a]
  <2>1. CASE t.circuit = "submitReport"
    BY <1>3, <1>5, <2>1 DEF applied
  <2>2. CASE t.circuit = "anchorPatch"
    BY <1>3, <1>5, <2>2 DEF applied
  <2>3. CASE t.circuit = "submitRetest"
    BY <1>1, <1>3, <2>3 DEF applied
  <2>4. CASE t.circuit = "authorizePayout"
    BY <1>2, <1>4, <2>4 DEF applied
  <2>5. CASE t.circuit \notin {"submitReport", "anchorPatch", "submitRetest", "authorizePayout"}
    BY <1>2, <1>4, <2>5 DEF applied
  <2>6. QED
    BY <2>1, <2>2, <2>3, <2>4, <2>5
<1>7. QED
  BY <1>6

\* The network orders a transaction.
LEMMA FinalizeKeeps ==
  ASSUME SessionInv, NEW t \in pool, finalize(t)
  PROVE  SessionInv' /\ Advances
<1>1. /\ UNCHANGED <<session, providers, task, checkpointing, sdk, calls>>
      /\ pool' \subseteq pool
      /\ ledger' = IF t.circuit # "constructor" /\ accepts(ledger, t)
                   THEN applied(ledger, t) ELSE ledger
  BY DEF finalize, local
<1>2. t \in Deployments \cup ReportCalls /\ ledger \in [Reports -> Records \cup {None}]
  BY DEF SessionInv, Network
<1>3. Network'
  <2>1. t.circuit # "constructor" => t \in ReportCalls
    BY <1>2 DEF Deployments
  <2>2. ledger' \in [Reports -> Records \cup {None}]
    BY <1>1, <1>2, <2>1, AppliedIsLedger
  <2>3. QED
    BY <1>1, <2>2 DEF SessionInv, Network
<1>4. Unissued' \subseteq Unissued /\ (transacting' = transacting)
  BY <1>1 DEF Unissued, transacting
<1>5. Busy' /\ Calling'
  BY <1>1, <1>4, BusyStays, CallingStays
<1>6. Checkpointing'
  BY <1>1, <1>4 DEF SessionInv, Checkpointing, Marked, Journaled, latest
<1>7. QED
  BY <1>1, <1>3, <1>4, <1>5, <1>6, SoundStays DEF SessionInv, Advances

\* A tab opens with whatever copy of this program there is.
LEMMA SessionInit == Init => SessionInv
<1> SUFFICES ASSUME Init PROVE SessionInv
  OBVIOUS
<1>1. /\ session = Fresh /\ providers = FALSE /\ task = None /\ checkpointing = None
      /\ sdk = {} /\ pool = {} /\ calls = 0
      /\ rows \in {<<>>} \cup {<<c>> : c \in Copies}
      /\ used = {rows[i].report : i \in DOMAIN rows} \ {None}
      /\ ledger = [r \in Reports |->
             IF r \in used THEN Record(rows[1].status, rows[1].patch, rows[1].retest, rows[1].payout)
             ELSE None]
  BY DEF Init
<1>2. Busy
  BY <1>1 DEF Busy
<1>3. Sound
  <2>1. Fresh.reportAttempts = <<>> /\ ~Fresh.contractAddress /\ Fresh.mode # "midnight"
    BY DEF Fresh
  <2>2. Fresh # Blank
    BY <2>1, BlankIs
  <2>3. Known(session)
    BY <1>1, <2>1 DEF Known
  <2>4. QED
    BY <1>1, <2>1, <2>2, <2>3, WholeFresh DEF Sound
<1>4. Calling /\ Checkpointing
  BY <1>1 DEF Calling, Checkpointing
<1>5. ledger \in [Reports -> Records \cup {None}]
  <2>1. CASE rows = <<>>
    <3>1. used = {}
      BY <1>1, <2>1
    <3>2. QED
      BY <1>1, <3>1
  <2>2. ASSUME NEW c \in Copies, rows = <<c>> PROVE ledger \in [Reports -> Records \cup {None}]
    <3>1. c \in Snapshots /\ rows[1] = c
      BY <2>2, SessionConstants
    <3>2. Record(c.status, c.patch, c.retest, c.payout) \in Records
      BY <3>1 DEF Snapshots, Records, Record
    <3>3. QED
      BY <1>1, <3>1, <3>2
  <2>3. QED
    BY <1>1, <2>1, <2>2
<1>6. QED
  BY <1>1, <1>2, <1>3, <1>4, <1>5 DEF SessionInv, Network

-----------------------------------------------------------------------------
(* What is stored names every transaction that it named.                   *)

\* A snapshot names its own transactions.
LEMMA GrowsItself ==
  ASSUME NEW s PROVE Grows(s, s)
BY DEF Grows

\* Along the saves of a session nothing is lost.
LEMMA GrowsOn ==
  ASSUME NEW s, NEW t, NEW u, Grows(s, t), Grows(t, u)
  PROVE  Grows(s, u)
<1>1. s.deploymentTransactionId # 0 => u.deploymentTransactionId = s.deploymentTransactionId
  BY DEF Grows
<1>2. ASSUME NEW i \in DOMAIN s.reportAttempts, s.reportAttempts[i].transactionId # 0
      PROVE  \E j \in DOMAIN u.reportAttempts :
                /\ u.reportAttempts[j].transactionId = s.reportAttempts[i].transactionId
                /\ u.reportAttempts[j].circuit = s.reportAttempts[i].circuit
                /\ u.reportAttempts[j].reportId = s.reportAttempts[i].reportId
  <2>1. PICK k \in DOMAIN t.reportAttempts :
          /\ t.reportAttempts[k].transactionId = s.reportAttempts[i].transactionId
          /\ t.reportAttempts[k].circuit = s.reportAttempts[i].circuit
          /\ t.reportAttempts[k].reportId = s.reportAttempts[i].reportId
    BY <1>2 DEF Grows
  <2>2. PICK j \in DOMAIN u.reportAttempts :
          /\ u.reportAttempts[j].transactionId = t.reportAttempts[k].transactionId
          /\ u.reportAttempts[j].circuit = t.reportAttempts[k].circuit
          /\ u.reportAttempts[j].reportId = t.reportAttempts[k].reportId
    BY <1>2, <2>1 DEF Grows
  <2>3. QED
    BY <2>1, <2>2
<1>3. QED
  BY <1>1, <1>2 DEF Grows

\* What names a transaction goes on naming it.
LEMMA NamesOn ==
  ASSUME NEW s, NEW t, NEW c, Grows(s, t), names(s, c), c.id # 0
  PROVE  names(t, c)
<1>1. CASE c.circuit = "constructor"
  BY <1>1 DEF names, Grows
<1>2. CASE c.circuit # "constructor"
  <2>1. PICK i \in DOMAIN s.reportAttempts :
          /\ s.reportAttempts[i].transactionId = c.id
          /\ s.reportAttempts[i].circuit = c.circuit
          /\ s.reportAttempts[i].reportId = c.reportId
    BY <1>2 DEF names
  <2>2. PICK j \in DOMAIN t.reportAttempts :
          /\ t.reportAttempts[j].transactionId = s.reportAttempts[i].transactionId
          /\ t.reportAttempts[j].circuit = s.reportAttempts[i].circuit
          /\ t.reportAttempts[j].reportId = s.reportAttempts[i].reportId
    BY <2>1 DEF Grows
  <2>3. QED
    BY <1>2, <2>1, <2>2 DEF names
<1>3. QED
  BY <1>1, <1>2

\* A session with the identifier of a call names it.
LEMMA MarkedNames ==
  ASSUME NEW s \in Snapshots, NEW c, Marked(s, c)
  PROVE  names(s, c)
<1>1. CASE c \in Deployments /\ s.deploymentTransactionId = c.id
  BY <1>1 DEF Deployments, names
<1>2. CASE c \in ReportCalls /\ Journaled(s, c) /\ latest(s).transactionId = c.id
  <2>1. s.reportAttempts # <<>> /\ s.reportAttempts \in Seq(Attempts)
    BY <1>2 DEF Journaled, Snapshots, Attempts
  <2>2. PICK n : n = Len(s.reportAttempts)
    OBVIOUS
  <2>3. n \in DOMAIN s.reportAttempts /\ latest(s) = s.reportAttempts[n]
    BY <2>1, <2>2 DEF latest, Last
  <2>4. c.circuit # "constructor"
    BY <1>2, Workflow DEF ReportCalls
  <2>5. QED
    BY <1>2, <2>3, <2>4 DEF Journaled, names
<1>3. QED
  BY <1>1, <1>2 DEF Marked

\* A writer follows its session.
LEMMA WriterFollows ==
  ASSUME NEW w, NEW c, NEW s, NEW t, WriterOf(w, c, s), Grows(s, t)
  PROVE  WriterOf(w, c, t)
BY GrowsOn DEF WriterOf

\* And takes one more save of it.
LEMMA WriterAppends ==
  ASSUME NEW w, NEW c, NEW s, NEW t, WriterOf(w, c, s), NEW x \in Snapshots,
         Grows(s, x), Grows(x, t), Grows(s, t), NEW b \in BOOLEAN
  PROVE  WriterOf([w EXCEPT !.queue = Append(@, x), !.leased = b], c, t)
<1> DEFINE v == [w EXCEPT !.queue = Append(@, x), !.leased = b]
           q == Append(w.queue, x)
           n == Len(w.queue)
<1>1. /\ w.queue \in Seq(Snapshots) /\ w.row \in DOMAIN c /\ w.saved \in Snapshots
      /\ w \in [row : DOMAIN c, queue : Seq(Snapshots), saved : Snapshots, leased : BOOLEAN]
      /\ w.saved = c[w.row]
  BY DEF WriterOf
<1>2. /\ v.queue = q /\ v.row = w.row /\ v.saved = w.saved /\ v.leased = b
      /\ v \in [row : DOMAIN c, queue : Seq(Snapshots), saved : Snapshots, leased : BOOLEAN]
  <2>1. q \in Seq(Snapshots)
    BY <1>1
  <2>2. v = [w EXCEPT !.queue = q, !.leased = b]
    OBVIOUS
  <2> HIDE DEF v, q
  <2>3. QED
    BY <1>1, <2>1, <2>2
<1>3. /\ n \in Nat /\ DOMAIN w.queue = 1..n /\ DOMAIN q = 1..(n + 1) /\ Len(q) = n + 1 /\ q[n + 1] = x
      /\ \A i \in 1..n : q[i] = w.queue[i]
  BY <1>1
<1>4. Grows(w.saved, s) /\ Grows(w.saved, t) /\ Grows(w.saved, x)
  BY GrowsOn DEF WriterOf
<1>5. \A i \in 1..n : /\ Grows(w.saved, w.queue[i]) /\ Grows(w.queue[i], s)
                      /\ \A j \in i..n : Grows(w.queue[i], w.queue[j])
  BY <1>3 DEF WriterOf
<1> HIDE DEF v, q, n
<1>6. \A i \in 1..n : Grows(w.queue[i], t) /\ Grows(w.queue[i], x)
  BY <1>5, GrowsOn
<1>7. ASSUME NEW i \in 1..(n + 1)
      PROVE  /\ Grows(w.saved, q[i]) /\ Grows(q[i], t)
             /\ \A j \in i..(n + 1) : Grows(q[i], q[j])
  <2>1. CASE i = n + 1
    BY <1>3, <1>4, <2>1, GrowsItself
  <2>2. CASE i \in 1..n
    <3>1. q[i] = w.queue[i] /\ Grows(q[i], x) /\ Grows(q[i], t) /\ Grows(w.saved, q[i])
      BY <1>3, <1>5, <1>6, <2>2
    <3>2. ASSUME NEW j \in i..(n + 1) PROVE Grows(q[i], q[j])
      <4>1. CASE j = n + 1
        BY <1>3, <3>1, <4>1
      <4>2. CASE j \in i..n
        <5>1. j \in 1..n
          BY <1>3, <2>2, <4>2
        <5>2. q[j] = w.queue[j] /\ Grows(w.queue[i], w.queue[j])
          BY <1>3, <1>5, <2>2, <4>2, <5>1
        <5>3. QED
          BY <3>1, <5>2
      <4>3. QED
        BY <1>3, <2>2, <4>1, <4>2
    <3>3. QED
      BY <3>1, <3>2
  <2>3. QED
    BY <1>3, <2>1, <2>2
<1>8. WriterOf(v, c, t)
  BY <1>1, <1>2, <1>3, <1>4, <1>7 DEF WriterOf
<1>9. QED
  BY <1>8 DEF v

\* And completes its first one.
LEMMA WriterSaves ==
  ASSUME NEW w, NEW c \in Seq(Snapshots), NEW s, WriterOf(w, c, s), w.queue # <<>>
  PROVE  /\ WriterOf([w EXCEPT !.queue = Tail(@), !.saved = Head(w.queue)],
                     [c EXCEPT ![w.row] = Head(w.queue)], s)
         /\ Grows(c[w.row], Head(w.queue)) /\ Head(w.queue) \in Snapshots
         /\ Head(w.queue) = w.queue[1] /\ 1 \in DOMAIN w.queue
<1> DEFINE v == [w EXCEPT !.queue = Tail(@), !.saved = Head(w.queue)]
           q == Tail(w.queue)
           n == Len(w.queue)
           d == [c EXCEPT ![w.row] = Head(w.queue)]
<1>1. /\ w.queue \in Seq(Snapshots) /\ w.row \in DOMAIN c /\ w.saved = c[w.row]
      /\ w \in [row : DOMAIN c, queue : Seq(Snapshots), saved : Snapshots, leased : BOOLEAN]
  BY DEF WriterOf
<1>2. /\ n \in Nat /\ n >= 1 /\ DOMAIN w.queue = 1..n /\ Head(w.queue) = w.queue[1]
      /\ Head(w.queue) \in Snapshots
      /\ q \in Seq(Snapshots) /\ Len(q) = n - 1 /\ DOMAIN q = 1..(n - 1)
      /\ \A i \in 1..(n - 1) : q[i] = w.queue[i + 1]
  BY <1>1
<1>3. DOMAIN d = DOMAIN c /\ d[w.row] = Head(w.queue)
  BY <1>1
<1>4. /\ v.queue = q /\ v.row = w.row /\ v.saved = Head(w.queue)
      /\ v \in [row : DOMAIN d, queue : Seq(Snapshots), saved : Snapshots, leased : BOOLEAN]
  BY <1>1, <1>2, <1>3
<1>5. \A i \in 1..n : /\ Grows(w.saved, w.queue[i]) /\ Grows(w.queue[i], s)
                      /\ \A j \in i..n : Grows(w.queue[i], w.queue[j])
  BY <1>2 DEF WriterOf
<1> HIDE DEF v, q, n, d
<1>6. ASSUME NEW i \in 1..(n - 1)
      PROVE  /\ Grows(w.queue[1], q[i]) /\ Grows(q[i], s)
             /\ \A j \in i..(n - 1) : Grows(q[i], q[j])
  <2>1. i + 1 \in 1..n /\ 1 \in 1..n /\ i + 1 \in 1..n
    BY <1>2
  <2>2. q[i] = w.queue[i + 1] /\ Grows(w.queue[1], q[i]) /\ Grows(q[i], s)
    BY <1>2, <1>5, <2>1
  <2>3. ASSUME NEW j \in i..(n - 1) PROVE Grows(q[i], q[j])
    <3>1. j \in 1..(n - 1) /\ j + 1 \in (i + 1)..n
      BY <1>2
    <3>2. q[j] = w.queue[j + 1] /\ Grows(w.queue[i + 1], w.queue[j + 1])
      BY <1>2, <1>5, <2>1, <3>1
    <3>3. QED
      BY <2>2, <3>2
  <2>4. QED
    BY <2>2, <2>3
<1>7. Grows(w.queue[1], s) /\ Grows(w.saved, w.queue[1])
  BY <1>2, <1>5
<1>8. WriterOf(v, d, s)
  BY <1>2, <1>3, <1>4, <1>6, <1>7 DEF WriterOf
<1>9. QED
  BY <1>1, <1>2, <1>7, <1>8 DEF v, d

-----------------------------------------------------------------------------
(* What a step makes of the copies and of what is on its way to them.      *)

\* A step of a tab that goes on saving takes nothing from its session.
Carries ==
    /\ Unissued' \subseteq Unissued
    /\ writer' # None \/ enabling' # None => Grows(session, session')

RowsGrow ==
    /\ DOMAIN rows \subseteq DOMAIN rows'
    /\ \A i \in DOMAIN rows : Grows(rows[i], rows'[i])

\* What can be saved can be saved later.
LEMMA SavableStays ==
  ASSUME NEW s, Savable(s), Unissued' \subseteq Unissued
  PROVE  Savable(s)'
BY DEF Savable, Whole, clean, Known

\* The copies, by their snapshots.
LEMMA RowsBecome ==
  ASSUME Unissued' \subseteq Unissued, rows' \in Seq(Snapshots),
         \A i \in DOMAIN rows' : Savable(rows'[i])
  PROVE  RowsKept'
<1>1. ASSUME NEW i \in DOMAIN rows' PROVE Savable(rows[i])'
  <2>1. PICK s : s = rows'[i]
    OBVIOUS
  <2>2. Savable(s)'
    BY <2>1, SavableStays
  <2>3. QED
    BY <2>1, <2>2 DEF Savable, Whole, clean, Known
<1>2. QED
  BY <1>1 DEF RowsKept

\* The writer, by what it has to save.
LEMMA WriterBecomes ==
  ASSUME NEW w, NEW c, NEW s, writer' = w, rows' = c, session' = s,
         w # None => WriterOf(w, c, s) /\ \A i \in DOMAIN w.queue : Savable(w.queue[i])'
  PROVE  WriterKept'
<1> SUFFICES ASSUME w # None PROVE WriterKept'
  BY DEF WriterKept
<1>1. WriterOf(writer, rows, session)'
  BY DEF WriterOf, Grows
<1>2. ASSUME NEW i \in DOMAIN w.queue PROVE Savable(writer.queue[i])'
  BY DEF Savable, Whole, clean, Known
<1>3. QED
  BY <1>1, <1>2 DEF WriterKept

\* What a writer has to save can still be saved.
LEMMA QueueStays ==
  ASSUME NEW w, \A i \in DOMAIN w.queue : Savable(w.queue[i]), Unissued' \subseteq Unissued
  PROVE  \A i \in DOMAIN w.queue : Savable(w.queue[i])'
BY DEF Savable, Whole, clean, Known

\* A copy that is being made, by its snapshot.
LEMMA EnablingBecomes ==
  ASSUME EnablingKept, Carries, enabling' = enabling \/ enabling' = None
  PROVE  EnablingKept'
<1> SUFFICES ASSUME enabling' # None PROVE EnablingKept'
  BY DEF EnablingKept
<1>1. PICK x, s, t : x = enabling /\ s = session /\ t = session'
  OBVIOUS
<1>2. enabling' = x /\ Savable(x) /\ Grows(x, s) /\ Grows(s, t)
  BY <1>1 DEF EnablingKept, Carries
<1>3. Savable(x)' /\ Grows(x, t)
  BY <1>2, SavableStays, GrowsOn DEF Carries
<1>4. Savable(enabling)' /\ Grows(enabling, session)'
  BY <1>1, <1>2, <1>3 DEF Savable, Whole, clean, Known, Grows
<1>5. QED
  BY <1>4 DEF EnablingKept

\* Late writes, by their rows.
LateWrite(o, copies) ==
    o.row \in DOMAIN copies /\ Savable(o.snapshot) /\ Grows(copies[o.row], o.snapshot)

LEMMA OrphansBecome ==
  ASSUME Unissued' \subseteq Unissued,
         \A o \in orphans' :
            /\ LateWrite(o, rows')
            /\ writer' # None => o.row # writer'.row
            /\ \A p \in orphans' : p.row = o.row => p = o
  PROVE  OrphansKept'
<1>1. ASSUME NEW o \in orphans'
      PROVE  /\ o.row \in DOMAIN rows' /\ Savable(o.snapshot)' /\ Grows(rows[o.row], o.snapshot)'
  <2>1. PICK s, r : s = o.snapshot /\ r = rows'[o.row]
    OBVIOUS
  <2>2. o.row \in DOMAIN rows' /\ Savable(s)' /\ Grows(r, s)
    BY <2>1, SavableStays DEF LateWrite
  <2>3. QED
    BY <2>1, <2>2 DEF Savable, Whole, clean, Known, Grows
<1>2. QED
  BY <1>1 DEF OrphansKept

\* What is stored stays stored while the session goes on.
LEMMA StoredWaits ==
  ASSUME Stored, Carries, UNCHANGED <<rows, orphans>>, enabling' = enabling \/ enabling' = None,
         \/ writer' = writer
         \/ writer' = None
         \/ writer # None /\ writer' = [writer EXCEPT !.leased = FALSE]
  PROVE  Stored' /\ RowsGrow
<1>1. RowsKept' /\ EnablingKept'
  BY RowsBecome, EnablingBecomes DEF Stored, RowsKept, Carries
<1>2. PICK w, v, c, s, t : w = writer /\ v = writer' /\ c = rows /\ s = session /\ t = session'
  OBVIOUS
<1>3. v # None => w # None /\ WriterOf(w, c, s) /\ Grows(s, t)
                  /\ \A i \in DOMAIN w.queue : Savable(w.queue[i])
  BY <1>2 DEF Stored, WriterKept, Carries
<1>4. v # None => WriterOf(v, c, t) /\ v.queue = w.queue /\ v.row = w.row
  <2>1. SUFFICES ASSUME v # None PROVE WriterOf(v, c, t) /\ v.queue = w.queue /\ v.row = w.row
    OBVIOUS
  <2>2. WriterOf(w, c, t)
    BY <1>3, <2>1, WriterFollows
  <2>3. v = w \/ v = [w EXCEPT !.leased = FALSE]
    BY <1>2, <2>1
  <2>4. CASE v = w
    BY <2>2, <2>4
  <2>5. CASE v = [w EXCEPT !.leased = FALSE]
    <3>1. /\ v \in [row : DOMAIN c, queue : Seq(Snapshots), saved : Snapshots, leased : BOOLEAN]
          /\ v.queue = w.queue /\ v.row = w.row /\ v.saved = w.saved
      BY <2>2, <2>5 DEF WriterOf
    <3>2. QED
      BY <2>2, <3>1 DEF WriterOf
  <2>6. QED
    BY <2>3, <2>4, <2>5
<1>5. WriterKept'
  <2>1. v # None => \A i \in DOMAIN v.queue : Savable(v.queue[i])'
    BY <1>3, <1>4, QueueStays DEF Carries
  <2>2. QED
    BY <1>2, <1>4, <2>1, WriterBecomes
<1>6. OrphansKept'
  BY <1>2, <1>3, <1>4, OrphansBecome DEF Stored, OrphansKept, LateWrite, Carries
<1>7. QED
  BY <1>1, <1>5, <1>6, GrowsItself DEF Stored, RowsGrow

\* A new copy takes no row from what there is.
LEMMA RowsAppend ==
  ASSUME Stored, NEW x, Savable(x), rows' = Append(rows, x)
  PROVE  /\ rows' \in Seq(Snapshots) /\ RowsGrow
         /\ \A i \in DOMAIN rows' : Savable(rows'[i])
         /\ Len(rows') \in DOMAIN rows' /\ rows'[Len(rows')] = x
         /\ \A i \in DOMAIN rows : rows'[i] = rows[i] /\ i # Len(rows')
         /\ DOMAIN rows \subseteq DOMAIN rows'
<1>1. rows \in Seq(Snapshots) /\ x \in Snapshots /\ \A i \in DOMAIN rows : Savable(rows[i])
  BY DEF Stored, RowsKept, Savable, Whole
<1>2. PICK n : n = Len(rows)
  OBVIOUS
<1>3. /\ n \in Nat /\ DOMAIN rows = 1..n /\ DOMAIN rows' = 1..(n + 1) /\ Len(rows') = n + 1
      /\ rows'[n + 1] = x /\ \A i \in 1..n : rows'[i] = rows[i]
      /\ rows' \in Seq(Snapshots)
  BY <1>1, <1>2, AppendProperties
<1>4. \A i \in DOMAIN rows' : i \in DOMAIN rows \/ i = n + 1
  BY <1>3
<1>5. \A i \in DOMAIN rows' : Savable(rows'[i])
  BY <1>1, <1>3, <1>4
<1>6. RowsGrow
  BY <1>3, GrowsItself DEF RowsGrow
<1>7. QED
  BY <1>3, <1>5, <1>6

\* A writer that is stopped may still complete the save it was at.
LEMMA StoredStops ==
  ASSUME Stored, Carries, stopWriter, enabling' = enabling \/ enabling' = None,
         NEW x, rows' = rows \/ (Savable(x) /\ rows' = Append(rows, x))
  PROVE  Stored' /\ RowsGrow
<1>1. /\ rows' \in Seq(Snapshots) /\ RowsGrow /\ \A i \in DOMAIN rows' : Savable(rows'[i])
      /\ \A i \in DOMAIN rows : i \in DOMAIN rows' /\ rows'[i] = rows[i]
  <2>1. CASE rows' = rows
    BY <2>1, GrowsItself DEF Stored, RowsKept, RowsGrow
  <2>2. CASE Savable(x) /\ rows' = Append(rows, x)
    BY <2>2, RowsAppend
  <2>3. QED
    BY <2>1, <2>2
<1>2. RowsKept' /\ EnablingKept'
  BY <1>1, RowsBecome, EnablingBecomes DEF Stored, Carries
<1>3. writer' = None /\ Unissued' \subseteq Unissued
  BY DEF stopWriter, Carries
<1>4. WriterKept'
  BY <1>3 DEF WriterKept
<1>5. OrphansKept'
  <2>1. \A o \in orphans :
           /\ LateWrite(o, rows) /\ LateWrite(o, rows')
           /\ writer # None => o.row # writer.row
           /\ \A p \in orphans : p.row = o.row => p = o
    BY <1>1 DEF Stored, OrphansKept, LateWrite
  <2>2. CASE orphans' = orphans
    BY <1>3, <2>1, <2>2, OrphansBecome
  <2>3. CASE orphans' # orphans
    <3>1. /\ writer # None /\ writer.queue # <<>>
          /\ orphans' = orphans \cup {[row |-> writer.row, snapshot |-> Head(writer.queue)]}
      BY <2>3 DEF stopWriter
    <3>2. PICK w, c, s, h : w = writer /\ c = rows /\ s = session /\ h = Head(writer.queue)
      OBVIOUS
    <3>3. /\ WriterOf(w, c, s) /\ w.queue # <<>> /\ c \in Seq(Snapshots)
          /\ \A i \in DOMAIN w.queue : Savable(w.queue[i])
      BY <3>1, <3>2 DEF Stored, RowsKept, WriterKept
    <3>4. Grows(c[w.row], h) /\ Savable(h) /\ w.row \in DOMAIN c
      <4>1. Grows(c[w.row], h) /\ h = w.queue[1] /\ 1 \in DOMAIN w.queue
        BY <3>2, <3>3, WriterSaves
      <4>2. QED
        BY <3>3, <4>1 DEF WriterOf
    <3>5. PICK o : o = [row |-> w.row, snapshot |-> h]
      OBVIOUS
    <3>6. o.row = w.row /\ o.snapshot = h /\ orphans' = orphans \cup {o}
      BY <3>1, <3>2, <3>5
    <3>7. LateWrite(o, rows')
      BY <1>1, <3>2, <3>4, <3>6 DEF LateWrite
    <3>8. \A p \in orphans' : /\ LateWrite(p, rows')
                              /\ \A q \in orphans' : q.row = p.row => q = p
      BY <2>1, <3>1, <3>2, <3>6, <3>7
    <3>9. QED
      BY <1>3, <3>8, OrphansBecome
  <2>4. QED
    BY <2>2, <2>3
<1>6. QED
  BY <1>1, <1>2, <1>4, <1>5 DEF Stored

\* A writer takes one more save.
LEMMA StoredAppends ==
  ASSUME Stored, Carries, UNCHANGED <<rows, orphans, enabling>>, writer # None,
         NEW x, Savable(x)', Grows(session, x), Grows(x, session'), NEW b \in BOOLEAN,
         writer' = [writer EXCEPT !.queue = Append(@, x), !.leased = b],
         writer' # None
  PROVE  Stored' /\ RowsGrow /\ writer'.leased = b
         /\ writer'.queue # <<>> /\ Last(writer'.queue) = x
<1>1. RowsKept' /\ EnablingKept'
  BY RowsBecome, EnablingBecomes DEF Stored, RowsKept, Carries
<1>2. PICK w, v, c, s, t : w = writer /\ v = writer' /\ c = rows /\ s = session /\ t = session'
  OBVIOUS
<1>3. /\ WriterOf(w, c, s) /\ Grows(s, t) /\ Grows(s, x) /\ Grows(x, t) /\ x \in Snapshots
      /\ \A i \in DOMAIN w.queue : Savable(w.queue[i])
  BY <1>2 DEF Stored, WriterKept, Carries, Savable, Whole
<1>4. v = [w EXCEPT !.queue = Append(@, x), !.leased = b]
  BY <1>2
<1>5. WriterOf(v, c, t)
  BY <1>3, <1>4, WriterAppends
<1>6. w.queue \in Seq(Snapshots)
      /\ w \in [row : DOMAIN c, queue : Seq(Snapshots), saved : Snapshots, leased : BOOLEAN]
  BY <1>3 DEF WriterOf
<1>7. v.row = w.row /\ v.leased = b /\ v.queue = Append(w.queue, x)
  BY <1>4, <1>6
<1>8. /\ v.queue # <<>> /\ Last(v.queue) = x
      /\ \A i \in DOMAIN v.queue : v.queue[i] = x \/ (i \in DOMAIN w.queue /\ v.queue[i] = w.queue[i])
  BY <1>3, <1>6, <1>7, AppendProperties DEF Last
<1>9. ASSUME NEW i \in DOMAIN v.queue PROVE Savable(v.queue[i])'
  <2>1. \A j \in DOMAIN w.queue : Savable(w.queue[j])'
    BY <1>3, QueueStays DEF Carries
  <2>2. CASE v.queue[i] = x
    BY <2>2 DEF Savable, Whole, clean, Known
  <2>3. CASE i \in DOMAIN w.queue /\ v.queue[i] = w.queue[i]
    BY <2>1, <2>3 DEF Savable, Whole, clean, Known
  <2>4. QED
    BY <1>8, <2>2, <2>3
<1>10. WriterKept'
  BY <1>2, <1>5, <1>9, WriterBecomes
<1>11. OrphansKept'
  BY <1>2, <1>7, OrphansBecome DEF Stored, OrphansKept, LateWrite, Carries
<1>12. QED
  BY <1>1, <1>2, <1>7, <1>8, <1>10, <1>11, GrowsItself DEF Stored, RowsGrow

\* A copy is made, with or without a writer of its own.
LEMMA StoredCopies ==
  ASSUME Stored, Carries, NEW x, Savable(x), rows' = Append(rows, x), UNCHANGED orphans,
         enabling' = enabling \/ enabling' = None, NEW b \in BOOLEAN,
         \/ writer' = writer
         \/ /\ Grows(x, session')
            /\ writer' = [row |-> Len(rows'), queue |-> <<>>, saved |-> x, leased |-> b]
  PROVE  Stored' /\ RowsGrow
<1>1. /\ rows' \in Seq(Snapshots) /\ RowsGrow
      /\ \A i \in DOMAIN rows' : Savable(rows'[i])
      /\ Len(rows') \in DOMAIN rows' /\ rows'[Len(rows')] = x
      /\ \A i \in DOMAIN rows : rows'[i] = rows[i] /\ i # Len(rows')
      /\ DOMAIN rows \subseteq DOMAIN rows'
  BY RowsAppend
<1>2. RowsKept' /\ EnablingKept'
  BY <1>1, RowsBecome, EnablingBecomes DEF Stored, Carries
<1>3. PICK w, v, c, d, s, t, n : /\ w = writer /\ v = writer' /\ c = rows /\ d = rows'
                                 /\ s = session /\ t = session' /\ n = Len(rows')
  OBVIOUS
<1>4. CASE writer' = writer
  <2>1. w # None => WriterOf(w, c, s) /\ Grows(s, t) /\ \A i \in DOMAIN w.queue : Savable(w.queue[i])
    BY <1>3, <1>4 DEF Stored, WriterKept, Carries
  <2>2. w # None => WriterOf(w, c, t)
    BY <2>1, WriterFollows
  <2>3. w # None => WriterOf(w, d, t)
    <3>1. SUFFICES ASSUME w # None PROVE WriterOf(w, d, t)
      OBVIOUS
    <3>2. w \in [row : DOMAIN c, queue : Seq(Snapshots), saved : Snapshots, leased : BOOLEAN]
      BY <2>2, <3>1 DEF WriterOf
    <3>3. w \in [row : DOMAIN d, queue : Seq(Snapshots), saved : Snapshots, leased : BOOLEAN]
      BY <1>1, <1>3, <3>2
    <3>4. QED
      BY <1>1, <1>3, <2>2, <3>1, <3>2, <3>3 DEF WriterOf
  <2>4. WriterKept'
    BY <1>3, <1>4, <2>1, <2>3, QueueStays, WriterBecomes DEF Carries
  <2>5. OrphansKept'
    BY <1>1, <1>4, OrphansBecome DEF Stored, OrphansKept, LateWrite, Carries
  <2>6. QED
    BY <1>1, <1>2, <2>4, <2>5 DEF Stored
<1>5. CASE /\ Grows(x, session')
           /\ writer' = [row |-> Len(rows'), queue |-> <<>>, saved |-> x, leased |-> b]
  <2>1. v = [row |-> n, queue |-> <<>>, saved |-> x, leased |-> b]
    BY <1>3, <1>5
  <2>2. PICK e : e = <<>>
    OBVIOUS
  <2>3. e \in Seq(Snapshots) /\ DOMAIN e = {} /\ x \in Snapshots /\ n \in DOMAIN d
    BY <1>1, <1>3, <2>2 DEF Savable, Whole
  <2>4. /\ v.row = n /\ v.queue = e /\ v.saved = x
        /\ v \in [row : DOMAIN d, queue : Seq(Snapshots), saved : Snapshots, leased : BOOLEAN]
    BY <2>1, <2>2, <2>3
  <2>5. WriterOf(v, d, t) /\ \A i \in DOMAIN v.queue : Savable(v.queue[i])
    BY <1>1, <1>3, <1>5, <2>3, <2>4 DEF WriterOf
  <2>6. WriterKept'
    BY <1>3, <2>5, QueueStays, WriterBecomes DEF Carries
  <2>7. OrphansKept'
    BY <1>1, <1>3, <2>4, OrphansBecome DEF Stored, OrphansKept, LateWrite, Carries
  <2>8. QED
    BY <1>1, <1>2, <2>6, <2>7 DEF Stored
<1>6. QED
  BY <1>4, <1>5

\* The writer completes its first save.
LEMMA StoredWrites ==
  ASSUME Stored, write, Carries
  PROVE  Stored' /\ RowsGrow
<1>1. /\ writer # None /\ writer.queue # <<>>
      /\ rows' = [rows EXCEPT ![writer.row] = Head(writer.queue)]
      /\ writer' = [writer EXCEPT !.queue = Tail(@), !.saved = Head(writer.queue)]
      /\ UNCHANGED <<orphans, enabling>> /\ session' = session
  BY DEF write, local
<1>2. PICK w, v, c, d, s, h : /\ w = writer /\ v = writer' /\ c = rows /\ d = rows'
                              /\ s = session /\ h = Head(writer.queue)
  OBVIOUS
<1>3. /\ WriterOf(w, c, s) /\ w.queue # <<>> /\ c \in Seq(Snapshots)
      /\ \A i \in DOMAIN w.queue : Savable(w.queue[i])
      /\ \A i \in DOMAIN c : Savable(c[i])
  BY <1>1, <1>2 DEF Stored, RowsKept, WriterKept
<1>4. /\ d = [c EXCEPT ![w.row] = Head(w.queue)] /\ h = Head(w.queue)
      /\ v = [w EXCEPT !.queue = Tail(@), !.saved = Head(w.queue)]
  BY <1>1, <1>2
<1>5. /\ WriterOf(v, d, s) /\ Grows(c[w.row], h) /\ h \in Snapshots
      /\ h = w.queue[1] /\ 1 \in DOMAIN w.queue
  BY <1>3, <1>4, WriterSaves
<1>6. /\ w.queue \in Seq(Snapshots) /\ w.row \in DOMAIN c
      /\ w \in [row : DOMAIN c, queue : Seq(Snapshots), saved : Snapshots, leased : BOOLEAN]
  BY <1>3 DEF WriterOf
<1>7. v.row = w.row /\ v.queue = Tail(w.queue)
  BY <1>4, <1>6
<1>8. \A i \in DOMAIN v.queue : Savable(v.queue[i])
  <2>1. ASSUME NEW i \in DOMAIN v.queue PROVE v.queue[i] = w.queue[i + 1] /\ i + 1 \in DOMAIN w.queue
    BY <1>3, <1>6, <1>7
  <2>2. QED
    BY <1>3, <2>1
<1>9. WriterKept'
  BY <1>1, <1>2, <1>5, <1>8, QueueStays, WriterBecomes DEF Carries
<1>10. /\ d \in Seq(Snapshots) /\ DOMAIN d = DOMAIN c /\ d[w.row] = h
       /\ \A i \in DOMAIN c : i # w.row => d[i] = c[i]
  BY <1>3, <1>4, <1>5, <1>6
<1>11. \A i \in DOMAIN d : Savable(d[i])
  BY <1>3, <1>5, <1>10
<1>12. RowsKept' /\ RowsGrow
  <2>1. RowsKept'
    BY <1>2, <1>10, <1>11, RowsBecome DEF Carries
  <2>2. \A i \in DOMAIN c : Grows(c[i], d[i])
    BY <1>5, <1>10, GrowsItself
  <2>3. QED
    BY <1>2, <1>10, <2>1, <2>2 DEF RowsGrow
<1>13. OrphansKept'
  <2>1. \A o \in orphans : LateWrite(o, c) /\ o.row # w.row
    BY <1>1, <1>2 DEF Stored, OrphansKept, LateWrite
  <2>2. \A o \in orphans : LateWrite(o, d)
    BY <1>10, <2>1 DEF LateWrite
  <2>3. QED
    BY <1>1, <1>2, <1>7, <2>1, <2>2, OrphansBecome DEF Stored, OrphansKept, Carries
<1>14. EnablingKept'
  BY <1>1, EnablingBecomes DEF Stored
<1>15. QED
  BY <1>9, <1>12, <1>13, <1>14 DEF Stored

\* A late write is committed, or is not.
LEMMA StoredLate ==
  ASSUME Stored, NEW o \in orphans, orphanEnds(o), Carries
  PROVE  Stored' /\ RowsGrow
<1>1. /\ orphans' = orphans \ {o} /\ UNCHANGED <<writer, enabling>> /\ session' = session
      /\ rows' = [rows EXCEPT ![o.row] = o.snapshot] \/ rows' = rows
  BY DEF orphanEnds, local
<1>2. PICK w, c, d, s, k, h : /\ w = writer /\ c = rows /\ d = rows' /\ s = session
                              /\ k = o.row /\ h = o.snapshot
  OBVIOUS
<1>3. /\ k \in DOMAIN c /\ Savable(h) /\ Grows(c[k], h) /\ c \in Seq(Snapshots)
      /\ (w # None => k # w.row)
      /\ \A i \in DOMAIN c : Savable(c[i])
      /\ \A p \in orphans : p.row = k => p = o
  BY <1>2 DEF Stored, RowsKept, OrphansKept
<1>4. /\ d \in Seq(Snapshots) /\ DOMAIN d = DOMAIN c
      /\ d[k] = h \/ d[k] = c[k]
      /\ \A i \in DOMAIN c : i # k => d[i] = c[i]
  <2>1. h \in Snapshots
    BY <1>3 DEF Savable, Whole
  <2>2. CASE d = c
    BY <1>3, <2>2
  <2>3. CASE d = [c EXCEPT ![k] = h]
    BY <1>3, <2>1, <2>3
  <2>4. QED
    BY <1>1, <1>2, <2>2, <2>3
<1>5. \A i \in DOMAIN d : Savable(d[i])
  BY <1>3, <1>4
<1>6. RowsKept' /\ RowsGrow
  <2>1. RowsKept'
    BY <1>2, <1>4, <1>5, RowsBecome DEF Carries
  <2>2. \A i \in DOMAIN c : Grows(c[i], d[i])
    BY <1>3, <1>4, GrowsItself
  <2>3. QED
    BY <1>2, <1>4, <2>1, <2>2 DEF RowsGrow
<1>7. WriterKept'
  <2>1. w # None => WriterOf(w, c, s) /\ \A i \in DOMAIN w.queue : Savable(w.queue[i])
    BY <1>2 DEF Stored, WriterKept
  <2>2. w # None => WriterOf(w, d, s)
    <3>1. SUFFICES ASSUME w # None PROVE WriterOf(w, d, s)
      OBVIOUS
    <3>2. w \in [row : DOMAIN c, queue : Seq(Snapshots), saved : Snapshots, leased : BOOLEAN]
      BY <2>1, <3>1 DEF WriterOf
    <3>3. d[w.row] = c[w.row]
      BY <1>3, <1>4, <3>1, <3>2
    <3>4. QED
      BY <1>4, <2>1, <3>1, <3>2, <3>3 DEF WriterOf
  <2>3. QED
    BY <1>1, <1>2, <2>1, <2>2, QueueStays, WriterBecomes DEF Carries
<1>8. OrphansKept'
  <2>1. \A p \in orphans : /\ LateWrite(p, c)
                           /\ w # None => p.row # w.row
                           /\ \A q \in orphans : q.row = p.row => q = p
    BY <1>2 DEF Stored, OrphansKept, LateWrite
  <2>2. \A p \in orphans' : p \in orphans /\ p.row # k
    BY <1>1, <1>3
  <2>3. \A p \in orphans' : LateWrite(p, d)
    BY <1>4, <2>1, <2>2 DEF LateWrite
  <2>4. QED
    BY <1>1, <1>2, <2>1, <2>2, <2>3, OrphansBecome DEF Carries
<1>9. EnablingKept'
  BY <1>1, EnablingBecomes DEF Stored
<1>10. QED
  BY <1>6, <1>7, <1>8, <1>9 DEF Stored

\* What is worth saving can be saved.
LEMMA WorthSaving ==
  ASSUME SessionInv, hasSnapshot(session)
  PROVE  Savable(session)
<1>1. Whole(session)
  BY SessionIs DEF hasSnapshot
<1>2. QED
  BY <1>1 DEF Savable, SessionInv, Sound

\* A new copy is begun with the session as it is.
LEMMA StoredEnables ==
  ASSUME SessionInv, Stored, enable, Unissued' \subseteq Unissued
  PROVE  Stored' /\ RowsGrow
<1>1. /\ enabling' = session /\ hasSnapshot(session) /\ session' = session
      /\ UNCHANGED <<rows, writer, orphans>>
  BY DEF enable, local, storage, worthSaving
<1>2. PICK w, c, s : w = writer /\ c = rows /\ s = session
  OBVIOUS
<1>3. Savable(s)' /\ Grows(s, s)
  BY <1>1, <1>2, WorthSaving, SavableStays, GrowsItself
<1>4. EnablingKept'
  BY <1>1, <1>2, <1>3 DEF EnablingKept, Savable, Whole, clean, Known, Grows
<1>5. WriterKept'
  <2>1. w # None => WriterOf(w, c, s) /\ \A i \in DOMAIN w.queue : Savable(w.queue[i])
    BY <1>2 DEF Stored, WriterKept
  <2>2. QED
    BY <1>1, <1>2, <2>1, QueueStays, WriterBecomes
<1>6. RowsKept'
  BY <1>1, RowsBecome DEF Stored, RowsKept
<1>7. OrphansKept'
  BY <1>1, OrphansBecome DEF Stored, OrphansKept, LateWrite
<1>8. QED
  BY <1>1, <1>4, <1>5, <1>6, <1>7, GrowsItself DEF Stored, RowsGrow

\* Transactions that were broadcast stay journaled.
LEMMA StorageBy ==
  ASSUME StorageInv, Stored', RowsGrow, CheckpointKept', broadcast' = broadcast
  PROVE  StorageInv'
<1>1. broadcast' \subseteq Deployments \cup ReportCalls
  BY DEF StorageInv
<1>2. BroadcastIsJournaled'
  <2>1. ASSUME NEW t \in broadcast PROVE \E i \in DOMAIN rows' : names(rows'[i], t)
    <3>1. t.id # 0
      BY DEF StorageInv, Deployments, ReportCalls
    <3>2. PICK i \in DOMAIN rows : names(rows[i], t)
      BY DEF StorageInv, BroadcastIsJournaled
    <3>3. i \in DOMAIN rows' /\ names(rows'[i], t)
      BY <3>1, <3>2, NamesOn DEF RowsGrow
    <3>4. QED
      BY <3>3
  <2>2. QED
    BY <2>1 DEF BroadcastIsJournaled, names
<1>3. QED
  BY <1>1, <1>2 DEF StorageInv

\* A step without a checkpoint, or that changes neither it nor the writer.
LEMMA CheckpointStays ==
  ASSUME StorageInv,
         \/ checkpointing' = None
         \/ writer' = None
         \/ UNCHANGED <<checkpointing, writer>>
         \/ writer'.leased = FALSE
  PROVE  CheckpointKept'
BY DEF StorageInv, CheckpointKept, names

-----------------------------------------------------------------------------
(* Every action keeps what is stored.                                      *)

\* A session goes on beside its copies.
LEMMA QuietKeeps ==
  ASSUME StorageInv, Advances, UNCHANGED <<rows, autosave, broadcast>>,
         checkpointing' = checkpointing \/ checkpointing' = None
  PROVE  StorageInv'
<1>1. UNCHANGED <<writer, enabling, orphans, rows>> /\ Carries /\ Stored
  BY DEF autosave, Advances, Carries, StorageInv
<1>2. Stored' /\ RowsGrow
  BY <1>1, StoredWaits
<1>3. CheckpointKept'
  BY <1>1, CheckpointStays
<1>4. QED
  BY <1>2, <1>3, StorageBy

\* It goes on without its writer.
LEMMA StopKeeps ==
  ASSUME StorageInv, Advances, stopWriter, UNCHANGED <<rows, enabling, broadcast>>
  PROVE  StorageInv'
<1>1. Carries /\ Stored /\ writer' = None
  BY DEF Advances, Carries, StorageInv, stopWriter
<1>2. Stored' /\ RowsGrow
  BY <1>1, StoredStops
<1>3. CheckpointKept'
  BY <1>1, CheckpointStays
<1>4. QED
  BY <1>2, <1>3, StorageBy

\* It has its writer save x.
LEMMA EnqueueKeeps ==
  ASSUME StorageInv, Advances, UNCHANGED <<rows, orphans, enabling, broadcast>>, writer # None,
         NEW x, Savable(x)', Grows(session, x), Grows(x, session'), enqueue(x),
         checkpointing' # None => names(x, checkpointing')
  PROVE  StorageInv'
<1>1. Carries /\ Stored /\ writer' = [writer EXCEPT !.queue = Append(@, x), !.leased = TRUE]
  BY DEF Advances, Carries, StorageInv, enqueue
<1>2. CASE writer' = None
  <2>1. Stored' /\ RowsGrow
    BY <1>1, <1>2, StoredWaits
  <2>2. QED
    BY <1>2, <2>1, CheckpointStays, StorageBy
<1>3. CASE writer' # None
  <2>1. /\ Stored' /\ RowsGrow
        /\ writer'.queue # <<>> /\ Last(writer'.queue) = x
    BY <1>1, <1>3, StoredAppends
  <2>2. CheckpointKept'
    BY <2>1 DEF CheckpointKept, names
  <2>3. QED
    BY <2>1, <2>2, StorageBy
<1>4. QED
  BY <1>2, <1>3

\* The wallet, the program and the copies to start with.
LEMMA SetupKeeps == CombinedInv /\ Setup => CombinedInv'
<1> SUFFICES ASSUME CombinedInv, Setup PROVE CombinedInv'
  OBVIOUS
<1>1. SessionInv /\ StorageInv /\ RowsKept
  BY DEF CombinedInv, StorageInv, Stored
<1>2. CASE connectWallet
  <2>1. SessionInv' /\ Advances
    BY <1>1, <1>2, ConnectWalletKeeps
  <2>2. UNCHANGED <<rows, autosave, broadcast, checkpointing>>
    BY <1>2 DEF connectWallet, storage, network, rest
  <2>3. QED
    BY <1>1, <2>1, <2>2, QuietKeeps DEF CombinedInv
<1>3. CASE createProgram
  <2>1. SessionInv' /\ Advances
    BY <1>1, <1>3, CreateProgramKeeps
  <2>2. UNCHANGED <<rows, enabling, broadcast, checkpointing>>
        /\ (stopWriter \/ UNCHANGED <<writer, orphans>>)
    BY <1>3 DEF createProgram, storage, network, rest
  <2>3. QED
    BY <1>1, <2>1, <2>2, QuietKeeps, StopKeeps DEF CombinedInv, autosave
<1>4. CASE recoverDeployment
  <2>1. SessionInv' /\ Advances
    BY <1>1, <1>4, RecoverKeeps
  <2>2. UNCHANGED <<rows, autosave, broadcast, checkpointing>>
    BY <1>4 DEF recoverDeployment, storage, network, rest
  <2>3. QED
    BY <1>1, <2>1, <2>2, QuietKeeps DEF CombinedInv
<1>5. ASSUME NEW i \in DOMAIN rows, importRecovery(i) PROVE CombinedInv'
  <2>1. SessionInv' /\ Advances
    BY <1>1, <1>5, ImportKeeps
  <2>2. UNCHANGED <<rows, autosave, broadcast, checkpointing>>
    BY <1>5 DEF importRecovery, storage, network, rest
  <2>3. QED
    BY <1>1, <2>1, <2>2, QuietKeeps DEF CombinedInv
<1>6. QED
  BY <1>2, <1>3, <1>4, <1>5 DEF Setup

\* An operation on a report begins.
LEMMA StartKeeps == CombinedInv /\ Start => CombinedInv'
<1> SUFFICES ASSUME CombinedInv, Start PROVE CombinedInv'
  OBVIOUS
<1>1. SessionInv /\ StorageInv
  BY DEF CombinedInv
<1>2. ASSUME NEW r \in Reports, submitSealedReport(r) PROVE CombinedInv'
  <2>1. SessionInv' /\ Advances /\ Whole(session)'
    BY <1>1, <1>2, SubmitKeeps
  <2>2. PICK x : x = session'
    OBVIOUS
  <2>3. /\ UNCHANGED <<rows, orphans, enabling, broadcast, checkpointing>> /\ task = None
        /\ UNCHANGED writer \/ (writer # None /\ enqueue(x))
    <3>1. session.contractAddress => writer # None
      BY <1>2 DEF submitSealedReport, beginAction
    <3>2. task = None
      BY <1>2 DEF submitSealedReport, beginAction, begin
    <3>3. UNCHANGED <<rows, orphans, enabling, broadcast, checkpointing>>
      BY <1>2 DEF submitSealedReport, network, rest
    <3>4. UNCHANGED writer \/ (session.contractAddress /\ enqueue(x))
      BY <1>2, <2>2 DEF submitSealedReport
    <3>5. QED
      BY <3>1, <3>2, <3>3, <3>4
  <2>4. CASE UNCHANGED writer
    BY <1>1, <2>1, <2>3, <2>4, QuietKeeps DEF CombinedInv, autosave
  <2>5. CASE writer # None /\ enqueue(x)
    <3>1. Savable(x)' /\ Grows(session, x) /\ Grows(x, session')
      BY <2>1, <2>2, GrowsItself DEF SessionInv, Sound, Savable, Whole, clean, Known, Advances
    <3>2. checkpointing = None
      BY <1>1, <2>3, NoCheckpoint DEF transacting
    <3>3. QED
      BY <1>1, <2>1, <2>3, <2>5, <3>1, <3>2, EnqueueKeeps DEF CombinedInv
  <2>6. QED
    BY <2>3, <2>4, <2>5
<1>3. ASSUME NEW c \in Transitions, NEW next \in Circuits[c].to, vendorOrResearcherAction(c, next)
      PROVE  CombinedInv'
  <2>1. SessionInv' /\ Advances
    BY <1>1, <1>3, ActionKeeps
  <2>2. UNCHANGED <<rows, autosave, broadcast, checkpointing>>
    BY <1>3 DEF vendorOrResearcherAction, storage, network, rest
  <2>3. QED
    BY <1>1, <2>1, <2>2, QuietKeeps DEF CombinedInv
<1>4. CASE retryPublicRead
  <2>1. SessionInv' /\ Advances
    BY <1>1, <1>4, RetryKeeps
  <2>2. UNCHANGED <<rows, autosave, broadcast, checkpointing>>
    BY <1>4 DEF retryPublicRead, storage, network
  <2>3. QED
    BY <1>1, <2>1, <2>2, QuietKeeps DEF CombinedInv
<1>5. QED
  BY <1>2, <1>3, <1>4 DEF Start

\* A lease is given back.
LEMMA ReleaseKeeps ==
  ASSUME StorageInv, Advances, UNCHANGED <<rows, orphans, enabling, broadcast>>,
         writer # None, writer' = released, checkpointing' = None
  PROVE  StorageInv'
<1>1. Carries /\ Stored /\ writer' = [writer EXCEPT !.leased = FALSE]
  BY DEF Advances, Carries, StorageInv, released
<1>2. Stored' /\ RowsGrow
  BY <1>1, StoredWaits
<1>3. QED
  BY <1>2, CheckpointStays, StorageBy

\* A deployment is in a copy when the SDK is called, and may be when it is not.
LEMMA DeploymentKeeps == CombinedInv /\ (deploy \/ deployFails) => CombinedInv'
<1> SUFFICES ASSUME CombinedInv, deploy \/ deployFails PROVE CombinedInv'
  OBVIOUS
<1>1. SessionInv /\ StorageInv /\ Stored
  BY DEF CombinedInv, StorageInv
<1>2. PICK x : x = [session EXCEPT !.deploymentAttempt = TRUE]
  OBVIOUS
<1>3. task = Task("deploy", "copying") /\ ~transacting /\ checkpointing = None
  <2>1. task = Task("deploy", "copying")
    BY DEF deploy, deployFails
  <2>2. ~transacting
    BY <2>1 DEF transacting, Task
  <2>3. QED
    BY <1>1, <2>1, <2>2, NoCheckpoint
<1>4. Savable(x)
  <2>1. session = Blank
    BY <1>1, <1>3, TaskIs DEF SessionInv, Deploying
  <2>2. Whole(x) /\ x.reportAttempts = <<>>
    BY <1>2, <2>1, WholeDeploying
  <2>3. QED
    BY <2>2 DEF Savable, Known
<1>5. CASE deploy
  <2>1. SessionInv' /\ Advances /\ session' = x
    BY <1>1, <1>2, <1>5, DeployKeeps
  <2>2. /\ rows' = Append(rows, x) /\ UNCHANGED <<orphans, enabling, broadcast, checkpointing>>
        /\ writer' = [row |-> Len(rows'), queue |-> <<>>, saved |-> x, leased |-> TRUE]
    BY <1>2, <1>5 DEF deploy, keep, Writer
  <2>3. Stored' /\ RowsGrow
    BY <1>1, <1>4, <2>1, <2>2, GrowsItself, StoredCopies DEF Advances, Carries
  <2>4. QED
    BY <1>1, <1>3, <2>1, <2>2, <2>3, CheckpointStays, StorageBy DEF CombinedInv
<1>6. CASE deployFails
  <2>1. SessionInv' /\ Advances
    BY <1>1, <1>6, FailureKeeps
  <2>2. /\ rows' = rows \/ rows' = Append(rows, x)
        /\ UNCHANGED <<writer, orphans, enabling, broadcast, checkpointing>>
    BY <1>2, <1>6 DEF deployFails, keep, autosave, network, rest
  <2>3. CASE rows' = rows
    BY <1>1, <2>1, <2>2, <2>3, QuietKeeps DEF CombinedInv, autosave
  <2>4. CASE rows' = Append(rows, x)
    <3>1. Stored' /\ RowsGrow
      BY <1>1, <1>4, <2>1, <2>2, <2>4, StoredCopies DEF Advances, Carries
    <3>2. QED
      BY <1>1, <2>1, <2>2, <3>1, CheckpointStays, StorageBy DEF CombinedInv
  <2>5. QED
    BY <2>2, <2>3, <2>4
<1>7. QED
  BY <1>5, <1>6

\* A saved preparation gives the writer back; a failed one may stop it.
LEMMA PreparationKeeps == CombinedInv /\ (preparationSaved \/ preparationFails) => CombinedInv'
<1> SUFFICES ASSUME CombinedInv, preparationSaved \/ preparationFails PROVE CombinedInv'
  OBVIOUS
<1>1. SessionInv /\ StorageInv
  BY DEF CombinedInv
<1>2. SessionInv' /\ Advances
  BY <1>1, PreparationSavedKeeps, FailureKeeps
<1>3. CASE preparationSaved
  <2>1. /\ UNCHANGED <<rows, orphans, enabling, broadcast, checkpointing>>
        /\ writer # None /\ writer' = released /\ task = Task("seal", "saving")
    BY <1>3 DEF preparationSaved, settled, storage, network, rest
  <2>2. ~transacting
    BY <2>1 DEF transacting, Task
  <2>3. QED
    BY <1>1, <1>2, <2>1, <2>2, NoCheckpoint, ReleaseKeeps DEF CombinedInv
<1>4. CASE preparationFails
  <2>1. /\ UNCHANGED <<rows, enabling, broadcast, checkpointing>>
        /\ stopWriter \/ UNCHANGED <<writer, orphans>>
    BY <1>4 DEF preparationFails, storage, network, rest
  <2>2. QED
    BY <1>1, <1>2, <2>1, QuietKeeps, StopKeeps DEF CombinedInv, autosave
<1>5. QED
  BY <1>3, <1>4

\* The intent is given to the writer, if there is a free one.
LEMMA RunKeeps == CombinedInv /\ runReportTransaction => CombinedInv'
<1> SUFFICES ASSUME CombinedInv, runReportTransaction PROVE CombinedInv'
  OBVIOUS
<1>1. SessionInv /\ StorageInv
  BY DEF CombinedInv
<1>2. SessionInv' /\ Advances /\ Whole(session)'
  BY <1>1, TransactionKeeps
<1>3. /\ UNCHANGED <<rows, orphans, enabling, broadcast, checkpointing>>
      /\ UNCHANGED writer \/ (writer # None /\ enqueue(session'))
  BY DEF runReportTransaction, storage
<1>4. PICK x : x = session'
  OBVIOUS
<1>5. CASE UNCHANGED writer
  BY <1>1, <1>2, <1>3, <1>5, QuietKeeps DEF CombinedInv, autosave
<1>6. CASE writer # None /\ enqueue(x)
  <2>1. Savable(x)' /\ Grows(session, x) /\ Grows(x, session')
    BY <1>2, <1>4, GrowsItself DEF SessionInv, Sound, Savable, Whole, clean, Known, Advances
  <2>2. checkpointing = None
    BY <1>1, AtNetwork, NoCheckpoint DEF runReportTransaction
  <2>3. QED
    BY <1>1, <1>2, <1>3, <1>6, <2>1, <2>2, EnqueueKeeps DEF CombinedInv
<1>7. QED
  BY <1>3, <1>4, <1>5, <1>6

\* What is broadcast is named by the copy that its checkpoint was saved to.
LEMMA BroadcastKeeps == CombinedInv /\ checkpointSaved => CombinedInv'
<1> SUFFICES ASSUME CombinedInv, checkpointSaved PROVE CombinedInv'
  OBVIOUS
<1>1. SessionInv /\ StorageInv /\ Stored
  BY DEF CombinedInv, StorageInv
<1>2. SessionInv' /\ Advances /\ checkpointing \in Deployments \cup ReportCalls
  BY <1>1, CheckpointSavedKeeps
<1>3. /\ checkpointing # None /\ checkpointing' = None /\ settled
      /\ UNCHANGED <<rows, writer, orphans, enabling>>
      /\ broadcast' = broadcast \cup {checkpointing}
  BY DEF checkpointSaved, autosave, storage
<1>4. Stored' /\ CheckpointKept'
  BY <1>1, <1>2, <1>3, StoredWaits, CheckpointStays DEF Advances, Carries
<1>5. names(writer.saved, checkpointing)
  BY <1>1, <1>3 DEF StorageInv, CheckpointKept, settled
<1>6. writer.row \in DOMAIN rows /\ writer.saved = rows[writer.row]
  <2>1. PICK w, c, s : w = writer /\ c = rows /\ s = session
    OBVIOUS
  <2>2. WriterOf(w, c, s)
    BY <1>1, <1>3, <2>1 DEF Stored, WriterKept, settled
  <2>3. QED
    BY <2>1, <2>2 DEF WriterOf
<1>7. \A t \in broadcast' : \E i \in DOMAIN rows : names(rows[i], t)
  BY <1>1, <1>3, <1>5, <1>6 DEF StorageInv, BroadcastIsJournaled
<1>8. BroadcastIsJournaled'
  BY <1>3, <1>7 DEF BroadcastIsJournaled, names
<1>9. broadcast' \subseteq Deployments \cup ReportCalls
  BY <1>1, <1>2, <1>3 DEF StorageInv
<1>10. QED
  BY <1>2, <1>4, <1>8, <1>9 DEF CombinedInv, StorageInv

\* A transaction fails, or is confirmed, saved and done.
LEMMA OutcomeKeeps ==
  CombinedInv /\ (transactionFails \/ transactionConfirmed \/ finishTransaction) => CombinedInv'
<1> SUFFICES ASSUME CombinedInv, transactionFails \/ transactionConfirmed \/ finishTransaction
             PROVE  CombinedInv'
  OBVIOUS
<1>1. SessionInv /\ StorageInv
  BY DEF CombinedInv
<1>2. CASE transactionFails
  <2>1. SessionInv' /\ Advances
    BY <1>1, <1>2, TransactionFailsKeeps
  <2>2. stopWriter /\ UNCHANGED <<rows, enabling, broadcast>>
    BY <1>2 DEF transactionFails, storage, network
  <2>3. QED
    BY <1>1, <2>1, <2>2, StopKeeps DEF CombinedInv
<1>3. CASE transactionConfirmed
  <2>1. PICK x : x = confirmed
    OBVIOUS
  <2>2. /\ SessionInv' /\ Advances /\ checkpointing' = None
        /\ Savable(x) /\ Grows(session, x) /\ Grows(x, session')
    BY <1>1, <1>3, <2>1, ConfirmedKeeps
  <2>3. /\ UNCHANGED <<rows, orphans, enabling, broadcast>>
        /\ UNCHANGED writer \/ (writer # None /\ enqueue(x))
    BY <1>3, <2>1 DEF transactionConfirmed, storage, network
  <2>4. CASE UNCHANGED writer
    BY <1>1, <2>2, <2>3, <2>4, QuietKeeps DEF CombinedInv, autosave
  <2>5. CASE writer # None /\ enqueue(x)
    <3>1. Savable(x)'
      BY <2>2, SavableStays DEF Advances
    <3>2. QED
      BY <1>1, <2>2, <2>3, <2>5, <3>1, EnqueueKeeps DEF CombinedInv
  <2>6. QED
    BY <2>3, <2>4, <2>5
<1>4. CASE finishTransaction
  <2>1. SessionInv' /\ Advances /\ checkpointing' = None
    BY <1>1, <1>4, FinishKeeps
  <2>2. /\ UNCHANGED <<rows, enabling, broadcast>>
        /\ stopWriter \/ (writer # None /\ writer' = released /\ UNCHANGED orphans)
    BY <1>4 DEF finishTransaction, settled, storage, network
  <2>3. QED
    BY <1>1, <2>1, <2>2, StopKeeps, ReleaseKeeps DEF CombinedInv
<1>5. QED
  BY <1>2, <1>3, <1>4

\* What was set up, read or restored.
LEMMA OthersKeep ==
  CombinedInv /\ (\/ walletConnected \/ finishGuided \/ transitionFails \/ intentSaved
                  \/ refreshCommitments \/ importVerified \/ importInstalled \/ importFails)
  => CombinedInv'
<1> SUFFICES ASSUME CombinedInv,
                    \/ walletConnected \/ finishGuided \/ transitionFails \/ intentSaved
                    \/ refreshCommitments \/ importVerified \/ importInstalled \/ importFails
             PROVE  CombinedInv'
  OBVIOUS
<1>1. SessionInv /\ StorageInv
  BY DEF CombinedInv
<1>2. SessionInv' /\ Advances
  BY <1>1, WalletKeeps, GuidedKeeps, FailureKeeps, IntentKeeps, RefreshKeeps, VerifiedKeeps, InstalledKeeps
<1>3. /\ UNCHANGED <<rows, enabling, broadcast, checkpointing>>
      /\ stopWriter \/ UNCHANGED <<writer, orphans>>
  <2>1. CASE walletConnected
    BY <2>1 DEF walletConnected, storage, network
  <2>2. CASE finishGuided \/ transitionFails \/ intentSaved
    BY <2>2 DEF finishGuided, transitionFails, intentSaved, storage, network, autosave, rest
  <2>3. CASE refreshCommitments \/ importVerified \/ importInstalled \/ importFails
    BY <2>3 DEF refreshCommitments, importVerified, importInstalled, importFails,
                storage, network, autosave, rest
  <2>4. QED
    BY <2>1, <2>2, <2>3
<1>4. QED
  BY <1>1, <1>2, <1>3, QuietKeeps, StopKeeps DEF CombinedInv, autosave

\* A deployment that was recovered is in a new copy.
LEMMA RecoveryKeeps == CombinedInv /\ deploymentRecovered => CombinedInv'
<1> SUFFICES ASSUME CombinedInv, deploymentRecovered PROVE CombinedInv'
  OBVIOUS
<1>1. SessionInv /\ StorageInv /\ Stored
  BY DEF CombinedInv, StorageInv
<1>2. PICK x : x = [session EXCEPT !.deploymentAttempt = FALSE, !.contractAddress = TRUE]
  OBVIOUS
<1>3. SessionInv' /\ Advances /\ checkpointing' = None /\ Savable(x)
  BY <1>1, <1>2, RecoveredKeeps
<1>4. /\ UNCHANGED <<enabling, broadcast>>
      /\ \/ rows' = Append(rows, x) /\ stopWriter
         \/ UNCHANGED <<rows, writer, orphans>>
  BY <1>2 DEF deploymentRecovered, keep, network
<1>5. CASE rows' = Append(rows, x) /\ stopWriter
  <2>1. Stored' /\ RowsGrow
    BY <1>1, <1>3, <1>4, <1>5, StoredStops DEF Advances, Carries
  <2>2. QED
    BY <1>1, <1>3, <1>4, <2>1, CheckpointStays, StorageBy DEF CombinedInv
<1>6. CASE UNCHANGED <<rows, writer, orphans>>
  BY <1>1, <1>3, <1>4, <1>6, QuietKeeps DEF CombinedInv, autosave
<1>7. QED
  BY <1>4, <1>5, <1>6

\* What an operation awaits settles.
LEMMA SettleKeeps == CombinedInv /\ settle => CombinedInv'
BY DeploymentKeeps, PreparationKeeps, RunKeeps, BroadcastKeeps, OutcomeKeeps, OthersKeep,
   RecoveryKeeps DEF settle

\* A new copy and its writer.
LEMMA EnabledKeeps == CombinedInv /\ (enabled \/ exportRecovery) => CombinedInv'
<1> SUFFICES ASSUME CombinedInv, enabled \/ exportRecovery PROVE CombinedInv'
  OBVIOUS
<1>1. SessionInv /\ StorageInv /\ Stored
  BY DEF CombinedInv, StorageInv
<1>2. SessionInv' /\ Advances /\ session' = session
  BY <1>1, SessionStays DEF enabled, exportRecovery, local
<1>3. CASE enabled
  <2>1. PICK x : x = enabling
    OBVIOUS
  <2>2. /\ x # None /\ rows' = Append(rows, x) /\ enabling' = None
        /\ UNCHANGED <<orphans, broadcast, checkpointing>>
        /\ \/ writer' = writer
           \/ writer' = [row |-> Len(rows'), queue |-> <<>>, saved |-> x, leased |-> FALSE]
    BY <1>3, <2>1 DEF enabled, keep, Writer, local, network
  <2>3. Savable(x) /\ Grows(x, session')
    BY <1>1, <1>2, <2>1, <2>2 DEF Stored, EnablingKept
  <2>4. Stored' /\ RowsGrow
    BY <1>1, <1>2, <2>2, <2>3, StoredCopies DEF Advances, Carries
  <2>5. CheckpointKept'
    <3>1. UNCHANGED <<checkpointing, writer>> \/ writer'.leased = FALSE
      BY <2>2
    <3>2. QED
      BY <1>1, <3>1, CheckpointStays
  <2>6. QED
    BY <1>1, <1>2, <2>2, <2>4, <2>5, StorageBy DEF CombinedInv
<1>4. CASE exportRecovery
  <2>1. PICK x : x = session
    OBVIOUS
  <2>2. /\ rows' = Append(rows, x) /\ hasSnapshot(session)
        /\ UNCHANGED <<writer, enabling, orphans, broadcast, checkpointing>>
    BY <1>4, <2>1 DEF exportRecovery, keep, worthSaving, autosave, local, network
  <2>3. Savable(x)
    BY <1>1, <2>1, <2>2, WorthSaving
  <2>4. Stored' /\ RowsGrow
    BY <1>1, <1>2, <2>2, <2>3, StoredCopies DEF Advances, Carries
  <2>5. QED
    BY <1>1, <1>2, <2>2, <2>4, CheckpointStays, StorageBy DEF CombinedInv
<1>5. QED
  BY <1>3, <1>4

\* The debounced save takes the session as it is.
LEMMA TimerKeeps == CombinedInv /\ timerFires => CombinedInv'
<1> SUFFICES ASSUME CombinedInv, timerFires PROVE CombinedInv'
  OBVIOUS
<1>1. SessionInv /\ StorageInv /\ Stored
  BY DEF CombinedInv, StorageInv
<1>2. SessionInv' /\ Advances /\ session' = session
  BY <1>1, SessionStays DEF timerFires, local
<1>3. PICK x, w, c : x = session /\ w = writer /\ c = rows
  OBVIOUS
<1>4. /\ writer # None /\ ~writer.leased /\ hasSnapshot(session)
      /\ writer' = [w EXCEPT !.queue = Append(@, x)]
      /\ UNCHANGED <<rows, orphans, enabling, broadcast, checkpointing>>
  BY <1>3 DEF timerFires, worthSaving, local, storage, network
<1>5. Savable(x)' /\ Grows(x, x)
  BY <1>1, <1>2, <1>3, <1>4, WorthSaving, SavableStays, GrowsItself DEF Advances
<1>6. writer' = [w EXCEPT !.queue = Append(@, x), !.leased = FALSE]
  <2>1. w \in [row : DOMAIN c, queue : Seq(Snapshots), saved : Snapshots, leased : BOOLEAN]
    BY <1>1, <1>3, <1>4 DEF Stored, WriterKept, WriterOf
  <2>2. PICK q : q = Append(w.queue, x)
    OBVIOUS
  <2>3. w.leased = FALSE
    BY <1>3, <1>4, <2>1
  <2>4. [w EXCEPT !.queue = q] = [w EXCEPT !.queue = q, !.leased = FALSE]
    BY <2>1, <2>3
  <2>5. QED
    BY <1>4, <2>2, <2>4
<1>7. CASE writer' = None
  <2>1. Stored' /\ RowsGrow
    BY <1>1, <1>2, <1>4, <1>7, StoredWaits DEF Advances, Carries
  <2>2. QED
    BY <1>1, <1>2, <1>4, <1>7, <2>1, CheckpointStays, StorageBy DEF CombinedInv
<1>8. CASE writer' # None
  <2>1. Grows(session, x) /\ Grows(x, session') /\ Carries
    BY <1>2, <1>3, <1>5 DEF Advances, Carries
  <2>2. writer' = [writer EXCEPT !.queue = Append(@, x), !.leased = FALSE]
    BY <1>3, <1>6
  <2>3. Stored' /\ RowsGrow /\ writer'.leased = FALSE
    BY <1>1, <1>4, <1>5, <1>8, <2>1, <2>2, StoredAppends
  <2>4. QED
    BY <1>1, <1>2, <1>4, <2>3, CheckpointStays, StorageBy DEF CombinedInv
<1>9. QED
  BY <1>7, <1>8

\* A save that commits goes on naming what waits for it.
LEMMA WriteKeeps == CombinedInv /\ write => CombinedInv'
<1> SUFFICES ASSUME CombinedInv, write PROVE CombinedInv'
  OBVIOUS
<1>1. SessionInv /\ StorageInv /\ Stored
  BY DEF CombinedInv, StorageInv
<1>2. SessionInv' /\ Advances
  BY <1>1, SessionStays DEF write
<1>3. Stored' /\ RowsGrow
  BY <1>1, <1>2, StoredWrites DEF Advances, Carries
<1>4. PICK w, v, c, s, k : /\ w = writer /\ v = writer' /\ c = rows /\ s = session
                           /\ k = checkpointing
  OBVIOUS
<1>5. /\ w # None /\ w.queue # <<>> /\ checkpointing' = k /\ broadcast' = broadcast
      /\ v = [w EXCEPT !.queue = Tail(@), !.saved = Head(w.queue)]
  BY <1>4 DEF write, local, network
<1>6. w \in [row : DOMAIN c, queue : Seq(Snapshots), saved : Snapshots, leased : BOOLEAN]
  BY <1>1, <1>4, <1>5 DEF Stored, WriterKept, WriterOf
<1>7. v.leased = w.leased /\ v.queue = Tail(w.queue) /\ v.saved = Head(w.queue)
  BY <1>5, <1>6
<1>8. IF v.queue = <<>> THEN v.saved = Last(w.queue) ELSE Last(v.queue) = Last(w.queue)
  <2>1. PICK q, n : q = w.queue /\ n = Len(q)
    OBVIOUS
  <2>2. /\ q \in Seq(Snapshots) /\ q # <<>> /\ n \in Nat /\ n >= 1 /\ n = Len(q)
        /\ Head(q) = q[1] /\ Len(Tail(q)) = n - 1
        /\ \A i \in 1..(n - 1) : Tail(q)[i] = q[i + 1]
    BY <1>5, <1>6, <2>1
  <2>3. Tail(q) = <<>> => n = 1
    <3>1. PICK r : r = Tail(q)
      OBVIOUS
    <3>2. r = <<>> => Len(r) = 0
      OBVIOUS
    <3>3. Len(r) = n - 1
      BY <2>2, <3>1
    <3>4. QED
      BY <2>2, <3>1, <3>2, <3>3
  <2>4. Tail(q) # <<>> => n - 1 \in 1..(n - 1)
    BY <2>2
  <2>5. QED
    BY <1>7, <2>1, <2>2, <2>3, <2>4 DEF Last
<1>9. k # None /\ w.leased => names(Last(w.queue), k)
  BY <1>1, <1>4, <1>5 DEF StorageInv, CheckpointKept
<1>10. CheckpointKept'
  BY <1>4, <1>5, <1>7, <1>8, <1>9 DEF CheckpointKept, names
<1>11. QED
  BY <1>1, <1>2, <1>3, <1>5, <1>10, StorageBy DEF CombinedInv

\* Copies are made, saved to and given up beside the session.
LEMMA AutosaveKeeps == CombinedInv /\ (Autosave \/ exportRecovery) => CombinedInv'
<1> SUFFICES ASSUME CombinedInv, Autosave PROVE CombinedInv'
  BY EnabledKeeps
<1>1. SessionInv /\ StorageInv /\ Stored
  BY DEF CombinedInv, StorageInv
<1>2. CASE enable
  <2>1. SessionInv' /\ Advances
    BY <1>1, <1>2, SessionStays DEF enable
  <2>2. Stored' /\ RowsGrow
    BY <1>1, <1>2, <2>1, StoredEnables DEF Advances
  <2>3. UNCHANGED <<checkpointing, writer, broadcast>>
    BY <1>2 DEF enable, local, network
  <2>4. QED
    BY <1>1, <2>1, <2>2, <2>3, CheckpointStays, StorageBy DEF CombinedInv
<1>3. CASE enableFails
  <2>1. SessionInv' /\ Advances
    BY <1>1, <1>3, SessionStays DEF enableFails
  <2>2. UNCHANGED <<rows, orphans, writer, checkpointing, broadcast>> /\ enabling' = None
    BY <1>3 DEF enableFails, local, storage, network
  <2>3. Stored' /\ RowsGrow
    BY <1>1, <2>1, <2>2, StoredWaits DEF Advances, Carries
  <2>4. QED
    BY <1>1, <2>1, <2>2, <2>3, CheckpointStays, StorageBy DEF CombinedInv
<1>4. CASE stop
  <2>1. SessionInv' /\ Advances
    BY <1>1, <1>4, SessionStays DEF stop
  <2>2. stopWriter /\ UNCHANGED <<rows, enabling, broadcast>>
    BY <1>4 DEF stop, storage, network
  <2>3. QED
    BY <1>1, <2>1, <2>2, StopKeeps DEF CombinedInv
<1>5. ASSUME NEW o \in orphans, orphanEnds(o) PROVE CombinedInv'
  <2>1. SessionInv' /\ Advances
    BY <1>1, <1>5, SessionStays DEF orphanEnds
  <2>2. Stored' /\ RowsGrow
    BY <1>1, <1>5, <2>1, StoredLate DEF Advances, Carries
  <2>3. UNCHANGED <<checkpointing, writer, broadcast>>
    BY <1>5 DEF orphanEnds, local, network
  <2>4. QED
    BY <1>1, <2>1, <2>2, <2>3, CheckpointStays, StorageBy DEF CombinedInv
<1>6. QED
  BY <1>2, <1>3, <1>4, <1>5, EnabledKeeps, TimerKeeps, WriteKeeps DEF Autosave

\* The checkpoint hands the identifier to the writer that its transaction leased.
LEMMA CheckpointStored ==
  ASSUME CombinedInv, NEW call \in sdk, checkpointTransaction(call)
  PROVE  CombinedInv'
<1>1. SessionInv /\ StorageInv /\ Stored
  BY DEF CombinedInv, StorageInv
<1>2. /\ SessionInv' /\ Advances
      /\ checkpointOpen => Whole(session)'
  BY <1>1, CheckpointKeeps
<1>3. PICK x : x = session'
  OBVIOUS
<1>4. /\ UNCHANGED <<rows, orphans, enabling, broadcast>> /\ checkpointing = None
      /\ \/ UNCHANGED writer /\ (checkpointing' = checkpointing \/ writer = None)
         \/ checkpointOpen /\ writer # None /\ enqueue(x) /\ checkpointing' = call
  BY <1>3 DEF checkpointTransaction, storage
<1>5. CASE UNCHANGED writer /\ (checkpointing' = checkpointing \/ writer = None)
  <2>1. Stored' /\ RowsGrow
    BY <1>1, <1>2, <1>4, <1>5, StoredWaits DEF Advances, Carries
  <2>2. CheckpointKept'
    BY <1>1, <1>5, CheckpointStays
  <2>3. QED
    BY <1>1, <1>2, <1>4, <2>1, <2>2, StorageBy DEF CombinedInv
<1>6. CASE checkpointOpen /\ writer # None /\ enqueue(x) /\ checkpointing' = call
  <2>1. Savable(x)' /\ Grows(session, x) /\ Grows(x, session') /\ x \in Snapshots
    BY <1>2, <1>3, <1>6, GrowsItself DEF SessionInv, Sound, Savable, Whole, clean, Known, Advances
  <2>2. checkpointing' # None => Marked(x, call)
    BY <1>2, <1>3, <1>6 DEF SessionInv, Checkpointing, Marked, Journaled, latest
  <2>3. checkpointing' # None => names(x, checkpointing')
    BY <1>6, <2>1, <2>2, MarkedNames
  <2>4. QED
    BY <1>1, <1>2, <1>4, <1>6, <2>1, <2>3, EnqueueKeeps DEF CombinedInv
<1>7. QED
  BY <1>4, <1>5, <1>6

\* A tab that is closed leaves its copies, and one write at most.
LEMMA RestKeeps ==
  ASSUME CombinedInv, \/ resetDemo \/ reload \/ (\E t \in pool : finalize(t))
  PROVE  CombinedInv'
<1>1. SessionInv /\ StorageInv /\ Stored
  BY DEF CombinedInv, StorageInv
<1>2. CASE resetDemo
  <2>1. SessionInv' /\ Advances
    BY <1>1, <1>2, ResetKeeps
  <2>2. UNCHANGED <<rows, autosave, broadcast, checkpointing>>
    BY <1>2 DEF resetDemo, storage, network
  <2>3. QED
    BY <1>1, <2>1, <2>2, QuietKeeps DEF CombinedInv
<1>3. CASE reload
  <2>1. SessionInv' /\ Unissued' \subseteq Unissued
    BY <1>1, <1>3, ReloadKeeps
  <2>2. /\ stopWriter /\ writer' = None /\ enabling' = None /\ checkpointing' = None
        /\ UNCHANGED <<rows, broadcast>>
    BY <1>3 DEF reload, stopWriter, storage
  <2>3. Stored' /\ RowsGrow
    BY <1>1, <2>1, <2>2, StoredStops DEF Carries
  <2>4. QED
    BY <1>1, <2>1, <2>2, <2>3, CheckpointStays, StorageBy DEF CombinedInv
<1>4. ASSUME NEW t \in pool, finalize(t) PROVE CombinedInv'
  <2>1. SessionInv' /\ Advances
    BY <1>1, <1>4, FinalizeKeeps
  <2>2. UNCHANGED <<rows, autosave, broadcast, checkpointing>>
    BY <1>4 DEF finalize, local, storage
  <2>3. QED
    BY <1>1, <2>1, <2>2, QuietKeeps DEF CombinedInv
<1>5. QED
  BY <1>2, <1>3, <1>4

-----------------------------------------------------------------------------
(* The invariant and what it says.                                         *)

\* A copy of an earlier session can be restored and saved, as the tab opens.
LEMMA CombinedInit == Init => CombinedInv
<1> SUFFICES ASSUME Init PROVE CombinedInv
  OBVIOUS
<1>1. /\ SessionInv /\ writer = None /\ enabling = None /\ orphans = {} /\ checkpointing = None
      /\ broadcast = {} /\ sdk = {} /\ task = None /\ calls = 0
      /\ rows \in {<<>>} \cup {<<c>> : c \in Copies}
  BY SessionInit DEF Init
<1>2. Unissued \subseteq 1..MaxSubmissions
  BY <1>1 DEF Unissued, transacting
<1>3. \A c \in Copies : Savable(c)
  BY <1>2, SessionConstants DEF Savable, Whole, Known
<1>4. RowsKept
  <2>1. CASE rows = <<>>
    BY <2>1 DEF RowsKept
  <2>2. ASSUME NEW c \in Copies, rows = <<c>> PROVE RowsKept
    <3>1. Savable(c) /\ c \in Snapshots
      BY <1>3 DEF Savable, Whole
    <3>2. rows \in Seq(Snapshots) /\ DOMAIN rows = {1} /\ rows[1] = c
      BY <2>2, <3>1
    <3>3. \A i \in DOMAIN rows : Savable(rows[i])
      BY <3>1, <3>2
    <3>4. QED
      BY <3>2, <3>3 DEF RowsKept
  <2>3. QED
    BY <1>1, <2>1, <2>2
<1>5. Stored
  BY <1>1, <1>4 DEF Stored, WriterKept, EnablingKept, OrphansKept
<1>6. QED
  BY <1>1, <1>5 DEF CombinedInv, StorageInv, CheckpointKept, BroadcastIsJournaled

\* No step breaks the invariant, nor does a step that changes nothing.
LEMMA CombinedNext == CombinedInv /\ [Next]_vars => CombinedInv'
<1>1. CombinedInv /\ Next => CombinedInv'
  BY SetupKeeps, StartKeeps, SettleKeeps, AutosaveKeeps, CheckpointStored, RestKeeps DEF Next
<1>2. CombinedInv /\ UNCHANGED vars => CombinedInv'
  <2>1. SUFFICES ASSUME CombinedInv, UNCHANGED vars PROVE CombinedInv'
    OBVIOUS
  <2>2. SessionInv' /\ Advances
    BY <2>1, SessionStays DEF vars, CombinedInv
  <2>3. UNCHANGED <<rows, autosave, broadcast, checkpointing>>
    BY <2>1 DEF vars, local, storage, network
  <2>4. QED
    BY <2>1, <2>2, <2>3, QuietKeeps DEF CombinedInv
<1>3. QED
  BY <1>1, <1>2

\* Whatever operations, failures, late writes and restores a tab goes through,
\* its session, its SDK call and its copies fit together.
THEOREM CombinedInvariance == Spec => []CombinedInv
<1>1. Init => CombinedInv
  BY CombinedInit
<1>2. CombinedInv /\ [Next]_vars => CombinedInv'
  BY CombinedNext
<1>3. QED
  BY <1>1, <1>2, PTL DEF Spec

\* A session can always be saved as it is (recovery.ts, report-journal.ts):
\* no sequence of operations ends in one that its own validation refuses.
THEOREM SnapshotSafety == Spec => []SnapshotsAreValid
<1>1. CombinedInv => SnapshotsAreValid
  <2>1. SUFFICES ASSUME CombinedInv PROVE SnapshotsAreValid
    OBVIOUS
  <2>2. hasSnapshot(session) => validateRecovery(session)
    BY <2>1, WorthSaving DEF CombinedInv, Savable, Whole
  <2>3. writer # None => \A i \in DOMAIN writer.queue : validateRecovery(writer.queue[i])
    BY <2>1 DEF CombinedInv, StorageInv, Stored, WriterKept, Savable, Whole
  <2>4. QED
    BY <2>2, <2>3 DEF SnapshotsAreValid
<1>2. QED
  BY <1>1, CombinedInvariance, PTL

\* Every transaction that the wallet was given stays named by a copy, under its
\* own operation (journal-report-transaction.ts, recovery-autosave.ts).
THEOREM BroadcastSafety == Spec => []BroadcastIsJournaled
<1>1. CombinedInv => BroadcastIsJournaled
  BY DEF CombinedInv, StorageInv
<1>2. QED
  BY <1>1, CombinedInvariance, PTL
=============================================================================
