--------------------------- MODULE ChainObservation ---------------------------
(***************************************************************************)
(* The read-only checks of a transaction or a contract: its status          *)
(* (web/src/transaction-verification.ts), a deployment's policy             *)
(* (deployment-verification.ts), a report operation's effect                *)
(* (report-reconciliation.ts over api/src/contract-history.ts and           *)
(* replay-report-transaction.ts) and the public lookup                      *)
(* (api/src/public-verification.ts), each behind its panel of the page.     *)
(*                                                                         *)
(* A check asks an indexer and a node in several requests while the chain   *)
(* grows, is reorganized above its finalized head, and the indexer lags.    *)
(* Both are honest, as the code assumes, except that the history stream may *)
(* omit, repeat and reorder actions.  A block is known by the chain that    *)
(* ends with it, so a hash is a sequence of blocks and its height a length. *)
(***************************************************************************)
EXTENDS Integers, FiniteSets, SequencesExt

CONSTANTS None,
          Forks,        \* the chains that may ever be: sequences of blocks, sequences of transactions
          raw,          \* the content of each transaction
          Release,      \* this release's verifier keys
          Subjects,     \* what the panels may be asked to check
          MaxActions,   \* maxActions of a history scan
          MaxRuns       \* bounds the checks of a page

ASSUME ObservationConstants ==
    /\ {MaxActions, MaxRuns} \subseteq Nat
    /\ Forks # {} /\ Forks \subseteq Seq(Seq(DOMAIN raw))
    /\ \A f \in Forks : \A i, j \in DOMAIN f :
           i # j => ToSet(f[i]) \cap ToSet(f[j]) = {}

VARIABLES
    best, finalized,    \* the node's best chain, and its finalized prefix
    indexed,            \* the chain the indexer has followed so far
    selected,           \* what the panel is about
    working, shown,     \* the panel's state: a check under way, its result
    compared,           \* whether the saved notes match the result, or None
    worker,             \* the current worker and what it has read, or None
    posted,             \* answers of workers on their way to the page
    started             \* workers so far

chain == <<best, finalized, indexed>>
panel == <<selected, working, shown, compared, started>>
vars == <<chain, panel, worker, posted>>

-----------------------------------------------------------------------------
(* The chain and the contract.                                             *)

Chains == UNION {{SubSeq(f, 1, n) : n \in 0 .. Len(f)} : f \in Forks}
isDeploy(t) == raw[t].kind = "ContractDeploy"
Reports == {raw[t].report : t \in {u \in DOMAIN raw : ~isDeploy(u)}}

\* A transcript holds what the circuit read: the sequence and the report's
\* record.  It runs only where it reads the same.
runsOn(s, t) == IF isDeploy(t) THEN s = None
                ELSE s # None /\ s.sequence = raw[t].sequence /\ s.reports[raw[t].report] = raw[t].from
runTranscript(s, t) ==
    IF isDeploy(t) THEN [program |-> raw[t].program, policy |-> raw[t].policy, keys |-> raw[t].keys,
                         sequence |-> 1, reports |-> [r \in Reports |-> None]]
    ELSE [program |-> s.program, policy |-> s.policy, keys |-> s.keys, sequence |-> s.sequence + 1,
          reports |-> [r \in Reports |-> IF r = raw[t].report THEN raw[t].to ELSE s.reports[r]]]

\* The contract's state after transactions, after a chain, and before the k-th
\* transaction of a chain's last block.
apply(s, txs) == FoldLeft(LAMBDA now, t : IF runsOn(now, t) THEN runTranscript(now, t) ELSE now, s, txs)
StateAfter[c \in Chains] == IF c = <<>> THEN None ELSE apply(StateAfter[Front(c)], Last(c))
stateBefore(c, k) == apply(StateAfter[Front(c)], SubSeq(Last(c), 1, k - 1))

\* What an indexer knows of that transaction, of a chain's transactions, and of
\* the contract's latest.
Action(c, k) ==
    LET t == Last(c)[k]  s == stateBefore(c, k) IN
    [tx |-> t, hash |-> c, status |-> IF runsOn(s, t) THEN "SUCCESS" ELSE "FAILURE",
     state |-> IF runsOn(s, t) THEN runTranscript(s, t) ELSE s]
Actions == [c \in Chains |-> UNION {{Action(SubSeq(c, 1, h), k) : k \in DOMAIN c[h]} : h \in DOMAIN c}]
found(c, t) == {a \in Actions[c] : a.tx = t}
latest(c) == {Action(SubSeq(c, 1, h), Len(c[h])) :
                  h \in {i \in DOMAIN c : c[i] # <<>> /\ \A j \in i + 1 .. Len(c) : c[j] = <<>>}}
height(a) == Len(a.hash)

\* The node: a better chain may replace blocks that are not finalized.
chain_getBlockHash(h) == IF h =< Len(best) THEN SubSeq(best, 1, h) ELSE None

extend ==
    /\ best' \in {c \in Chains \ {best} : Len(c) >= Len(best) /\ IsPrefix(finalized, c)}
    /\ UNCHANGED <<finalized, indexed, panel, worker, posted>>

finalize ==
    /\ finalized' \in {SubSeq(best, 1, n) : n \in Len(finalized) + 1 .. Len(best)}
    /\ UNCHANGED <<best, indexed, panel, worker, posted>>

\* The indexer follows the best chain, some blocks behind; it never drops a
\* block that is finalized.
index ==
    /\ indexed' \in {SubSeq(best, 1, n) : n \in 0 .. Len(best)} \ {indexed}
    /\ \A n \in 0 .. Len(indexed) :
           IsPrefix(SubSeq(indexed, 1, n), finalized) => IsPrefix(SubSeq(indexed, 1, n), indexed')
    /\ UNCHANGED <<best, finalized, panel, worker, posted>>

-----------------------------------------------------------------------------
(* The panel.                                                              *)

\* A run of a worker: its stage and what it has read.  None is no run.
Executed == UNION {{Action(c, k) : k \in DOMAIN Last(c)} : c \in Chains \ {<<>>}}
Read == Executed \cup {None}
States == {a.state : a \in Executed} \cup {None}
Runs == [id : 1 .. MaxRuns,
         pc : {"transaction", "contract", "head", "canonical", "deployment", "target", "scan",
               "prior", "previousBlock", "targetBlock", "replay", "done"},
         seen : Read, head : Nat, after : States, previous : Read, target : Read, prior : States,
         count : Nat]
ASSUME NoneIsNoRun == None \notin Runs \cup BOOLEAN

Run(id, pc) == [id |-> id, pc |-> pc, seen |-> None, head |-> 0, after |-> None,
                previous |-> None, target |-> None, prior |-> None, count |-> 0]

check ==
    /\ ~working /\ started < MaxRuns
    /\ started' = started + 1
    /\ worker' = Run(started', IF selected.check = "lookup" THEN "contract" ELSE "transaction")
    /\ working' = TRUE /\ shown' = None /\ compared' = None
    /\ UNCHANGED <<chain, selected, posted>>

\* stop(): the worker is terminated; what it has posted may still arrive.
stop == worker' = None /\ working' = FALSE

cancel ==
    /\ working /\ selected.check # "status"
    /\ stop
    /\ UNCHANGED <<chain, selected, shown, compared, started, posted>>

timeout ==
    /\ worker # None
    /\ stop
    /\ UNCHANGED <<chain, selected, shown, compared, started, posted>>

select(s) ==
    /\ s # selected /\ s.check = selected.check
    /\ selected' = s
    /\ stop /\ shown' = None /\ compared' = None
    /\ UNCHANGED <<chain, started, posted>>

\* Wrong: an answer is taken whichever worker it comes from.
isCurrent_AnyWorker(message) == message.run =< started
isCurrent(message) == worker # None /\ worker.id = message.run

receive(message) ==
    /\ posted' = posted \ {message}
    /\ IF isCurrent(message) THEN stop /\ shown' = message.result /\ compared' = None
       ELSE UNCHANGED <<worker, working, shown, compared>>
    /\ UNCHANGED <<chain, selected, started>>

SavedCiphertextCheck == selected.saved = shown.after.ciphertext
SavedDecisionCheck == selected.saved = shown.after.decision

\* What was saved with the attempt, against the replayed report.
compareSaved ==
    /\ shown # None /\ selected.check = "effect" /\ compared = None
    /\ \/ selected.circuit = "submitReport" /\ compared' = SavedCiphertextCheck
       \/ selected.circuit = "acceptReport" /\ compared' = SavedDecisionCheck
    /\ UNCHANGED <<chain, selected, working, shown, started, worker, posted>>

-----------------------------------------------------------------------------
(* The worker's requests.                                                  *)

at(pc) == worker # None /\ worker.pc = pc
go(run) == worker' = run /\ UNCHANGED <<chain, panel, posted>>
answer(result) ==
    /\ posted' = posted \cup {[run |-> worker.id, result |-> result]}
    /\ worker' = Run(worker.id, "done")
    /\ UNCHANGED <<chain, panel>>
refuse == answer(None)

\* A request fails or is aborted; a scan ends or reaches its deadline.
fails == worker # None /\ worker.pc # "done" /\ refuse

compareTransactionIntent(t) ==
    CASE selected.circuit = None -> "unknown-intent"
      [] selected.circuit = "constructor" -> IF isDeploy(t) THEN "match" ELSE "mismatch"
      [] OTHER -> IF ~isDeploy(t) /\ raw[t].circuit = selected.circuit THEN "match" ELSE "mismatch"

queryTransaction ==
    /\ at("transaction")
    /\ LET matches == found(indexed, selected.tx) IN
       IF matches # {} THEN \E a \in matches : go([worker EXCEPT !.pc = "head", !.seen = a])
       ELSE IF selected.check = "status" THEN answer([subject |-> selected, kind |-> "not-found"])
       ELSE refuse

\* contractAction(address): the latest action the indexer knows of.
queryContract ==
    /\ at("contract")
    /\ LET matches == {a \in latest(indexed) : a.status = "SUCCESS"} IN
       IF matches = {} THEN refuse ELSE \E a \in matches : go([worker EXCEPT !.pc = "head", !.seen = a])

chain_getFinalizedHead == at("head") /\ go([worker EXCEPT !.pc = "canonical", !.head = Len(finalized)])

kindOf(a) == IF worker.head >= height(a) THEN "finalized" ELSE "included"
\* Wrong: the node is not asked for its hash at that height.
agrees_IndexerOnly(a) == a.hash # None
agrees(a) == chain_getBlockHash(height(a)) = a.hash

observeTransaction ==
    /\ at("canonical") /\ selected.check # "lookup"
    /\ LET a == worker.seen IN
       IF ~agrees(a) THEN refuse
       ELSE IF selected.check = "status"
       THEN answer([subject |-> selected, kind |-> kindOf(a), status |-> a.status, hash |-> a.hash,
                    intent |-> compareTransactionIntent(a.tx)])
       ELSE IF kindOf(a) # "finalized" \/ a.status # "SUCCESS" THEN refuse
       ELSE IF selected.check = "policy" /\ ~isDeploy(a.tx) THEN refuse
       ELSE go([worker EXCEPT !.pc = IF selected.check = "policy" THEN "deployment" ELSE "target"])

\* The receipt's report has to be there, with its ciphertext digest.
verifyPublicReceipt(s) ==
    LET report == IF selected.report = None THEN None ELSE s.reports[selected.report] IN
    /\ selected.report # None => report # None
    /\ selected.digest # None => report # None /\ report.ciphertext = selected.digest

verifyPublicContract ==
    /\ at("canonical") /\ selected.check = "lookup"
    /\ LET a == worker.seen IN
       IF kindOf(a) = "finalized" /\ agrees(a) /\ verifyPublicReceipt(a.state)
       THEN answer([subject |-> selected, kind |-> "finalized", hash |-> a.hash, state |-> a.state])
       ELSE refuse

verifyDeploymentState(t, s) == s = runTranscript(None, t)
compareDeploymentVerifiers(s) == s.keys = Release

compareDeploymentPolicy ==
    /\ at("deployment")
    /\ LET matches == {a \in found(indexed, selected.tx) :
                           /\ a.hash = worker.seen.hash /\ a.status = "SUCCESS"
                           /\ verifyDeploymentState(a.tx, a.state)} IN
       IF matches = {} THEN refuse
       ELSE \E a \in matches :
                answer([subject |-> selected, kind |-> "finalized", hash |-> a.hash,
                        matches |-> a.state.policy = selected.saved,
                        verifiers |-> compareDeploymentVerifiers(a.state)])

canChoose(result) == result.matches /\ result.verifiers

\* The target's content and the state after it; its block is not asked for.
queryTarget ==
    /\ at("target")
    /\ LET matches == {a \in found(indexed, selected.tx) :
                           ~isDeploy(a.tx) /\ raw[a.tx].circuit = selected.circuit /\ a.status = "SUCCESS"} IN
       IF matches = {} THEN refuse
       ELSE \E a \in matches, d \in {b \in Actions[indexed] : isDeploy(b.tx) /\ b.status = "SUCCESS"} :
                go([worker EXCEPT !.pc = "scan", !.after = a.state, !.target = d])

\* Wrong: two actions of one block.
inOrder_SameBlock(a) ==
    IF worker.previous = None THEN isDeploy(a.tx) /\ height(a) = height(worker.target)
    ELSE height(a) >= height(worker.previous)
\* The first message is the deployment (while scanning, "target" holds it), and
\* each other one is in a later block than the one before it.
inOrder(a) ==
    IF worker.previous = None THEN isDeploy(a.tx) /\ height(a) = height(worker.target)
    ELSE height(a) > height(worker.previous)

\* findPreviousContractAction: one message of the stream, any action of the
\* chain the indexer is on.
historyMessage(a) ==
    IF ~(a.status = "SUCCESS" /\ worker.count < MaxActions /\ inOrder(a)) THEN refuse
    ELSE IF a.tx # selected.tx
    THEN go([worker EXCEPT !.previous = a, !.count = @ + 1])
    ELSE IF worker.previous = None \/ a.hash # worker.seen.hash THEN refuse
    ELSE go([worker EXCEPT !.pc = "prior", !.target = a, !.count = 0])

findPreviousContractAction == at("scan") /\ \E a \in Actions[indexed] : historyMessage(a)

queryPrior ==
    /\ at("prior")
    /\ LET matches == found(indexed, worker.previous.tx) IN
       IF matches = {} THEN refuse
       ELSE \E a \in matches : go([worker EXCEPT !.pc = "previousBlock", !.prior = a.state])

checkPreviousBlock ==
    /\ at("previousBlock")
    /\ IF agrees(worker.previous) THEN go([worker EXCEPT !.pc = "targetBlock"]) ELSE refuse

checkTargetBlock ==
    /\ at("targetBlock")
    /\ IF agrees(worker.target) THEN go([worker EXCEPT !.pc = "replay"]) ELSE refuse

\* Wrong: the replayed state is not compared with the state after the target.
replays_AnyState(before, t, after) == before # after
\* replayReportTransaction: the transcript on the previous state has to give
\* the state after the target.
replays(before, t, after) == runsOn(before, t) /\ runTranscript(before, t) = after

reconcileReport ==
    /\ at("replay")
    /\ LET before == worker.prior  after == worker.after  t == selected.tx IN
       IF /\ replays(before, t, after)
          /\ after.program = selected.program
          /\ {r \in Reports : before.reports[r] # after.reports[r]} = {selected.report}
       THEN answer([subject |-> selected, kind |-> "finalized", hash |-> worker.target.hash,
                    previous |-> worker.previous.hash,
                    before |-> before.reports[selected.report], after |-> after.reports[selected.report]])
       ELSE refuse

Init ==
    /\ best = <<>> /\ finalized = <<>> /\ indexed = <<>>
    /\ selected \in Subjects
    /\ working = FALSE /\ shown = None /\ compared = None
    /\ worker = None /\ posted = {} /\ started = 0

Next ==
    \/ extend \/ finalize \/ index
    \/ check \/ cancel \/ timeout \/ compareSaved
    \/ \E s \in Subjects : select(s)
    \/ \E a \in posted : receive(a)
    \/ fails
    \/ queryTransaction \/ queryContract \/ chain_getFinalizedHead
    \/ observeTransaction \/ verifyPublicContract
    \/ compareDeploymentPolicy
    \/ queryTarget \/ findPreviousContractAction \/ queryPrior
    \/ checkPreviousBlock \/ checkTargetBlock \/ reconcileReport

Spec == Init /\ [][Next]_vars

-----------------------------------------------------------------------------
\* Whatever a panel shows as finalized is so and stays so, although its evidence
\* was read in several requests from two services while the chain was being
\* reorganized: the block is on the finalized chain, the transaction has that
\* status in it, the contract that state, and an address is offered for recovery
\* only if that deployment carries the saved policy and this release's keys.
FinalizedStaysTrue ==
    (shown # None /\ shown.kind = "finalized") =>
        /\ IsPrefix(shown.hash, finalized)
        /\ selected.check = "lookup" =>
               \E a \in latest(shown.hash) : a.hash = shown.hash /\ a.state = shown.state
        /\ selected.check # "lookup" => \E a \in found(finalized, shown.subject.tx) :
               /\ a.hash = shown.hash
               /\ a.status = IF selected.check = "status" THEN shown.status ELSE "SUCCESS"
               /\ (selected.check = "policy" /\ canChoose(shown)) =>
                      a.state.policy = shown.subject.saved /\ a.state.keys = Release

\* What a report check shows as "before -> after" is the report's record right
\* before and right after the transaction on the finalized chain, and "saved
\* decision matches" is said of the digest that was finalized, although the
\* history may be incomplete and the states come from an indexer that may have
\* been on another fork for some of them.
ReconciledIsTrue ==
    (shown # None /\ selected.check = "effect") =>
        \E h \in DOMAIN finalized : \E k \in DOMAIN finalized[h] :
            LET c == SubSeq(finalized, 1, h)  a == Action(c, k)  before == stateBefore(c, k)
                r == shown.subject.report IN
            /\ a.tx = shown.subject.tx /\ a.status = "SUCCESS"
            /\ before # None /\ before.reports[r] = shown.before
            /\ a.state.reports[r] = shown.after
            /\ compared = TRUE => selected.saved = IF raw[a.tx].circuit = "submitReport"
                                                   THEN a.state.reports[r].ciphertext
                                                   ELSE a.state.reports[r].decision

\* "Compared states at blocks m and n": both are on the finalized chain, in this
\* order, and at the end of the earlier one the report was what is shown as its
\* record before the transaction, although the stream may skip actions, repeat
\* them, bring them out of order or bring two of one block.
ComparedBlocksAreTrue ==
    (shown # None /\ selected.check = "effect") =>
        /\ IsPrefix(shown.previous, shown.hash) /\ shown.previous # shown.hash
        /\ IsPrefix(shown.hash, finalized)
        /\ StateAfter[shown.previous] # None
        /\ StateAfter[shown.previous].reports[shown.subject.report] = shown.before

\* The panel shows only what was found out about the transaction or contract that
\* is selected now, and waits only for a worker that is still there: answers of
\* workers that were cancelled, replaced or timed out change nothing.
ShownIsForSelected ==
    /\ shown # None => shown.subject = selected /\ ~working
    /\ working <=> worker # None

=============================================================================
