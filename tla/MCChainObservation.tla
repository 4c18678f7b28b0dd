-------------------------- MODULE MCChainObservation --------------------------
(* One contract's deployment and five calls, on five chains that fork from each *)
(* other, and nine things to check: the status, deployment, effect and lookup   *)
(* panels, each with something to confirm and something to refuse.              *)
EXTENDS ChainObservation

CONSTANTS
    txD, txX, txY, txA, txT, txE, program, policy, otherPolicy, keys,
    reportR, reportQ, c1, c2, yes, no

MCRelease == keys
record(status, ciphertext, decision) == [status |-> status, ciphertext |-> ciphertext, decision |-> decision]
sealed(ciphertext) == record("Sealed", ciphertext, None)
call(circuit, report, sequence, from, to) ==
    [kind |-> "ContractCall", circuit |-> circuit, report |-> report, sequence |-> sequence,
     from |-> from, to |-> to]

\* txX and txY compete for the first call; txT and txE follow txA.
MCraw ==
    [tx \in {txD, txX, txY, txA, txT, txE} |->
        CASE tx = txD -> [kind |-> "ContractDeploy", program |-> program, policy |-> policy, keys |-> keys]
          [] tx = txX -> call("submitReport", reportQ, 1, None, sealed(c1))
          [] tx = txY -> call("submitReport", reportQ, 1, None, sealed(c2))
          [] tx = txA -> call("submitReport", reportR, 2, None, sealed(c1))
          [] tx = txT -> call("beginTriage", reportR, 3, sealed(c1), record("Triaged", c1, None))
          [] tx = txE -> call("acceptReport", reportR, 4, record("Triaged", c1, None), record("Accepted", c1, yes))]

\* Forks with other reports, with a block of two actions, with a later deployment
\* and with a call that fails.
MCForks == {<<<<txD>>, <<txX>>, <<txA>>, <<txT>>, <<txE>>>>, <<<<txD>>, <<txY>>, <<txA>>, <<txT>>, <<txE>>>>,
            <<<<txD>>, <<txX, txA>>, <<txT>>>>, <<<<>>, <<txD>>, <<txX>>>>, <<<<txD>>, <<txX>>, <<txT>>>>}

status(tx, circuit) == [check |-> "status", tx |-> tx, circuit |-> circuit]
deployment(tx, saved) == [check |-> "policy", tx |-> tx, saved |-> saved]
effect(tx, circuit, report, saved) ==
    [check |-> "effect", tx |-> tx, circuit |-> circuit, program |-> program, report |-> report, saved |-> saved]
lookup(report, digest) == [check |-> "lookup", report |-> report, digest |-> digest]

MCSubjects ==
    {status(txT, "beginTriage"), status(txX, "constructor"),
     deployment(txD, policy), deployment(txD, otherPolicy),
     effect(txA, "submitReport", reportR, c1),
     effect(txE, "acceptReport", reportR, no), effect(txE, "acceptReport", reportR, yes),
     lookup(None, None), lookup(reportQ, c1)}
=============================================================================
