---------------------------- MODULE SqliteStorage ----------------------------
(***************************************************************************)
(* The SQLite backend: cipherstore/src/sqlite-storage.ts, the adapter in    *)
(* the HTTP thread, and sqlite-worker.ts, its worker thread, joined by two  *)
(* message ports.  Several adapters may be open on one directory (other     *)
(* processes, or the tests' independent connections); the file and its      *)
(* committed rows are all they share.                                       *)
(*                                                                         *)
(* The worker is synchronous, and BEGIN IMMEDIATE serializes transactions   *)
(* of different connections, so one transaction is one step: it commits     *)
(* before it is answered, or is rolled back by an error or a crash.         *)
(***************************************************************************)
EXTENDS ImmutableStore, Sequences

CONSTANTS
    Adapters,
    Operations,     \* the operations callers use beside put: prepare, read, list, ready
    MaxPending,     \* 128 in the source
    MaxId           \* bounds the requests of each adapter

ASSUME SqliteConstants ==
    /\ Operations \subseteq {"prepare", "read", "list", "ready"}
    /\ MaxPending \in Nat \ {0} /\ MaxId \in [Adapters -> Nat]

VARIABLES
    file,           \* ciphertext.sqlite: "absent", "empty" (no schema yet) or "ready"
    worker,         \* "none", "running", "creating" (the file, not yet its schema) or "exited"
    connected,      \* the worker's open connection, db
    posted,         \* requests on their way to the worker
    answers,        \* its answers on their way back
    pending,        \* the adapter's unsettled requests: id -> request
    nextId,
    failure,        \* the adapter has seen its worker fail or exit
    closing         \* close(): "no", "requested", "exiting", "terminating" or "closed"

adapterVars == <<worker, connected, posted, answers, pending, nextId, failure, closing>>
vars == <<stored, acked, file, adapterVars>>

NoRequests == [i \in {} |-> i]
Ids(s) == 1..MaxId[s] + 1

without(p, id) == [i \in DOMAIN p \ {id} |-> p[i]]

Init ==
    /\ StoreInit
    /\ file = "absent"
    /\ worker = [s \in Adapters |-> "none"]
    /\ connected = [s \in Adapters |-> FALSE]
    /\ posted = [s \in Adapters |-> <<>>]
    /\ answers = [s \in Adapters |-> <<>>]
    /\ pending = [s \in Adapters |-> NoRequests]
    /\ nextId = [s \in Adapters |-> 0]
    /\ failure = [s \in Adapters |-> FALSE]
    /\ closing = [s \in Adapters |-> "no"]

database == <<stored, acked, file>>

-----------------------------------------------------------------------------
(* The adapter.                                                            *)

construct(s) ==
    /\ worker[s] = "none"
    /\ worker' = [worker EXCEPT ![s] = "running"]
    /\ UNCHANGED <<database, connected, posted, answers, pending, nextId, failure, closing>>

post(s, request) ==
    /\ nextId' = [nextId EXCEPT ![s] = @ + 1]
    /\ pending' = [pending EXCEPT ![s] = [i \in DOMAIN @ \cup {request.id} |->
                                             IF i = request.id THEN request ELSE @[i]]]
    /\ posted' = [posted EXCEPT ![s] = Append(@, request)]

\* Every operation but close: a failed, closing or full adapter rejects at once.
request(s, operation, digest) ==
    /\ worker[s] # "none" /\ ~failure[s]
    /\ closing[s] = "no"
    /\ Cardinality(DOMAIN pending[s]) < MaxPending
    /\ nextId[s] < MaxId[s]
    /\ post(s, IF operation = "put"
               THEN [operation |-> operation, digest |-> digest, id |-> nextId[s] + 1]
               ELSE [operation |-> operation, id |-> nextId[s] + 1])
    /\ UNCHANGED <<database, worker, connected, answers, failure, closing>>

\* close() is remembered, so a second call joins the first.  A failed adapter
\* rejects the request and terminates what is left of the worker.
close(s) ==
    /\ worker[s] # "none" /\ closing[s] = "no"
    /\ IF failure[s]
       THEN /\ closing' = [closing EXCEPT ![s] = "terminating"]
            /\ UNCHANGED <<posted, pending, nextId>>
       ELSE /\ closing' = [closing EXCEPT ![s] = "requested"]
            /\ post(s, [operation |-> "close", id |-> nextId[s] + 1])
    /\ UNCHANGED <<database, worker, connected, answers, failure>>

\* A message from the worker settles its request, if it is still pending.
receive(s) ==
    LET answer == Head(answers[s])
        known == answer.id \in DOMAIN pending[s]
        asked == pending[s][answer.id]
    IN  /\ answers[s] # <<>>
        /\ answers' = [answers EXCEPT ![s] = Tail(@)]
        /\ pending' = [pending EXCEPT ![s] = without(@, answer.id)]
        /\ acked' = IF known /\ answer.ok /\ asked.operation = "put"
                    THEN acked \cup {asked.digest} ELSE acked
        /\ closing' = [closing EXCEPT ![s] =
               IF known /\ asked.operation = "close" THEN "exiting" ELSE @]
        /\ UNCHANGED <<stored, file, worker, connected, posted, nextId, failure>>

fail_ForgetsPending(s) ==
    /\ failure' = [failure EXCEPT ![s] = TRUE]
    /\ closing' = [closing EXCEPT ![s] = IF @ = "requested" THEN "terminating" ELSE @]
    /\ UNCHANGED pending

\* The worker's "error" and "exit" events reject all that is pending, close()
\* among it.
fail(s) ==
    /\ failure' = [failure EXCEPT ![s] = TRUE]
    /\ pending' = [pending EXCEPT ![s] = NoRequests]
    /\ closing' = [closing EXCEPT ![s] = IF @ = "requested" THEN "terminating" ELSE @]

\* The worker's event loop ends after its port was closed: its messages are
\* received before the exit.  terminate() ends a worker at any step.
workerExits(s) ==
    /\ worker[s] \in {"running", "creating"}
    /\ \/ closing[s] = "terminating"
       \/ closing[s] = "exiting" /\ answers[s] = <<>>
    /\ worker' = [worker EXCEPT ![s] = "exited"]
    /\ connected' = [connected EXCEPT ![s] = FALSE]
    /\ posted' = [posted EXCEPT ![s] = <<>>]
    /\ answers' = [answers EXCEPT ![s] = <<>>]
    /\ fail(s)
    /\ UNCHANGED <<database, nextId>>

\* The worker dies of an error or is killed, with requests and answers under way.
workerFails(s) ==
    /\ worker[s] \in {"running", "creating"}
    /\ worker' = [worker EXCEPT ![s] = "exited"]
    /\ connected' = [connected EXCEPT ![s] = FALSE]
    /\ posted' = [posted EXCEPT ![s] = <<>>]
    /\ answers' = [answers EXCEPT ![s] = <<>>]
    /\ fail(s)
    /\ UNCHANGED <<database, nextId>>

\* close() settles once the worker is gone.
closed(s) ==
    /\ closing[s] \in {"exiting", "terminating"} /\ worker[s] = "exited"
    /\ closing' = [closing EXCEPT ![s] = "closed"]
    /\ UNCHANGED <<database, worker, connected, posted, answers, pending, nextId, failure>>

\* The process ends (after close(), or it crashes at any step) and takes its
\* adapter along; another process, or the same one again, starts afresh.
processEnds(s) ==
    /\ worker[s] # "none"
    /\ worker' = [worker EXCEPT ![s] = "none"]
    /\ connected' = [connected EXCEPT ![s] = FALSE]
    /\ posted' = [posted EXCEPT ![s] = <<>>]
    /\ answers' = [answers EXCEPT ![s] = <<>>]
    /\ pending' = [pending EXCEPT ![s] = NoRequests]
    /\ nextId' = [nextId EXCEPT ![s] = 0]
    /\ failure' = [failure EXCEPT ![s] = FALSE]
    /\ closing' = [closing EXCEPT ![s] = "no"]
    /\ UNCHANGED database

-----------------------------------------------------------------------------
(* The worker, on the first request posted to it.                          *)

asks(s, operations) == posted[s] # <<>> /\ Head(posted[s]).operation \in operations

answer(s, ok) ==
    /\ answers' = [answers EXCEPT ![s] = Append(@, [id |-> Head(posted[s]).id, ok |-> ok])]
    /\ posted' = [posted EXCEPT ![s] = Tail(@)]
    /\ UNCHANGED <<pending, nextId, failure, closing>>

refused(s) == answer(s, FALSE) /\ UNCHANGED <<database, worker, connected>>

Working == Operations \cup {"put"}

create_Truncates(s) ==
    /\ worker[s] = "running" /\ ~connected[s] /\ asks(s, Working)
    /\ file' = "empty" /\ stored' = {}
    /\ worker' = [worker EXCEPT ![s] = "creating"]
    /\ UNCHANGED <<acked, connected, posted, answers, pending, nextId, failure, closing>>

\* initialize: an exclusive open creates the file, if there is none.
create(s) ==
    /\ worker[s] = "running" /\ ~connected[s] /\ asks(s, Working)
    /\ file = "absent"
    /\ file' = "empty"
    /\ worker' = [worker EXCEPT ![s] = "creating"]
    /\ UNCHANGED <<stored, acked, connected, posted, answers, pending, nextId, failure, closing>>

\* The schema is one transaction.  If it fails (no space, another connection
\* holds the lock) the file stays without one.
commitSchema(s) ==
    /\ worker[s] = "creating"
    /\ worker' = [worker EXCEPT ![s] = "running"]
    /\ \/ /\ file' = "ready"
          /\ connected' = [connected EXCEPT ![s] = TRUE]
          /\ UNCHANGED <<stored, acked, posted, answers, pending, nextId, failure, closing>>
       \/ answer(s, FALSE) /\ UNCHANGED <<database, connected>>

\* An existing file is opened if it has the application's id and version.
connect(s) ==
    /\ worker[s] = "running" /\ ~connected[s] /\ asks(s, Working) /\ file # "absent"
    /\ IF file = "ready"
       THEN /\ connected' = [connected EXCEPT ![s] = TRUE]
            /\ UNCHANGED <<database, worker, posted, answers, pending, nextId, failure, closing>>
       ELSE refused(s)

ready(s) == worker[s] = "running" /\ connected[s]

capacity_CountsFirst(d) == Bytes(stored) =< MaxBytes /\ Cardinality(stored) < MaxBlobs

capacity(d) == Fits(stored, d)

\* The transaction of a put: an identical row is reported as such, otherwise
\* the quota is checked and the row inserted.
put(s) ==
    /\ ready(s) /\ asks(s, {"put"})
    /\ LET d == Head(posted[s]).digest
       IN  IF d \in stored
           THEN answer(s, TRUE) /\ UNCHANGED <<database, worker, connected>>
           ELSE IF capacity(d)
           THEN /\ stored' = stored \cup {d}
                /\ answer(s, TRUE)
                /\ UNCHANGED <<acked, file, worker, connected>>
           ELSE refused(s)

\* BUSY, FULL or another error: the transaction is rolled back.
fails(s) == ready(s) /\ asks(s, Working) /\ refused(s)

\* prepare, read, list and the probe, whose row is deleted again before COMMIT.
observe(s) ==
    /\ ready(s) /\ asks(s, Operations)
    /\ answer(s, TRUE)
    /\ UNCHANGED <<database, worker, connected>>

\* close: the connection and then the port are closed.
closeDatabase(s) ==
    /\ worker[s] = "running" /\ asks(s, {"close"})
    /\ connected' = [connected EXCEPT ![s] = FALSE]
    /\ answer(s, TRUE)
    /\ UNCHANGED <<database, worker>>

-----------------------------------------------------------------------------
work(s) ==
    \/ create(s) \/ commitSchema(s) \/ connect(s) \/ put(s) \/ fails(s) \/ observe(s)
    \/ closeDatabase(s)

settle(s) == receive(s) \/ workerExits(s) \/ closed(s)

Next == \E s \in Adapters :
    \/ construct(s) \/ close(s) \/ workerFails(s) \/ processEnds(s) \/ work(s) \/ settle(s)
    \/ \E operation \in Operations : request(s, operation, "none")
    \/ \E d \in Digests : request(s, "put", d)

\* The worker's calls return (a lock is waited for one second at most), and the
\* event loop delivers messages and events.
Fairness == \A s \in Adapters : WF_vars(work(s)) /\ WF_vars(settle(s))

Spec == Init /\ [][Next]_vars /\ Fairness

-----------------------------------------------------------------------------
\* A database file that every later start refuses (its creation was cut short by
\* a crash or a full disk) never held a ciphertext, acknowledged or not.
RefusalLosesNothing == file # "ready" => stored = {} /\ acked = {}

\* The backend keeps the promise of a cipherstore.
ImplementsImmutableStore == StoreSpec

\* Every pending request settles, close() too: by its answer, or because the
\* worker or the process has gone.
RequestsSettle ==
    /\ \A s \in Adapters : \A id \in Ids(s) :
        id \in DOMAIN pending[s] ~> id \notin DOMAIN pending[s]
    /\ \A s \in Adapters :
        closing[s] # "no" ~> closing[s] \in {"closed", "no"}
=============================================================================
