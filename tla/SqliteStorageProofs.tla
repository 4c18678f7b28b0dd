-------------------------- MODULE SqliteStorageProofs -------------------------
(***************************************************************************)
(* The SQLite backend keeps the promise of ImmutableStore, and a database   *)
(* that is refused never held anything: for any number of adapters,         *)
(* ciphertexts, requests and any quota.                                     *)
(*                                                                         *)
(* The induction follows one put on its way: the request that is posted is  *)
(* the one that is pending under its number (Asked), and an answer that     *)
(* says yes to a put is about a ciphertext that is stored (Answered), so    *)
(* what the adapter then acknowledges is stored.                            *)
(***************************************************************************)
EXTENDS SqliteStorage, SequenceTheorems, TLAPS

Requests == [operation : Operations \cup {"close"}, id : Nat]
            \cup [operation : {"put"}, digest : Digests, id : Nat]

Answers == [id : Nat, ok : BOOLEAN]

Typed ==
    /\ stored \subseteq Digests
    /\ DOMAIN pending = Adapters /\ DOMAIN worker = Adapters
    /\ connected \in [Adapters -> BOOLEAN]
    /\ posted \in [Adapters -> Seq(Requests)]
    /\ answers \in [Adapters -> Seq(Answers)]
    /\ nextId \in [Adapters -> Nat]

\* Only a database with its schema has rows or connections.
Database ==
    /\ acked \subseteq stored
    /\ file # "ready" => stored = {}
    /\ \A s \in Adapters : connected[s] => file = "ready"

Asked(s) ==
    /\ worker[s] = "creating" => posted[s] # <<>>
    /\ \A id \in DOMAIN pending[s] : id \in 1..nextId[s]
    /\ \A i \in 1..Len(posted[s]) :
          LET id == posted[s][i].id
          IN  /\ id \in 1..nextId[s]
              /\ id \in DOMAIN pending[s] => pending[s][id] = posted[s][i]

Answered(s) ==
    \A i \in 1..Len(answers[s]) :
        LET id == answers[s][i].id
        IN  /\ id \in 1..nextId[s]
            /\ answers[s][i].ok /\ id \in DOMAIN pending[s] /\ pending[s][id].operation = "put"
                  => pending[s][id].digest \in stored

StoreInv == Typed /\ Database /\ \A s \in Adapters : Asked(s) /\ Answered(s)

\* What a step that concerns adapter s leaves of the others.
Others(s) ==
    \A t \in Adapters \ {s} :
        /\ worker'[t] = worker[t] /\ connected'[t] = connected[t]
        /\ posted'[t] = posted[t] /\ answers'[t] = answers[t]
        /\ pending'[t] = pending[t] /\ nextId'[t] = nextId[t]

-----------------------------------------------------------------------------
\* No adapter and no file: nothing is asked or stored.
LEMMA StoreInitially == Init => StoreInv
<1> SUFFICES ASSUME Init
             PROVE  StoreInv
  OBVIOUS
<1>1. Typed
  BY DEF Init, StoreInit, Typed
<1>2. Database
  BY DEF Init, StoreInit, Database
<1>3. ASSUME NEW s \in Adapters
      PROVE  Asked(s) /\ Answered(s)
  BY DEF Init, Asked, Answered, NoRequests
<1>4. QED
  BY <1>1, <1>2, <1>3 DEF StoreInv

\* What a step leaves alone, and rows that are only added, keep what is known
\* of the other adapters.
LEMMA OthersKeep ==
  ASSUME StoreInv, NEW s \in Adapters, Others(s), stored \subseteq stored',
         Asked(s)', Answered(s)', Typed', Database'
  PROVE  StoreInv'
<1>1. ASSUME NEW t \in Adapters \ {s}
      PROVE  Asked(t)' /\ Answered(t)'
  BY <1>1 DEF StoreInv, Others, Asked, Answered
<1>2. \A t \in Adapters : Asked(t)' /\ Answered(t)'
  BY <1>1
<1>3. QED
  BY <1>2 DEF StoreInv

\* Starting an adapter or closing it for good asks nothing.
LEMMA QuietStep ==
  ASSUME StoreInv, NEW s \in Adapters, construct(s) \/ closed(s)
  PROVE  StoreInv' /\ UNCHANGED storeVars
<1>1. /\ UNCHANGED <<stored, acked, file, connected, posted, answers, pending, nextId>>
      /\ worker' = worker \/ worker' = [worker EXCEPT ![s] = "running"]
  BY DEF construct, closed, database
<1>2. QED
  BY <1>1 DEF StoreInv, Typed, Database, Asked, Answered, storeVars

\* A request gets a number that neither a request nor an answer has.
LEMMA PostKeeps ==
  ASSUME StoreInv, NEW s \in Adapters, NEW r \in Requests, r.id = nextId[s] + 1, post(s, r),
         UNCHANGED <<database, worker, connected, answers>>
  PROVE  StoreInv' /\ UNCHANGED storeVars
<1> DEFINE q == posted[s]
<1>1. q \in Seq(Requests) /\ nextId[s] \in Nat /\ answers[s] \in Seq(Answers)
  BY DEF StoreInv, Typed
<1>2. /\ posted'[s] = Append(q, r)
      /\ nextId'[s] = nextId[s] + 1
      /\ DOMAIN pending'[s] = DOMAIN pending[s] \cup {r.id}
      /\ pending'[s][r.id] = r
      /\ \A i \in DOMAIN pending[s] : i # r.id => pending'[s][i] = pending[s][i]
      /\ Others(s)
  BY DEF post, Others, StoreInv, Typed
<1>3. /\ Append(q, r) \in Seq(Requests)
      /\ Len(Append(q, r)) = Len(q) + 1
      /\ \A i \in 1..Len(q) : Append(q, r)[i] = q[i]
      /\ Append(q, r)[Len(q) + 1] = r
      /\ Len(q) \in Nat
  BY <1>1, AppendProperties
<1>4. Typed' /\ Database'
  BY <1>1, <1>2, <1>3 DEF StoreInv, Typed, Database, database, post
<1> HIDE DEF q
<1>5. Asked(s)'
  <2>1. ASSUME NEW i \in 1..Len(q)
        PROVE  /\ q[i].id \in 1..nextId[s]
               /\ q[i].id \in DOMAIN pending[s] => pending[s][q[i].id] = q[i]
    BY DEF StoreInv, Asked, q
  <2>2. ASSUME NEW i \in 1..Len(q) + 1
        PROVE  LET id == posted'[s][i].id
               IN  /\ id \in 1..nextId'[s]
                   /\ id \in DOMAIN pending'[s] => pending'[s][id] = posted'[s][i]
    <3>1. CASE i = Len(q) + 1
      BY <1>1, <1>2, <1>3, <3>1
    <3>2. CASE i \in 1..Len(q)
      <4>1. posted'[s][i] = q[i] /\ q[i].id \in 1..nextId[s] /\ q[i].id # r.id
        BY <1>1, <1>2, <1>3, <2>1, <3>2
      <4>2. QED
        BY <1>1, <1>2, <2>1, <3>2, <4>1
    <3>3. QED
      BY <1>3, <2>2, <3>1, <3>2
  <2>3. ASSUME NEW id \in DOMAIN pending'[s]
        PROVE  id \in 1..nextId'[s]
    BY <1>1, <1>2 DEF StoreInv, Asked
  <2>4. posted'[s] # <<>>
    BY <1>2, <1>1, AppendProperties DEF q
  <2>5. QED
    BY <1>2, <1>3, <2>2, <2>3, <2>4 DEF Asked
<1>6. Answered(s)'
  <2>1. ASSUME NEW i \in 1..Len(answers[s])
        PROVE  /\ answers[s][i].id \in 1..nextId'[s] /\ answers[s][i].id # r.id
               /\ answers[s][i].id \in DOMAIN pending'[s] =>
                     /\ answers[s][i].id \in DOMAIN pending[s]
                     /\ pending'[s][answers[s][i].id] = pending[s][answers[s][i].id]
    BY <1>1, <1>2 DEF StoreInv, Answered
  <2>2. answers' = answers /\ stored' = stored
    BY DEF database
  <2>3. QED
    BY <2>1, <2>2 DEF StoreInv, Answered
<1>7. QED
  BY <1>2, <1>4, <1>5, <1>6, OthersKeep DEF database, storeVars

\* Requests of callers, and close().
LEMMA RequestKeeps ==
  ASSUME StoreInv, NEW s \in Adapters,
         \/ \E operation \in Operations : request(s, operation, "none")
         \/ \E d \in Digests : request(s, "put", d)
         \/ close(s)
  PROVE  StoreInv' /\ UNCHANGED storeVars
<1>1. nextId[s] \in Nat /\ "put" \notin Operations
  BY SqliteConstants DEF StoreInv, Typed
<1>2. CASE \E operation \in Operations : request(s, operation, "none")
  <2>1. PICK operation \in Operations : request(s, operation, "none")
    BY <1>2
  <2> DEFINE r == [operation |-> operation, id |-> nextId[s] + 1]
  <2>2. r \in Requests /\ r.id = nextId[s] + 1
    BY <1>1 DEF Requests
  <2>3. post(s, r) /\ UNCHANGED <<database, worker, connected, answers>>
    BY <1>1, <2>1 DEF request
  <2> HIDE DEF r
  <2>4. QED
    BY <2>2, <2>3, PostKeeps
<1>3. CASE \E d \in Digests : request(s, "put", d)
  <2>1. PICK d \in Digests : request(s, "put", d)
    BY <1>3
  <2> DEFINE r == [operation |-> "put", digest |-> d, id |-> nextId[s] + 1]
  <2>2. r \in Requests /\ r.id = nextId[s] + 1
    BY <1>1 DEF Requests
  <2>3. post(s, r) /\ UNCHANGED <<database, worker, connected, answers>>
    BY <2>1 DEF request
  <2> HIDE DEF r
  <2>4. QED
    BY <2>2, <2>3, PostKeeps
<1>4. CASE close(s)
  <2> DEFINE r == [operation |-> "close", id |-> nextId[s] + 1]
  <2>1. r \in Requests /\ r.id = nextId[s] + 1
    BY <1>1 DEF Requests
  <2>2. CASE failure[s]
    <3>1. UNCHANGED <<stored, acked, file, worker, connected, posted, answers, pending, nextId>>
      BY <1>4, <2>2 DEF close, database
    <3>2. QED
      BY <3>1 DEF StoreInv, Typed, Database, Asked, Answered, storeVars
  <2>3. CASE ~failure[s]
    <3>1. post(s, r) /\ UNCHANGED <<database, worker, connected, answers>>
      BY <1>4, <2>3 DEF close
    <3> HIDE DEF r
    <3>2. QED
      BY <2>1, <3>1, PostKeeps
  <2>4. QED
    BY <2>2, <2>3
<1>5. QED
  BY <1>2, <1>3, <1>4

\* The worker or the process ends, and with it all that was under way.
LEMMA EndKeeps ==
  ASSUME StoreInv, NEW s \in Adapters, workerExits(s) \/ workerFails(s) \/ processEnds(s)
  PROVE  StoreInv' /\ UNCHANGED storeVars
<1>1. /\ UNCHANGED database
      /\ posted' = [posted EXCEPT ![s] = <<>>]
      /\ answers' = [answers EXCEPT ![s] = <<>>]
      /\ pending' = [pending EXCEPT ![s] = NoRequests]
      /\ connected' = [connected EXCEPT ![s] = FALSE]
      /\ nextId' = nextId \/ nextId' = [nextId EXCEPT ![s] = 0]
      /\ worker' = [worker EXCEPT ![s] = "exited"] \/ worker' = [worker EXCEPT ![s] = "none"]
  BY DEF workerExits, workerFails, processEnds, fail
<1>2. Typed'
  <2>1. <<>> \in Seq(Requests) /\ <<>> \in Seq(Answers)
    BY EmptySeq
  <2>2. QED
    BY <1>1, <2>1 DEF StoreInv, Typed, database
<1>3. Database'
  BY <1>1 DEF StoreInv, Typed, Database, database
<1>4. /\ posted'[s] = <<>> /\ answers'[s] = <<>> /\ DOMAIN pending'[s] = {}
      /\ worker'[s] # "creating"
      /\ Others(s)
  BY <1>1 DEF StoreInv, Typed, Others, NoRequests
<1>5. Asked(s)' /\ Answered(s)'
  BY <1>4 DEF Asked, Answered
<1>6. QED
  BY <1>1, <1>2, <1>3, <1>4, <1>5, OthersKeep DEF database, storeVars

\* The first request is answered; a yes to a put is about a stored ciphertext.
LEMMA AnswerKeeps ==
  ASSUME StoreInv, NEW s \in Adapters, NEW ok \in BOOLEAN, posted[s] # <<>>, answer(s, ok),
         stored \subseteq stored', stored' \subseteq Digests, acked' = acked, file' = file,
         stored' # {} => file = "ready",
         connected' \in [Adapters -> BOOLEAN],
         \A t \in Adapters : connected'[t] => connected[t],
         \A t \in Adapters \ {s} : connected'[t] = connected[t],
         worker' \in {worker, [worker EXCEPT ![s] = "running"]}, worker'[s] # "creating",
         ok /\ Head(posted[s]).operation = "put" => Head(posted[s]).digest \in stored'
  PROVE  StoreInv'
<1> DEFINE q == posted[s]
           a == [id |-> Head(q).id, ok |-> ok]
<1>1. q \in Seq(Requests) /\ answers[s] \in Seq(Answers) /\ nextId[s] \in Nat
  BY DEF StoreInv, Typed
<1>2. /\ q # <<>> /\ Len(q) \in Nat \ {0} /\ Head(q) = q[1] /\ Head(q) \in Requests
      /\ Tail(q) \in Seq(Requests) /\ Len(Tail(q)) = Len(q) - 1
      /\ \A i \in 1..Len(Tail(q)) : Tail(q)[i] = q[i + 1]
  BY <1>1, HeadTailProperties, EmptySeq
<1>3. /\ q[1].id \in 1..nextId[s]
      /\ q[1].id \in DOMAIN pending[s] => pending[s][q[1].id] = q[1]
  BY <1>2 DEF StoreInv, Asked
<1>4. a \in Answers /\ a.id = q[1].id /\ a.ok = ok
  BY <1>1, <1>2, <1>3 DEF Answers
<1>5. /\ posted'[s] = Tail(q)
      /\ answers'[s] = Append(answers[s], a)
      /\ pending' = pending /\ nextId' = nextId
      /\ Others(s)
      /\ DOMAIN posted' = Adapters /\ DOMAIN answers' = Adapters
  BY DEF answer, Others, StoreInv, Typed
<1>6. /\ Append(answers[s], a) \in Seq(Answers)
      /\ Len(Append(answers[s], a)) = Len(answers[s]) + 1
      /\ \A i \in 1..Len(answers[s]) : Append(answers[s], a)[i] = answers[s][i]
      /\ Append(answers[s], a)[Len(answers[s]) + 1] = a
      /\ Len(answers[s]) \in Nat
  <2> HIDE DEF a
  <2>1. QED
    BY <1>1, <1>4, AppendProperties
<1> HIDE DEF a
<1>7. Typed'
  <2>1. posted' \in [Adapters -> Seq(Requests)]
    BY <1>2 DEF answer, StoreInv, Typed
  <2>2. answers' \in [Adapters -> Seq(Answers)]
    BY <1>6, a \in Answers DEF answer, StoreInv, Typed, a
  <2>3. QED
    BY <1>5, <2>1, <2>2 DEF StoreInv, Typed
<1>8. Database'
  BY DEF StoreInv, Database
<1>9. Asked(s)'
  <2>1. ASSUME NEW i \in 1..Len(Tail(q))
        PROVE  LET id == Tail(q)[i].id
               IN  /\ id \in 1..nextId[s]
                   /\ id \in DOMAIN pending[s] => pending[s][id] = Tail(q)[i]
    <3>1. i + 1 \in 1..Len(q) /\ Tail(q)[i] = q[i + 1]
      BY <1>2
    <3>2. QED
      BY <3>1 DEF StoreInv, Asked
  <2> HIDE DEF q
  <2>2. QED
    BY <1>5, <2>1 DEF StoreInv, Asked
<1>10. Answered(s)'
  <2>1. ASSUME NEW i \in 1..Len(answers[s]) + 1
        PROVE  LET id == answers'[s][i].id
               IN  /\ id \in 1..nextId[s]
                   /\ answers'[s][i].ok /\ id \in DOMAIN pending[s] /\ pending[s][id].operation = "put"
                         => pending[s][id].digest \in stored'
    <3>1. CASE i = Len(answers[s]) + 1
      <4>1. answers'[s][i] = a
        BY <1>5, <1>6, <3>1
      <4>2. QED
        BY <1>2, <1>3, <1>4, <4>1
    <3>2. CASE i \in 1..Len(answers[s])
      <4>1. answers'[s][i] = answers[s][i]
        BY <1>5, <1>6, <3>2
      <4>2. QED
        BY <3>2, <4>1 DEF StoreInv, Answered
    <3>3. QED
      BY <1>6, <2>1, <3>1, <3>2
  <2>2. QED
    BY <1>5, <1>6, <2>1 DEF Answered
<1>11. QED
  BY <1>5, <1>7, <1>8, <1>9, <1>10, OthersKeep

\* An answer settles its request, and acknowledges what is stored.
LEMMA ReceiveKeeps ==
  ASSUME StoreInv, NEW s \in Adapters, receive(s)
  PROVE  StoreInv' /\ [StoreNext]_storeVars
<1> DEFINE q == answers[s]
           id == Head(q).id
           acknowledges == /\ id \in DOMAIN pending[s] /\ Head(q).ok
                           /\ pending[s][id].operation = "put"
<1>1. q \in Seq(Answers) /\ q # <<>> /\ nextId[s] \in Nat
  BY DEF StoreInv, Typed, receive
<1>2. /\ Len(q) \in Nat \ {0} /\ Head(q) = q[1]
      /\ Tail(q) \in Seq(Answers) /\ Len(Tail(q)) = Len(q) - 1
      /\ \A i \in 1..Len(Tail(q)) : Tail(q)[i] = q[i + 1]
  BY <1>1, HeadTailProperties, EmptySeq
<1>3. /\ answers' = [answers EXCEPT ![s] = Tail(q)]
      /\ pending' = [pending EXCEPT ![s] = without(pending[s], id)]
      /\ acked' = IF acknowledges THEN acked \cup {pending[s][id].digest} ELSE acked
      /\ UNCHANGED <<stored, file, worker, connected, posted, nextId>>
  BY DEF receive, StoreInv, Typed
<1>4. acknowledges => pending[s][id].digest \in stored
  BY <1>2 DEF StoreInv, Answered
<1> HIDE DEF id, acknowledges
<1>5. /\ answers'[s] = Tail(q)
      /\ DOMAIN pending'[s] = DOMAIN pending[s] \ {id}
      /\ \A i \in DOMAIN pending'[s] : pending'[s][i] = pending[s][i]
      /\ Others(s)
  BY <1>3 DEF Others, StoreInv, Typed, without
<1>6. Typed'
  BY <1>2, <1>3 DEF StoreInv, Typed
<1>7. Database'
  BY <1>3, <1>4 DEF StoreInv, Database
<1>8. Asked(s)'
  BY <1>3, <1>5 DEF StoreInv, Asked
<1>9. Answered(s)'
  <2>1. ASSUME NEW i \in 1..Len(Tail(q))
        PROVE  LET k == Tail(q)[i].id
               IN  /\ k \in 1..nextId[s]
                   /\ Tail(q)[i].ok /\ k \in DOMAIN pending[s] /\ pending[s][k].operation = "put"
                         => pending[s][k].digest \in stored
    <3>1. i + 1 \in 1..Len(q) /\ Tail(q)[i] = q[i + 1]
      BY <1>2
    <3>2. Answered(s)
      BY DEF StoreInv
    <3>3. QED
      BY <3>1, <3>2 DEF Answered
  <2>2. ASSUME NEW i \in 1..Len(answers'[s])
        PROVE  LET k == answers'[s][i].id
               IN  /\ k \in 1..nextId'[s]
                   /\ answers'[s][i].ok /\ k \in DOMAIN pending'[s] /\ pending'[s][k].operation = "put"
                         => pending'[s][k].digest \in stored'
    <3>1. /\ i \in 1..Len(Tail(q)) /\ answers'[s][i] = Tail(q)[i]
          /\ nextId' = nextId /\ stored' = stored
      BY <1>3, <1>5
    <3> HIDE DEF q
    <3>2. QED
      BY <1>5, <2>1, <3>1
  <2>3. QED
    BY <2>2 DEF Answered
<1>10. [StoreNext]_storeVars
  <2>1. CASE acknowledges
    BY <1>3, <1>4, <2>1 DEF StoreNext, Acknowledge, StoreInv, Typed
  <2>2. CASE ~acknowledges
    BY <1>3, <2>2 DEF storeVars
  <2>3. QED
    BY <2>1, <2>2
<1>11. QED
  BY <1>3, <1>5, <1>6, <1>7, <1>8, <1>9, <1>10, OthersKeep

\* Opening a database, with its schema, has no rows to change.
LEMMA OpenKeeps ==
  ASSUME StoreInv, NEW s \in Adapters, create(s) \/ commitSchema(s) \/ connect(s)
  PROVE  StoreInv' /\ UNCHANGED storeVars
<1>1. CASE /\ UNCHANGED <<stored, acked, posted, answers, pending, nextId>>
           /\ \/ connected' = connected /\ file # "ready" /\ file' # "ready"
              \/ connected' = [connected EXCEPT ![s] = TRUE] /\ file' = "ready"
           /\ \/ worker' = worker
              \/ posted[s] # <<>> /\ worker' = [worker EXCEPT ![s] = "creating"]
              \/ worker' = [worker EXCEPT ![s] = "running"]
  <2>1. Typed'
    BY <1>1 DEF StoreInv, Typed
  <2>2. Database'
    BY <1>1 DEF StoreInv, Typed, Database
  <2>3. QED
    BY <1>1, <2>1, <2>2 DEF StoreInv, Typed, Asked, Answered, storeVars
<1>2. CASE /\ posted[s] # <<>> /\ answer(s, FALSE) /\ UNCHANGED <<database, connected>>
           /\ \/ worker' = worker /\ worker[s] = "running"
              \/ worker' = [worker EXCEPT ![s] = "running"]
  BY <1>2, AnswerKeeps DEF database, storeVars, StoreInv, Typed, Database
<1>3. CASE create(s)
  BY <1>1, <1>3 DEF create, asks
<1>4. CASE commitSchema(s)
  <2>1. posted[s] # <<>>
    BY <1>4 DEF commitSchema, StoreInv, Asked
  <2>2. QED
    BY <1>1, <1>2, <1>4, <2>1 DEF commitSchema
<1>5. CASE connect(s)
  BY <1>1, <1>2, <1>5 DEF connect, refused, asks, database
<1>6. QED
  BY <1>3, <1>4, <1>5

\* The transaction of a put stores what fits and says yes to what is stored.
LEMMA PutKeeps ==
  ASSUME StoreInv, NEW s \in Adapters, put(s)
  PROVE  StoreInv' /\ [StoreNext]_storeVars
<1> DEFINE r == Head(posted[s])
<1>1. /\ posted[s] # <<>> /\ r.operation = "put" /\ file = "ready"
      /\ worker[s] = "running" /\ UNCHANGED <<acked, file, worker, connected>>
  BY DEF put, asks, ready, refused, database, StoreInv, Database
<1>2. r \in Requests
  BY <1>1, HeadTailProperties, EmptySeq DEF StoreInv, Typed
<1>3. r.digest \in Digests
  BY <1>1, <1>2, SqliteConstants DEF Requests
<1> HIDE DEF r
<1>4. /\ connected' \in [Adapters -> BOOLEAN]
      /\ stored \subseteq Digests
  BY <1>1 DEF StoreInv, Typed
<1>5. CASE r.digest \in stored /\ answer(s, TRUE) /\ stored' = stored
  <2>1. StoreInv'
    BY <1>1, <1>4, <1>5, AnswerKeeps DEF r
  <2>2. QED
    BY <1>1, <1>5, <2>1 DEF storeVars
<1>6. CASE /\ r.digest \notin stored /\ capacity(r.digest)
           /\ stored' = stored \cup {r.digest} /\ answer(s, TRUE)
  <2>1. StoreInv'
    BY <1>1, <1>3, <1>4, <1>6, AnswerKeeps DEF r
  <2>2. StoreNext
    BY <1>1, <1>3, <1>6 DEF StoreNext, Store, capacity
  <2>3. QED
    BY <2>1, <2>2
<1>7. CASE answer(s, FALSE) /\ stored' = stored
  <2>1. StoreInv'
    BY <1>1, <1>4, <1>7, AnswerKeeps
  <2>2. QED
    BY <1>1, <1>7, <2>1 DEF storeVars
<1>8. QED
  BY <1>5, <1>6, <1>7 DEF put, refused, database, r

\* Errors, reads and close answer without changing a row.
LEMMA AnswersOnly ==
  ASSUME StoreInv, NEW s \in Adapters, fails(s) \/ observe(s) \/ closeDatabase(s)
  PROVE  StoreInv' /\ UNCHANGED storeVars
<1>1. PICK ok \in BOOLEAN :
        /\ answer(s, ok)
        /\ ok => Head(posted[s]).operation \in Operations \cup {"close"}
  BY DEF fails, observe, closeDatabase, refused, asks
<1>2. /\ posted[s] # <<>> /\ worker[s] = "running" /\ UNCHANGED <<stored, acked, file, worker>>
      /\ connected' = connected \/ connected' = [connected EXCEPT ![s] = FALSE]
  BY DEF fails, observe, closeDatabase, refused, asks, ready, database
<1>3. /\ connected' \in [Adapters -> BOOLEAN]
      /\ \A t \in Adapters : connected'[t] => connected[t]
      /\ \A t \in Adapters \ {s} : connected'[t] = connected[t]
      /\ stored \subseteq Digests
      /\ stored # {} => file = "ready"
  BY <1>2 DEF StoreInv, Typed, Database
<1>4. ~(ok /\ Head(posted[s]).operation = "put")
  BY <1>1, SqliteConstants
<1>5. StoreInv'
  BY <1>1, <1>2, <1>3, <1>4, AnswerKeeps
<1>6. QED
  BY <1>2, <1>5 DEF storeVars

\* Every step keeps the invariant, and is a step of the immutable store or
\* leaves its variables alone.
LEMMA StoreStep == StoreInv /\ [Next]_vars => StoreInv' /\ [StoreNext]_storeVars
<1> SUFFICES ASSUME StoreInv, [Next]_vars
             PROVE  StoreInv' /\ [StoreNext]_storeVars
  OBVIOUS
<1>1. CASE UNCHANGED vars
  BY <1>1 DEF vars, adapterVars, storeVars, StoreInv, Typed, Database, Asked, Answered
<1>2. CASE Next
  <2>1. PICK s \in Adapters :
          \/ construct(s) \/ close(s) \/ workerFails(s) \/ processEnds(s) \/ work(s) \/ settle(s)
          \/ \E operation \in Operations : request(s, operation, "none")
          \/ \E d \in Digests : request(s, "put", d)
    BY <1>2 DEF Next
  <2>2. CASE construct(s) \/ closed(s)
    BY <2>2, QuietStep
  <2>3. CASE \/ \E operation \in Operations : request(s, operation, "none")
             \/ \E d \in Digests : request(s, "put", d)
             \/ close(s)
    BY <2>3, RequestKeeps
  <2>4. CASE workerExits(s) \/ workerFails(s) \/ processEnds(s)
    BY <2>4, EndKeeps
  <2>5. CASE create(s) \/ commitSchema(s) \/ connect(s)
    BY <2>5, OpenKeeps
  <2>6. CASE put(s)
    BY <2>6, PutKeeps
  <2>7. CASE fails(s) \/ observe(s) \/ closeDatabase(s)
    BY <2>7, AnswersOnly
  <2>8. CASE receive(s)
    BY <2>8, ReceiveKeeps
  <2>9. QED
    BY <2>1, <2>2, <2>3, <2>4, <2>5, <2>6, <2>7, <2>8 DEF work, settle
<1>3. QED
  BY <1>1, <1>2

-----------------------------------------------------------------------------
\* Whatever adapters open, fail and restart, posted requests, answers and rows
\* agree.
THEOREM StoreInvariance == Spec => []StoreInv
<1>1. QED
  BY StoreInitially, StoreStep, PTL DEF Spec

\* sqlite-worker.ts initialize: a database that is refused because it has no
\* schema never held a ciphertext, and none was acknowledged.
THEOREM RefusalSafety == Spec => []RefusalLosesNothing
<1>1. StoreInv => RefusalLosesNothing
  BY DEF StoreInv, Database, RefusalLosesNothing
<1>2. QED
  BY <1>1, StoreInvariance, PTL

\* The backend is an immutable store: within its quota, it only ever adds, and
\* acknowledges a put only once its row is committed.
THEOREM SqliteImplementsStore == Spec => ImplementsImmutableStore
<1>1. Init => StoreInit
  BY DEF Init
<1>2. QED
  BY <1>1, StoreInvariance, StoreStep, PTL DEF Spec, StoreSpec, ImplementsImmutableStore
=============================================================================
