-------------------------- MODULE CipherstoreProofs --------------------------
(***************************************************************************)
(* The cipherstore has one writer, keeps what it acknowledged, implements   *)
(* ImmutableStore and gives back every slot, also next to the tools of its  *)
(* operator, for any number of server processes, connections and            *)
(* ciphertexts and any quota.                                               *)
(*                                                                         *)
(* The argument: a handler runs only in a process that holds the lease      *)
(* (Alive), and between quota check and answer only at the head of that     *)
(* process's queue (Turn); so there is one such handler, and what it found  *)
(* out about the store before its awaits is still true when it links the    *)
(* blob (Knows).  Places in a queue and upload slots are given back because *)
(* a queue holds exactly those that wait, each once (Slots).  While a tool  *)
(* has the lease nothing of this moves, so what a tool listed stays true    *)
(* until it ends (Copying, Retiring), and what it recorded until somebody   *)
(* else has the lock (Accounted).                                           *)
(***************************************************************************)
EXTENDS CipherstoreMaintenance, TLAPS, SequenceTheorems, FiniteSetTheorems

\* OneHolder alone is not inductive: that a second process cannot make the lock
\* rests on the lock of the first still being on disk, which is LeaseIsHeld, and
\* the release compares owner.json.
LeaseInv == LeaseTypeOK /\ LeaseIsHeld

Publishing == {"writing", "linking", "cleaning"}

Request == [step : Steps, server : Servers \cup {Nobody}, digest : Digests \cup {NoDigest},
            connected : BOOLEAN, sent : Nat, promised : BOOLEAN]

Shape ==
    /\ files \in [Digests -> Files]
    /\ DOMAIN stage = Servers
    /\ queue \in [Servers -> Seq(Requests \cup {Probe})]
    /\ request \in [Requests -> Request]

\* Whoever is told that its upload is stored finds a file there.
Kept == acked \subseteq StoredDigests

Alive(r) ==
    request[r].step # "idle" =>
        LET p == request[r].server
        IN  p \in Servers /\ phase[p] = "holding" /\ stage[p] # "starting"

Turn(r) ==
    request[r].step \in Publishing =>
        queue[request[r].server] # <<>> /\ Head(queue[request[r].server]) = r

Knows(r) ==
    LET d == request[r].digest
    IN  /\ request[r].step \in UploadSteps => d \in Digests
        /\ request[r].step \in {"writing", "linking"} => files[d] = "absent" /\ checkCapacity(Size[d])
        /\ request[r].step = "cleaning" => files[d] # "absent"
        /\ request[r].promised => request[r].step # "idle" /\ d \in acked

StoreInv ==
    /\ LeaseInv /\ Shape /\ Kept
    /\ \A r \in Requests : Alive(r) /\ Turn(r) /\ Knows(r)

\* What a step owes beside the lease: the rest of the invariant, and a step of
\* the abstract store.
Preserved ==
    /\ Shape' /\ Kept'
    /\ \A r \in Requests : Alive(r)' /\ Turn(r)' /\ Knows(r)'
    /\ [Store!StoreNext]_(Store!storeVars)

-----------------------------------------------------------------------------
(* The lease, for any number of processes.                                 *)

\* Before any process starts there is no lock to hold.
LEMMA LeaseInitially == LeaseInit => LeaseInv
  BY LeaseConstants DEF LeaseInit, LeaseInv, LeaseTypeOK, LeaseIsHeld, Phases

\* No acquire, release, failure, crash or clean-up breaks the invariant.
LEMMA LeaseStep == LeaseInv /\ [LeaseNext]_leaseVars => LeaseInv'
<1> SUFFICES ASSUME LeaseInv, [LeaseNext]_leaseVars PROVE LeaseInv'
  OBVIOUS
<1> USE LeaseConstants DEF LeaseInv, LeaseTypeOK, LeaseIsHeld, Phases
<1>1. ASSUME NEW p \in Processes, makeLock(p) PROVE LeaseInv'
  BY <1>1 DEF makeLock, become
<1>2. ASSUME NEW p \in Processes, writeOwner(p) PROVE LeaseInv'
  BY <1>2 DEF writeOwner, become
<1>3. ASSUME NEW p \in Processes, writeOwnerFails(p) PROVE LeaseInv'
  BY <1>3 DEF writeOwnerFails, become
<1>4. ASSUME NEW p \in Processes, removeOwner(p) PROVE LeaseInv'
  BY <1>4 DEF removeOwner, become
<1>5. ASSUME NEW p \in Processes, removeLock(p) PROVE LeaseInv'
  BY <1>5 DEF removeLock, become
<1>6. ASSUME NEW p \in Processes, crash(p) PROVE LeaseInv'
  BY <1>6 DEF crash, become
<1>7. CASE clearAbandonedLock
  BY <1>7 DEF clearAbandonedLock
<1>8. CASE UNCHANGED leaseVars
  BY <1>8 DEF leaseVars
<1>9. QED
  BY <1>1, <1>2, <1>3, <1>4, <1>5, <1>6, <1>7, <1>8 DEF LeaseNext

\* Every reachable lease is well formed and held by whoever is between acquire
\* and release.
THEOREM LeaseInvariance == LeaseSpec => []LeaseInv
<1>1. QED
  BY LeaseInitially, LeaseStep, PTL DEF LeaseSpec

\* At most one process holds the data directory, whatever crashed before.
THEOREM LeaseExcludes == LeaseSpec => []OneHolder
<1>1. LeaseInv => OneHolder
  BY DEF LeaseInv, LeaseIsHeld, OneHolder
<1>2. QED
  BY LeaseInvariance, <1>1, PTL

-----------------------------------------------------------------------------
(* The lease and the quota.                                                *)

\* Nothing is stored, nobody is served.
LEMMA StoreInitially == Init => StoreInv /\ Store!StoreInit
<1> SUFFICES ASSUME Init PROVE StoreInv /\ Store!StoreInit
  OBVIOUS
<1>1. LeaseInv
  BY LeaseInitially DEF Init
<1>2. Shape
  <2>1. NoRequest \in Request
    BY DEF NoRequest, Request, Steps
  <2>2. <<>> \in Seq(Requests \cup {Probe})
    BY EmptySeq
  <2>3. QED
    BY <2>1, <2>2 DEF Init, Shape, Files
<1>3. Kept /\ Store!StoreInit
  BY DEF Init, Kept, Store!StoreInit, StoredDigests
<1>4. ASSUME NEW r \in Requests PROVE Alive(r) /\ Turn(r) /\ Knows(r)
  BY DEF Init, Alive, Turn, Knows, NoRequest, Publishing, UploadSteps
<1>5. QED
  BY <1>1, <1>2, <1>3, <1>4 DEF StoreInv

\* Every step is a step of the lease or leaves it alone.
LEMMA ServerKeepsLease == LeaseInv /\ Next => LeaseInv'
<1> SUFFICES ASSUME Next PROVE [LeaseNext]_leaseVars
  BY LeaseStep
<1>1. ASSUME NEW p \in Servers,
             \/ acquireLease(p) \/ startUp(p) \/ stop(p) \/ shutDown(p) \/ crashServer(p)
      PROVE  [LeaseNext]_leaseVars
  BY <1>1, CipherstoreConstants DEF acquireLease, startUp, recordLease, recordLeaseFails,
     refuseToStart, listen, stop, shutDown, closed, releaseLease, finishRelease, crashServer,
     LeaseNext
<1>2. CASE clearLock
  BY <1>2 DEF clearLock, LeaseNext
<1>3. CASE \/ \E p \in Servers : probe(p) \/ \E r \in Requests :
                \/ startReady(p, r)
                \/ \E d \in Digests : startPut(p, r, d) \/ startGet(p, r, d)
           \/ \E r \in Requests : handle(r) \/ disconnect(r)
           \/ \E d \in Digests : damage(d)
  <2>1. UNCHANGED leaseVars
    BY <1>3 DEF probe, startReady, startPut, startGet, handle, receive, inspect, write, link,
       clean, read, disconnect, damage, quiet
  <2>2. QED
    BY <2>1
<1>4. QED
  BY <1>1, <1>2, <1>3 DEF Next

\* The quota is a matter of what is stored, here as in the abstract store.
LEMMA SameQuota ==
  /\ StoredDigests' = StoredDigests => \A n : checkCapacity(n)' = checkCapacity(n)
  /\ \A d : checkCapacity(Size[d]) => Store!Fits(StoredDigests, d)
<1>1. \A S : Store!Cardinality(S) = Cardinality(S)
  BY DEF Store!Cardinality, Cardinality
<1>2. StoredDigests' = StoredDigests => \A n : checkCapacity(n)' = checkCapacity(n)
  BY DEF checkCapacity, StoredBytes
<1>3. \A d : checkCapacity(Size[d]) => Store!Fits(StoredDigests, d)
  BY <1>1 DEF checkCapacity, StoredBytes, Store!Fits
<1>4. QED
  BY <1>2, <1>3

\* Over all processes at most one handler is past the quota check.
LEMMA OneIsPublishing ==
  ASSUME StoreInv, NEW r \in Requests, NEW s \in Requests,
         request[r].step \in Publishing, request[s].step \in Publishing
  PROVE  r = s
<1>1. request[r].server = request[s].server
  BY CipherstoreConstants
     DEF StoreInv, Alive, LeaseInv, LeaseIsHeld, Publishing
<1>2. QED
  BY <1>1 DEF StoreInv, Turn

\* A step that keeps files, acknowledgements and handlers keeps what they know.
LEMMA SlotKeeps ==
  ASSUME StoreInv, files' = files, acked \subseteq acked', NEW r \in Requests,
         request'[r] = request[r]
  PROVE  Knows(r)'
<1>1. StoredDigests' = StoredDigests
  BY DEF StoredDigests
<1>2. \A n : checkCapacity(n)' = checkCapacity(n)
  BY <1>1, SameQuota
<1> HIDE DEF checkCapacity
<1>3. Knows(r)
  BY DEF StoreInv
<1>4. QED
  BY <1>2, <1>3 DEF Knows

\* The other handlers keep what they know and their turn, if a step leaves the
\* files, the lease and the heads of the queues to them.
LEMMA OthersKeep ==
  ASSUME StoreInv, NEW r \in Requests, NEW q \in Request,
         request' = [request EXCEPT ![r] = q],
         UNCHANGED <<files, phase, stage>>, acked \subseteq acked',
         queue' \in [Servers -> Seq(Requests \cup {Probe})],
         \A s \in Requests \ {r} : request[s].step \in Publishing =>
             /\ queue'[request[s].server] # <<>>
             /\ Head(queue'[request[s].server]) = s,
         Alive(r)', Turn(r)', Knows(r)'
  PROVE  Shape' /\ \A s \in Requests : Alive(s)' /\ Turn(s)' /\ Knows(s)'
<1>1. Shape'
  BY DEF StoreInv, Shape
<1>2. ASSUME NEW s \in Requests \ {r}
      PROVE  Alive(s)' /\ Turn(s)' /\ Knows(s)'
  <2>1. request'[s] = request[s]
    BY DEF StoreInv, Shape
  <2>2. Knows(s)'
    BY <2>1, SlotKeeps
  <2>3. QED
    BY <2>1, <2>2 DEF StoreInv, Alive, Turn
<1>3. QED
  BY <1>1, <1>2

\* Whoever joins a queue waits behind those that are in it.
LEMMA AppendedQueue ==
  ASSUME NEW T, NEW waiting \in Seq(T), NEW e \in T
  PROVE  /\ Append(waiting, e) \in Seq(T) /\ Append(waiting, e) # <<>>
         /\ waiting # <<>> => Head(Append(waiting, e)) = Head(waiting)
<1>1. /\ Append(waiting, e) \in Seq(T)
      /\ Len(Append(waiting, e)) = Len(waiting) + 1 /\ Len(waiting) \in Nat
      /\ \A i \in 1..Len(waiting) : Append(waiting, e)[i] = waiting[i]
  BY AppendProperties, LenProperties
<1>2. Append(waiting, e) # <<>>
  BY <1>1, EmptySeq
<1>3. ASSUME waiting # <<>>
      PROVE  Head(Append(waiting, e)) = Head(waiting)
  <2>1. Len(waiting) # 0
    BY <1>3, EmptySeq
  <2>2. Append(waiting, e)[1] = waiting[1]
    BY <1>1, <2>1
  <2>3. QED
    BY <1>1, <1>2, <1>3, <2>2, HeadTailProperties
<1>4. QED
  BY <1>1, <1>2, <1>3

\* A slot whose handler has answered.
LEMMA AnsweredSlot ==
  ASSUME NEW q \in Request
  PROVE  answered(q) \in Request /\ answered(q).step = "idle" /\ ~answered(q).promised
  BY CipherstoreConstants DEF answered, NoRequest, Request, Steps

\* An idle slot has nothing to prove.
LEMMA IdleSlot ==
  ASSUME NEW r \in Requests, request'[r].step = "idle", ~request'[r].promised
  PROVE  Alive(r)' /\ Turn(r)' /\ Knows(r)'
  BY DEF Alive, Turn, Knows, Publishing, UploadSteps

-----------------------------------------------------------------------------
(* The steps of handlers.                                                  *)

\* An answer gives the turn to the next one; what it acknowledges is stored.
LEMMA FinishKeeps ==
  ASSUME StoreInv, NEW r \in Requests, request[r].step # "idle",
         NEW answer, finish(r, answer), UNCHANGED <<files, phase, stage>>,
         answer \in Acknowledgements => request[r].digest \in StoredDigests
  PROVE  Preserved
<1> DEFINE p == request[r].server
           q == answered(request[r])
<1>1. p \in Servers /\ request[r] \in Request /\ queue[p] \in Seq(Requests \cup {Probe})
  BY DEF StoreInv, Alive, Shape
<1>2. q \in Request /\ q.step = "idle" /\ ~q.promised
  BY <1>1, AnsweredSlot
<1>3. request' = [request EXCEPT ![r] = q]
  BY DEF finish
<1>4. /\ queue' \in [Servers -> Seq(Requests \cup {Probe})]
      /\ \A t \in Servers \ {p} : queue'[t] = queue[t]
      /\ queue'[p] = IF queue[p] # <<>> /\ Head(queue[p]) = r THEN Tail(queue[p]) ELSE queue[p]
  <2>1. queue[p] # <<>> => Tail(queue[p]) \in Seq(Requests \cup {Probe})
    BY <1>1, HeadTailProperties, EmptySeq
  <2>2. QED
    BY <1>1, <2>1 DEF finish, StoreInv, Shape
<1>5. /\ acked' = acked \/ acked' = acked \cup {request[r].digest}
      /\ acked' # acked => request[r].digest \in StoredDigests
  BY DEF finish
<1>6. StoredDigests' = StoredDigests
  BY DEF StoredDigests
<1>7. Kept'
  BY <1>5, <1>6 DEF StoreInv, Kept
<1>8. [Store!StoreNext]_(Store!storeVars)
  <2>1. CASE acked' = acked
    BY <1>6, <2>1 DEF Store!storeVars
  <2>2. CASE acked' # acked
    BY <1>5, <1>6, <2>2 DEF Store!StoreNext, Store!Acknowledge, StoredDigests
  <2>3. QED
    BY <2>1, <2>2
<1> HIDE DEF q
<1>9. request'[r] = q
  BY <1>3 DEF StoreInv, Shape
<1>10. Alive(r)' /\ Turn(r)' /\ Knows(r)'
  BY <1>2, <1>9, IdleSlot
<1>11. ASSUME NEW s \in Requests \ {r}, request[s].step \in Publishing
       PROVE  queue'[request[s].server] # <<>> /\ Head(queue'[request[s].server]) = s
  <2>1. /\ request[s].server \in Servers
        /\ queue[request[s].server] # <<>> /\ Head(queue[request[s].server]) = s
    BY <1>11 DEF StoreInv, Alive, Turn, Publishing
  <2>2. QED
    BY <1>4, <2>1
<1>12. QED
  BY <1>2, <1>3, <1>4, <1>5, <1>7, <1>8, <1>10, <1>11, OthersKeep DEF Preserved

\* A handler goes on to its next step; only the reception joins the queue.
LEMMA AdvanceKeeps ==
  ASSUME StoreInv, NEW r \in Requests, request[r].step # "idle", NEW step \in Steps,
         advance(r, step), UNCHANGED <<files, phase, stage, acked>>,
         queue' = [queue EXCEPT ![request[r].server] = Append(@, r)] \/ queue' = queue,
         step \in Publishing => hasTurn(r, request[r].step) /\ queue' = queue,
         step \in UploadSteps => request[r].digest \in Digests,
         step \in {"writing", "linking"} =>
             files[request[r].digest] = "absent" /\ checkCapacity(Size[request[r].digest]),
         step \notin {"idle", "cleaning"}
  PROVE  Preserved
<1> DEFINE p == request[r].server
           q == [request[r] EXCEPT !.step = step]
<1>1. /\ p \in Servers /\ request[r] \in Request /\ queue[p] \in Seq(Requests \cup {Probe})
      /\ phase[p] = "holding" /\ stage[p] # "starting"
  BY DEF StoreInv, Alive, Shape
<1>2. q \in Request /\ q.step = step /\ q.server = p /\ q.digest = request[r].digest
      /\ q.promised = request[r].promised
  BY <1>1 DEF Request
<1>3. request' = [request EXCEPT ![r] = q]
  BY DEF advance
<1> HIDE DEF q
<1>4. request'[r] = q
  BY <1>3 DEF StoreInv, Shape
<1>5. StoredDigests' = StoredDigests
  BY DEF StoredDigests
<1>6. Kept' /\ UNCHANGED Store!storeVars
  BY <1>5 DEF StoreInv, Kept, Store!storeVars
<1>7. /\ Append(queue[p], r) \in Seq(Requests \cup {Probe})
      /\ Append(queue[p], r) # <<>>
      /\ queue[p] # <<>> => Head(Append(queue[p], r)) = Head(queue[p])
  <2>1. queue[p] \in Seq(Requests \cup {Probe}) /\ r \in Requests \cup {Probe}
    BY <1>1
  <2> HIDE DEF p
  <2>2. QED
    BY <2>1, AppendedQueue, Zenon
<1>8. queue' \in [Servers -> Seq(Requests \cup {Probe})]
  BY <1>1, <1>7 DEF StoreInv, Shape
<1>9. \A t \in Servers : queue[t] # <<>> => queue'[t] # <<>> /\ Head(queue'[t]) = Head(queue[t])
  BY <1>1, <1>7 DEF StoreInv, Shape
<1>10. Alive(r)'
  BY <1>1, <1>2, <1>4 DEF Alive
<1>11. Turn(r)'
  BY <1>2, <1>4 DEF Turn, hasTurn
<1>12. Knows(r)'
  <2>1. \A n : checkCapacity(n)' = checkCapacity(n)
    BY <1>5, SameQuota
  <2>2. Knows(r)
    BY DEF StoreInv
  <2>3. QED
    BY <1>2, <1>4, <2>1, <2>2 DEF Knows
<1>13. ASSUME NEW s \in Requests \ {r}, request[s].step \in Publishing
       PROVE  queue'[request[s].server] # <<>> /\ Head(queue'[request[s].server]) = s
  <2>1. /\ request[s].server \in Servers
        /\ queue[request[s].server] # <<>> /\ Head(queue[request[s].server]) = s
    BY <1>13 DEF StoreInv, Alive, Turn, Publishing
  <2>2. QED
    BY <1>9, <2>1
<1>14. QED
  BY <1>2, <1>3, <1>6, <1>8, <1>10, <1>11, <1>12, <1>13, OthersKeep DEF Preserved

\* Only here does a file appear: the store still is as the quota check saw it.
LEMMA LinkKeeps ==
  ASSUME StoreInv, NEW r \in Requests, link(r)
  PROVE  Preserved
<1> DEFINE d == request[r].digest
           q == [request[r] EXCEPT !.step = "cleaning"]
<1>1. /\ request[r].step = "linking" /\ request[r] \in Request
      /\ hasTurn(r, "linking") /\ UNCHANGED <<phase, stage>>
      /\ Alive(r) /\ Turn(r) /\ Knows(r)
  BY DEF link, hasTurn, quiet, leaseVars, StoreInv, Shape
<1>2. /\ d \in Digests /\ files[d] = "absent" /\ checkCapacity(Size[d])
  BY <1>1 DEF Knows, UploadSteps
<1>3. CASE finish(r, "failed") /\ UNCHANGED files
  BY <1>1, <1>3, FinishKeeps DEF Acknowledgements
<1>4. CASE /\ files' = [files EXCEPT ![d] = IF @ = "absent" THEN "intact" ELSE @]
           /\ advance(r, "cleaning") /\ UNCHANGED <<queue, activeUploads, acked>>
  <2>1. /\ q \in Request /\ q.step = "cleaning" /\ q.server = request[r].server
        /\ q.digest = d /\ q.promised = request[r].promised
    BY <1>1 DEF Request, Steps
  <2>2. request' = [request EXCEPT ![r] = q]
    BY <1>4 DEF advance
  <2> HIDE DEF q
  <2>3. request'[r] = q /\ \A s \in Requests \ {r} : request'[s] = request[s]
    BY <2>2 DEF StoreInv, Shape
  <2>4. /\ files' \in [Digests -> Files] /\ files'[d] = "intact"
        /\ \A e \in Digests \ {d} : files'[e] = files[e]
    BY <1>2, <1>4 DEF StoreInv, Shape, Files
  <2>5. StoredDigests' = StoredDigests \cup {d} /\ d \notin StoredDigests
    BY <1>2, <2>4 DEF StoredDigests
  <2>6. Shape'
    BY <1>1, <1>4, <2>1, <2>2, <2>4 DEF StoreInv, Shape
  <2>7. Kept'
    BY <1>4, <2>5 DEF StoreInv, Kept
  <2>8. Store!StoreNext
    <3>1. Store!Fits(StoredDigests, d)
      BY <1>2, SameQuota
    <3>2. QED
      BY <1>2, <1>4, <2>5, <3>1 DEF Store!StoreNext, Store!Store
  <2>9. Alive(r)' /\ Turn(r)'
    BY <1>1, <1>4, <2>1, <2>3 DEF Alive, Turn, hasTurn
  <2>10. Knows(r)'
    BY <1>1, <1>2, <1>4, <2>1, <2>3, <2>4 DEF Knows
  <2>11. ASSUME NEW s \in Requests \ {r}
         PROVE  Alive(s)' /\ Turn(s)' /\ Knows(s)'
    <3>1. request[s].step \notin Publishing
      BY <1>1, OneIsPublishing DEF Publishing
    <3>2. Alive(s)' /\ Turn(s)'
      BY <1>1, <2>3, <3>1 DEF StoreInv, Alive, Turn
    <3>3. Knows(s)'
      BY <1>4, <2>3, <3>1 DEF StoreInv, Knows, Publishing
    <3>4. QED
      BY <3>2, <3>3
  <2>12. QED
    BY <2>6, <2>7, <2>8, <2>9, <2>10, <2>11 DEF Preserved
<1>5. QED
  BY <1>3, <1>4 DEF link

\* All steps of handlers.
LEMMA HandleKeeps ==
  ASSUME StoreInv, NEW r \in Requests, handle(r)
  PROVE  Preserved
<1>1. CASE receive(r)
  <2>1. /\ request[r].step = "receiving" /\ UNCHANGED <<phase, stage, files>>
        /\ request[r].digest \in Digests
    BY <1>1 DEF receive, finish, quiet, leaseVars, StoreInv, Knows, UploadSteps
  <2>2. CASE \E answer \in {"refused", "failed"} : finish(r, answer)
    BY <2>1, <2>2, FinishKeeps DEF Acknowledgements
  <2>3. CASE /\ advance(r, "queued") /\ UNCHANGED acked
             /\ queue' = [queue EXCEPT ![request[r].server] = Append(@, r)]
    BY <2>1, <2>3, AdvanceKeeps DEF Publishing, Steps
  <2>4. QED
    BY <1>1, <2>2, <2>3 DEF receive
<1>2. CASE inspect(r)
  <2>1. /\ request[r].step = "queued" /\ hasTurn(r, "queued") /\ UNCHANGED <<phase, stage, files>>
        /\ request[r].digest \in Digests
    BY <1>2 DEF inspect, hasTurn, finish, keepsQueue, quiet, leaseVars, StoreInv, Knows, UploadSteps
  <2>2. CASE finish(r, "full") \/ finish(r, "failed")
    BY <2>1, <2>2, FinishKeeps DEF Acknowledgements
  <2>3. CASE files[request[r].digest] # "absent" /\ finish(r, compared(request[r].digest))
    BY <2>1, <2>3, FinishKeeps DEF StoredDigests
  <2>4. CASE /\ files[request[r].digest] = "absent" /\ checkCapacity(Size[request[r].digest])
             /\ advance(r, "writing") /\ keepsQueue
    BY <2>1, <2>4, AdvanceKeeps DEF keepsQueue, Steps
  <2>5. QED
    BY <1>2, <2>2, <2>3, <2>4 DEF inspect
<1>3. CASE write(r)
  <2>1. /\ request[r].step = "writing" /\ hasTurn(r, "writing") /\ UNCHANGED <<phase, stage, files>>
        /\ Knows(r)
    BY <1>3 DEF write, hasTurn, finish, keepsQueue, quiet, leaseVars, StoreInv
  <2>2. CASE \E answer \in {"full", "failed"} : finish(r, answer)
    BY <2>1, <2>2, FinishKeeps DEF Acknowledgements
  <2>3. CASE advance(r, "linking") /\ keepsQueue
    BY <2>1, <2>3, AdvanceKeeps DEF keepsQueue, Steps, Knows, UploadSteps
  <2>4. QED
    BY <1>3, <2>2, <2>3 DEF write
<1>4. CASE clean(r)
  <2>1. /\ request[r].step = "cleaning" /\ UNCHANGED <<phase, stage, files>>
        /\ request[r].digest \in StoredDigests
    BY <1>4 DEF clean, hasTurn, quiet, leaseVars, StoreInv, Knows, UploadSteps, StoredDigests
  <2>2. QED
    BY <1>4, <2>1, FinishKeeps DEF clean
<1>5. CASE read(r)
  <2>1. /\ request[r].step = "reading" /\ UNCHANGED <<phase, stage, files>>
    BY <1>5 DEF read, quiet, leaseVars
  <2>2. QED
    BY <1>5, <2>1, FinishKeeps DEF read, Acknowledgements
<1>6. QED
  BY <1>1, <1>2, <1>3, <1>4, <1>5, LinkKeeps DEF handle

-----------------------------------------------------------------------------
(* Requests that begin or lose their client, the probe, and the files.      *)

\* One slot changes, or a probe queues up behind the others.
LEMMA SlotStep ==
  ASSUME StoreInv, NEW r \in Requests, NEW q \in Request,
         request' = [request EXCEPT ![r] = q],
         UNCHANGED <<files, phase, stage, acked>>,
         queue' = queue \/ \E p \in Servers : queue' = [queue EXCEPT ![p] = Append(@, Probe)],
         Alive(r)', Knows(r)', q.step \in Publishing => q.step = request[r].step /\ q.server = request[r].server
  PROVE  Preserved
<1>1. /\ queue' \in [Servers -> Seq(Requests \cup {Probe})]
      /\ \A t \in Servers : queue[t] # <<>> => queue'[t] # <<>> /\ Head(queue'[t]) = Head(queue[t])
  <2>1. CASE queue' = queue
    BY <2>1 DEF StoreInv, Shape
  <2>2. ASSUME NEW p \in Servers, queue' = [queue EXCEPT ![p] = Append(@, Probe)]
        PROVE  <1>1!1 /\ <1>1!2
    <3> DEFINE waiting == queue[p]
    <3>1. waiting \in Seq(Requests \cup {Probe}) /\ Probe \in Requests \cup {Probe}
      BY DEF StoreInv, Shape
    <3> HIDE DEF waiting
    <3>2. /\ Append(waiting, Probe) \in Seq(Requests \cup {Probe})
          /\ Append(waiting, Probe) # <<>>
          /\ waiting # <<>> => Head(Append(waiting, Probe)) = Head(waiting)
      BY <3>1, AppendedQueue, Zenon
    <3>3. QED
      BY <2>2, <3>2 DEF StoreInv, Shape, waiting
  <2>3. QED
    BY <2>1, <2>2
<1>2. ASSUME NEW s \in Requests, request[s].step \in Publishing
      PROVE  queue'[request[s].server] # <<>> /\ Head(queue'[request[s].server]) = s
  BY <1>1, <1>2 DEF StoreInv, Alive, Turn, Publishing
<1>3. request'[r] = q
  BY DEF StoreInv, Shape
<1>4. Turn(r)'
  BY <1>2, <1>3 DEF Turn
<1>5. StoredDigests' = StoredDigests
  BY DEF StoredDigests
<1>6. Kept' /\ UNCHANGED Store!storeVars
  BY <1>5 DEF StoreInv, Kept, Store!storeVars
<1>7. QED
  BY <1>1, <1>2, <1>4, <1>6, OthersKeep DEF Preserved

\* A request is answered at once, or its handler begins in a serving process.
LEMMA StartKeeps ==
  ASSUME StoreInv, NEW p \in Servers, NEW r \in Requests,
         startReady(p, r) \/ \E d \in Digests : startPut(p, r, d) \/ startGet(p, r, d)
  PROVE  Preserved
<1>1. /\ canSend(p, r) /\ UNCHANGED <<files, phase, stage, acked>>
      /\ queue' = queue \/ queue' = [queue EXCEPT ![p] = Append(@, Probe)]
  BY DEF startReady, startPut, startGet, leaseVars, StoreInv, Shape
<1>2. /\ request[r] \in Request /\ request[r].step = "idle" /\ phase[p] = "holding"
      /\ stage[p] # "starting"
  BY <1>1 DEF canSend, StoreInv, Shape
<1>3. CASE answerAtOnce(p, r)
  <2> DEFINE n == request[r].sent + 1
             asked == [request[r] EXCEPT !.server = p, !.connected = TRUE, !.sent = n]
             q == answered(asked)
  <2>1. request' = [request EXCEPT ![r] = q]
    BY <1>3 DEF answerAtOnce
  <2>2. n \in Nat
    BY <1>2 DEF Request
  <2> HIDE DEF n
  <2>3. asked \in Request
    BY <1>2, <2>2 DEF Request
  <2> HIDE DEF asked
  <2>4. q \in Request /\ q.step = "idle" /\ ~q.promised
    BY <2>3, AnsweredSlot
  <2> HIDE DEF q
  <2>5. request'[r] = q
    BY <2>1 DEF StoreInv, Shape
  <2>6. Alive(r)' /\ Knows(r)'
    BY <2>4, <2>5, IdleSlot
  <2>7. QED
    BY <1>1, <2>1, <2>4, <2>6, SlotStep DEF Publishing
<1>4. ASSUME NEW d \in Digests \cup {NoDigest}, NEW step \in {"receiving", "reading", "awaiting"},
             begin(p, r, d, step), step = "receiving" => d \in Digests
      PROVE  Preserved
  <2> DEFINE q == [step |-> step, server |-> p, digest |-> d, connected |-> TRUE,
                   sent |-> request[r].sent + 1, promised |-> d \in acked \ policy[p]]
  <2>1. q \in Request
    BY <1>2, <1>4 DEF Request, Steps
  <2>2. q.step = step /\ q.server = p /\ q.digest = d /\ (q.promised => d \in acked)
    OBVIOUS
  <2>3. request' = [request EXCEPT ![r] = q]
    BY <1>4 DEF begin
  <2> HIDE DEF q
  <2>4. request'[r] = q
    BY <2>3 DEF StoreInv, Shape
  <2>5. Alive(r)' /\ Knows(r)'
    BY <1>1, <1>2, <1>4, <2>2, <2>4 DEF Alive, Knows, UploadSteps
  <2>6. QED
    BY <1>1, <2>1, <2>2, <2>3, <2>5, SlotStep DEF Publishing
<1>5. QED
  BY <1>3, <1>4 DEF startReady, startPut, startGet

\* The handler of a client that is gone goes on.
LEMMA DisconnectKeeps ==
  ASSUME StoreInv, NEW r \in Requests, disconnect(r)
  PROVE  Preserved
<1> DEFINE gone == [request[r] EXCEPT !.connected = FALSE]
           q == IF request[r].step = "idle" THEN NoRequest ELSE gone
<1>1. /\ UNCHANGED <<files, phase, stage, acked, queue>> /\ request[r] \in Request
      /\ Alive(r) /\ Knows(r)
  BY DEF disconnect, leaseVars, StoreInv, Shape
<1>2. /\ gone \in Request /\ gone.step = request[r].step /\ gone.server = request[r].server
      /\ gone.digest = request[r].digest /\ gone.promised = request[r].promised
  BY <1>1 DEF Request
<1>3. request' = [request EXCEPT ![r] = q]
  BY DEF disconnect
<1> HIDE DEF gone
<1>4. q \in Request
  BY <1>2 DEF NoRequest, Request, Steps
<1>5. request'[r] = q
  BY <1>3 DEF StoreInv, Shape
<1>6. CASE request[r].step = "idle"
  <2>1. Alive(r)' /\ Knows(r)'
    BY <1>5, <1>6, IdleSlot DEF NoRequest
  <2>2. q.step = "idle"
    BY <1>6 DEF NoRequest
  <2> HIDE DEF q
  <2>3. QED
    BY <1>1, <1>3, <1>4, <2>1, <2>2, SlotStep DEF Publishing
<1>7. CASE request[r].step # "idle"
  <2>1. q = gone
    BY <1>7
  <2> HIDE DEF q
  <2>2. Alive(r)'
    BY <1>1, <1>2, <1>5, <2>1 DEF Alive
  <2>3. Knows(r)'
    <3>1. StoredDigests' = StoredDigests
      BY <1>1 DEF StoredDigests
    <3>2. \A n : checkCapacity(n)' = checkCapacity(n)
      BY <3>1, SameQuota
    <3>3. QED
      BY <1>1, <1>2, <1>5, <2>1, <3>2 DEF Knows
  <2>4. QED
    BY <1>1, <1>2, <1>3, <1>4, <2>1, <2>2, <2>3, SlotStep
<1>8. QED
  BY <1>6, <1>7

\* While the probe has the turn no handler of that process has it.
LEMMA ProbeKeeps ==
  ASSUME StoreInv, NEW p \in Servers, probe(p)
  PROVE  Preserved
<1>1. /\ queue[p] \in Seq(Requests \cup {Probe}) /\ queue[p] # <<>> /\ Head(queue[p]) = Probe
      /\ UNCHANGED <<files, phase, stage, acked>>
      /\ queue' = [queue EXCEPT ![p] = Tail(queue[p])]
      /\ request' = [r \in Requests |->
             IF request[r].server = p /\ request[r].step = "awaiting"
             THEN answered(request[r]) ELSE request[r]]
  BY DEF probe, quiet, leaseVars, StoreInv, Shape
<1>2. queue' \in [Servers -> Seq(Requests \cup {Probe})]
  <2>1. Tail(queue[p]) \in Seq(Requests \cup {Probe})
    BY <1>1, HeadTailProperties, EmptySeq
  <2>2. QED
    BY <1>1, <2>1 DEF StoreInv, Shape
<1>3. ASSUME NEW r \in Requests
      PROVE  request'[r] \in Request /\ Alive(r)' /\ Turn(r)' /\ Knows(r)'
  <2>1. request[r] \in Request
    BY DEF StoreInv, Shape
  <2>2. CASE request[r].server = p /\ request[r].step = "awaiting"
    <3>1. request'[r] = answered(request[r])
      BY <1>1, <2>2
    <3>2. QED
      BY <2>1, <3>1, AnsweredSlot, IdleSlot
  <2>3. CASE ~(request[r].server = p /\ request[r].step = "awaiting")
    <3>1. request'[r] = request[r]
      BY <1>1, <2>3
    <3>2. Alive(r)'
      BY <1>1, <3>1 DEF StoreInv, Alive
    <3>3. Turn(r)'
      <4>1. ASSUME request[r].step \in Publishing
            PROVE  /\ request[r].server \in Servers \ {p}
                   /\ queue[request[r].server] # <<>> /\ Head(queue[request[r].server]) = r
        BY <1>1, <4>1, CipherstoreConstants DEF StoreInv, Alive, Turn, Publishing
      <4>2. \A t \in Servers \ {p} : queue'[t] = queue[t]
        BY <1>1 DEF StoreInv, Shape
      <4>3. QED
        BY <3>1, <4>1, <4>2 DEF Turn
    <3>4. Knows(r)'
      BY <1>1, <3>1, SlotKeeps
    <3>5. QED
      BY <2>1, <3>1, <3>2, <3>3, <3>4
  <2>4. QED
    BY <2>2, <2>3
<1>4. StoredDigests' = StoredDigests
  BY <1>1 DEF StoredDigests
<1>5. Kept' /\ UNCHANGED Store!storeVars
  BY <1>1, <1>4 DEF StoreInv, Kept, Store!storeVars
<1>6. Shape'
  BY <1>1, <1>2, <1>3 DEF StoreInv, Shape
<1>7. QED
  BY <1>3, <1>5, <1>6 DEF Preserved

\* A damaged file is still a file: nothing is lost and no room is made.
LEMMA DamageKeeps ==
  ASSUME StoreInv, NEW d \in Digests, damage(d)
  PROVE  Preserved
<1>1. /\ files[d] = "intact" /\ files' = [files EXCEPT ![d] = "damaged"]
      /\ UNCHANGED <<phase, stage, queue, request, acked>>
  BY DEF damage, leaseVars
<1>2. /\ files' \in [Digests -> Files]
      /\ \A e \in Digests : (files'[e] = "absent") = (files[e] = "absent")
  BY <1>1 DEF StoreInv, Shape, Files
<1>3. StoredDigests' = StoredDigests
  BY <1>2 DEF StoredDigests
<1>4. Kept' /\ UNCHANGED Store!storeVars
  BY <1>1, <1>3 DEF StoreInv, Kept, Store!storeVars
<1>5. Shape'
  BY <1>1, <1>2 DEF StoreInv, Shape
<1>6. ASSUME NEW r \in Requests
      PROVE  Alive(r)' /\ Turn(r)' /\ Knows(r)'
  <2>1. \A n : checkCapacity(n)' = checkCapacity(n)
    BY <1>3, SameQuota
  <2>2. Alive(r) /\ Turn(r) /\ Knows(r) /\ request'[r] = request[r]
    BY <1>1 DEF StoreInv
  <2>3. request[r].step \in {"writing", "linking", "cleaning"} => request[r].digest \in Digests
    BY <2>2 DEF Knows, UploadSteps
  <2>4. Knows(r)'
    BY <1>1, <1>2, <2>1, <2>2, <2>3 DEF Knows
  <2>5. QED
    BY <1>1, <2>2, <2>4 DEF Alive, Turn
<1>7. QED
  BY <1>4, <1>5, <1>6 DEF Preserved

-----------------------------------------------------------------------------
(* The entrypoint.                                                         *)

\* A process that loses the lease, or starts afresh, has no handler.
LEMMA ProcessKeeps ==
  ASSUME StoreInv, NEW p \in Servers, UNCHANGED <<files, acked>>, DOMAIN stage' = Servers,
         \A t \in Servers \ {p} : phase'[t] = phase[t] /\ stage'[t] = stage[t],
         queue' = queue \/ queue' = [queue EXCEPT ![p] = <<>>],
         request' \in [Requests -> Request],
         \A r \in Requests : request'[r] = request[r] \/ request'[r] = NoRequest,
         \/ phase'[p] = "holding" /\ stage'[p] # "starting" /\ queue' = queue
         \/ \A r \in Requests : request'[r].step # "idle" => request'[r].server # p
  PROVE  Preserved
<1>1. queue' \in [Servers -> Seq(Requests \cup {Probe})] /\ \A t \in Servers \ {p} : queue'[t] = queue[t]
  <2>1. <<>> \in Seq(Requests \cup {Probe})
    BY EmptySeq
  <2>2. QED
    BY <2>1 DEF StoreInv, Shape
<1>2. Shape'
  BY <1>1 DEF StoreInv, Shape
<1>3. StoredDigests' = StoredDigests
  BY DEF StoredDigests
<1>4. Kept' /\ UNCHANGED Store!storeVars
  BY <1>3 DEF StoreInv, Kept, Store!storeVars
<1>5. ASSUME NEW r \in Requests
      PROVE  Alive(r)' /\ Turn(r)' /\ Knows(r)'
  <2>1. CASE request'[r] = NoRequest
    BY <2>1, IdleSlot DEF NoRequest
  <2>2. CASE request'[r] = request[r]
    <3>1. Knows(r)'
      BY <2>2, SlotKeeps
    <3>2. Alive(r)'
      BY <2>2 DEF StoreInv, Alive
    <3>3. Turn(r)'
      BY <1>1, <2>2 DEF StoreInv, Alive, Turn, Publishing
    <3>4. QED
      BY <3>1, <3>2, <3>3
  <2>3. QED
    BY <2>1, <2>2
<1>6. QED
  BY <1>2, <1>4, <1>5 DEF Preserved

\* Start, stop and crash of a server.
LEMMA EntrypointKeeps ==
  ASSUME StoreInv, NEW p \in Servers,
         acquireLease(p) \/ startUp(p) \/ stop(p) \/ shutDown(p) \/ crashServer(p)
  PROVE  Preserved
<1> USE CipherstoreConstants
<1>1. /\ phase \in [Processes -> Phases] /\ DOMAIN stage = Servers
      /\ request \in [Requests -> Request] /\ NoRequest \in Request
  BY DEF StoreInv, LeaseInv, LeaseTypeOK, Shape, NoRequest, Request, Steps
<1>2. \/ phase[p] = "holding" /\ stage[p] # "starting"
      \/ \A r \in Requests : request[r].step # "idle" => request[r].server # p
  BY DEF StoreInv, Alive
<1>3. CASE /\ UNCHANGED serverVars
           /\ \A t \in Servers \ {p} : phase'[t] = phase[t] /\ stage'[t] = stage[t]
           /\ DOMAIN stage' = Servers
           /\ \/ phase'[p] = "holding" /\ stage'[p] # "starting"
              \/ phase[p] # "holding" \/ stage[p] = "starting" \/ Handlers(p) = {}
  BY <1>1, <1>2, <1>3, ProcessKeeps DEF serverVars, Handlers
<1>4. CASE acquireLease(p)
  BY <1>1, <1>3, <1>4 DEF acquireLease, makeLock, become
<1>5. CASE startUp(p)
  BY <1>1, <1>3, <1>5 DEF startUp, recordLease, recordLeaseFails, refuseToStart, listen,
     writeOwner, writeOwnerFails, removeOwner, become, leaseVars
<1>6. CASE shutDown(p)
  BY <1>1, <1>3, <1>6 DEF shutDown, closed, releaseLease, finishRelease, removeOwner, removeLock,
     become, forget, leaseVars
<1>7. CASE stop(p)
  <2>1. /\ UNCHANGED <<files, acked, queue, phase>> /\ phase[p] = "holding"
        /\ stage' = [stage EXCEPT ![p] = "closing"]
        /\ request' = [r \in Requests |->
               IF r \in Connections(p) \ Handlers(p) THEN NoRequest ELSE request[r]]
    BY <1>7 DEF stop, leaseVars
  <2>2. /\ request' \in [Requests -> Request]
        /\ \A r \in Requests : request'[r] = request[r] \/ request'[r] = NoRequest
    BY <1>1, <2>1
  <2>3. QED
    BY <1>1, <2>1, <2>2, ProcessKeeps
<1>8. CASE crashServer(p)
  <2>1. /\ UNCHANGED <<files, acked>> /\ phase' = [phase EXCEPT ![p] = "exited"]
        /\ stage' = [stage EXCEPT ![p] = "starting"] /\ queue' = [queue EXCEPT ![p] = <<>>]
        /\ request' = [r \in Requests |-> IF request[r].server = p THEN NoRequest ELSE request[r]]
    BY <1>8 DEF crashServer, crash, become, forget
  <2>2. /\ request' \in [Requests -> Request]
        /\ \A r \in Requests : request'[r] = request[r] \/ request'[r] = NoRequest
        /\ \A r \in Requests : request'[r].step # "idle" => request'[r].server # p
    BY <1>1, <2>1 DEF NoRequest
  <2>3. QED
    BY <1>1, <2>1, <2>2, ProcessKeeps
<1>9. QED
  BY <1>4, <1>5, <1>6, <1>7, <1>8

\* Clearing an abandoned lock, and stuttering, touch no handler.
LEMMA QuietKeeps ==
  ASSUME StoreInv, clearLock \/ UNCHANGED vars
  PROVE  Preserved
<1>1. UNCHANGED <<files, phase, stage, queue, request, acked>>
  BY DEF clearLock, clearAbandonedLock, serverVars, vars
<1>2. StoredDigests' = StoredDigests
  BY <1>1 DEF StoredDigests
<1>3. Kept' /\ UNCHANGED Store!storeVars /\ Shape'
  BY <1>1, <1>2 DEF StoreInv, Kept, Shape, Store!storeVars
<1>4. ASSUME NEW r \in Requests
      PROVE  Alive(r)' /\ Turn(r)' /\ Knows(r)'
  <2>1. Knows(r)'
    BY <1>1, SlotKeeps
  <2>2. QED
    BY <1>1, <2>1 DEF StoreInv, Alive, Turn
<1>5. QED
  BY <1>3, <1>4 DEF Preserved

\* Every step keeps the invariant and is one of the immutable store, or none.
LEMMA StoreStep == StoreInv /\ [Next]_vars => StoreInv' /\ [Store!StoreNext]_(Store!storeVars)
<1> SUFFICES ASSUME StoreInv, [Next]_vars
             PROVE  StoreInv' /\ [Store!StoreNext]_(Store!storeVars)
  OBVIOUS
<1>1. LeaseInv'
  <2>1. CASE Next
    BY <2>1, ServerKeepsLease DEF StoreInv
  <2>2. CASE UNCHANGED vars
    BY <2>2 DEF vars, StoreInv, LeaseInv, LeaseTypeOK, LeaseIsHeld
  <2>3. QED
    BY <2>1, <2>2
<1>2. Preserved
  <2>1. CASE \E p \in Servers :
               acquireLease(p) \/ startUp(p) \/ stop(p) \/ shutDown(p) \/ crashServer(p)
    BY <2>1, EntrypointKeeps
  <2>2. CASE \E p \in Servers : probe(p)
    BY <2>2, ProbeKeeps
  <2>3. CASE \E p \in Servers, r \in Requests :
               startReady(p, r) \/ \E d \in Digests : startPut(p, r, d) \/ startGet(p, r, d)
    BY <2>3, StartKeeps
  <2>4. CASE \E r \in Requests : handle(r) \/ disconnect(r)
    BY <2>4, HandleKeeps, DisconnectKeeps
  <2>5. CASE \E d \in Digests : damage(d)
    BY <2>5, DamageKeeps
  <2>6. CASE clearLock \/ UNCHANGED vars
    BY <2>6, QuietKeeps
  <2>7. QED
    BY <2>1, <2>2, <2>3, <2>4, <2>5, <2>6 DEF Next
<1>3. QED
  BY <1>1, <1>2 DEF StoreInv, Preserved

-----------------------------------------------------------------------------
\* Lease, queues, handlers and files agree in every reachable state.
THEOREM StoreInvariance == Spec => []StoreInv
<1>1. QED
  BY StoreInitially, StoreStep, PTL DEF Spec

\* Two things follow: writers exclude each other, and a promise is kept.
LEMMA StoreInvImplies == StoreInv => OneWriter /\ AcknowledgedIsFound
<1> SUFFICES ASSUME StoreInv PROVE OneWriter /\ AcknowledgedIsFound
  OBVIOUS
<1>1. ASSUME NEW r \in InStorage
      PROVE  LET p == request[r].server IN phase[p] = "holding" /\ lock = p /\ owner = p
  BY CipherstoreConstants DEF InStorage, StoreInv, Alive, LeaseInv, LeaseIsHeld
<1>2. \A r, s \in Requests :
        request[r].step \in Publishing /\ request[s].step \in Publishing => r = s
  BY OneIsPublishing
<1>3. OneWriter
  BY <1>1, <1>2 DEF OneWriter, Publishing
<1>4. AcknowledgedIsFound
  BY DEF StoreInv, Kept, Knows, StoredDigests, AcknowledgedIsFound
<1>5. QED
  BY <1>3, <1>4

\* capacity.ts withDirectoryWrite: over all processes one handler at a time is
\* between quota check and answer, and its process has the lease then.
THEOREM WritersExclude == Spec => []OneWriter
<1>1. QED
  BY StoreInvImplies, StoreInvariance, PTL

\* server.ts: a GET that begins after its digest was acknowledged finds the file.
THEOREM AcknowledgedSafety == Spec => []AcknowledgedIsFound
<1>1. QED
  BY StoreInvImplies, StoreInvariance, PTL

\* The filesystem service is an immutable store: it only adds within the quota,
\* and acknowledges only what is on disk.
THEOREM CipherstoreImplementsStore == Spec => ImplementsImmutableStore
<1>1. QED
  BY StoreInitially, StoreStep, StoreInvariance, PTL DEF Spec, ImplementsImmutableStore, Store!StoreSpec

-----------------------------------------------------------------------------
(* Upload slots and places in the queue.                                   *)

Queued(p) == {r \in InStorage : request[r].server = p}
Awaiting(p) == {r \in Handlers(p) : request[r].step = "awaiting"}
Distinct(s) == \A i, j \in DOMAIN s : s[i] = s[j] => i = j

\* The counter counts the upload handlers, and those that wait for the
\* directory, with one probe for all that wait for it, stand in the queue once.
Slots(p) ==
    /\ IsFiniteSet(Uploads(p))
    /\ activeUploads[p] = Cardinality(Uploads(p)) /\ activeUploads[p] =< MaxConcurrentUploads
    /\ Distinct(queue[p])
    /\ Range(queue[p]) = Queued(p) \cup (IF Awaiting(p) = {} THEN {} ELSE {Probe})

\* A connection that sends less than it may; one that is gone has sent nothing.
Limits ==
    /\ stage \in [Servers -> Stages]
    /\ policy \in [Servers -> SUBSET Digests]
    /\ activeUploads \in [Servers -> Nat]
    /\ \A r \in Requests :
        /\ request[r].sent =< MaxRequestsPerSocket
        /\ request[r].step = "idle" /\ ~request[r].connected => request[r].sent = 0

SlotInv == StoreInv /\ Limits /\ \A p \in Servers : Slots(p)

\* Who joins a queue that it is not in, stands in it once.
LEMMA JoinedQueue ==
  ASSUME NEW T, NEW s \in Seq(T), NEW e \in T, Distinct(s), e \notin Range(s)
  PROVE  Distinct(Append(s, e)) /\ Range(Append(s, e)) = Range(s) \cup {e}
<1> DEFINE a == Append(s, e)
           n == Len(s)
<1>1. /\ a \in Seq(T) /\ n \in Nat /\ DOMAIN s = 1..n /\ Len(a) = n + 1
      /\ \A i \in 1..n : a[i] = s[i]
      /\ a[n + 1] = e
  BY AppendProperties, LenProperties
<1>2. DOMAIN a = 1..(n + 1)
  BY <1>1, LenProperties
<1> HIDE DEF a, n
<1>3. \A i \in 1..(n + 1) : i \in 1..n \/ i = n + 1
  BY <1>1
<1>4. Range(a) = Range(s) \cup {e}
  <2>1. Range(s) = {s[i] : i \in 1..n} /\ Range(a) = {a[i] : i \in 1..(n + 1)}
    BY <1>1, <1>2 DEF Range
  <2>2. 1..(n + 1) = 1..n \cup {n + 1}
    BY <1>1
  <2>3. QED
    BY <1>1, <2>1, <2>2
<1>5. Distinct(a)
  <2>1. \A i \in 1..n : s[i] # e
    BY <1>1 DEF Range
  <2>2. \A i, j \in 1..n : s[i] = s[j] => i = j
    BY <1>1 DEF Distinct
  <2>3. \A i, j \in 1..(n + 1) : a[i] = a[j] => i = j
    BY <1>1, <1>3, <2>1, <2>2
  <2>4. QED
    BY <1>2, <2>3 DEF Distinct
<1>6. QED
  BY <1>4, <1>5 DEF a

\* Who leaves a queue is nowhere in it any more.
LEMMA LeftQueue ==
  ASSUME NEW T, NEW s \in Seq(T), s # <<>>, Distinct(s)
  PROVE  Distinct(Tail(s)) /\ Range(Tail(s)) = Range(s) \ {Head(s)}
<1> DEFINE t == Tail(s)
           n == Len(s)
<1>1. /\ t \in Seq(T) /\ n \in Nat /\ n # 0 /\ DOMAIN s = 1..n /\ Len(t) = n - 1
      /\ \A i \in 1..(n - 1) : t[i] = s[i + 1]
      /\ Head(s) = s[1]
  BY HeadTailProperties, LenProperties, EmptySeq
<1>2. DOMAIN t = 1..(n - 1)
  BY <1>1, LenProperties
<1> HIDE DEF t, n
<1>3. \A i, j \in 1..n : s[i] = s[j] => i = j
  BY <1>1 DEF Distinct
<1>4. Distinct(t)
  <2>1. \A i, j \in 1..(n - 1) : t[i] = t[j] => i = j
    <3> SUFFICES ASSUME NEW i \in 1..(n - 1), NEW j \in 1..(n - 1), t[i] = t[j] PROVE i = j
      OBVIOUS
    <3>1. i + 1 \in 1..n /\ j + 1 \in 1..n
      BY <1>1
    <3>2. s[i + 1] = s[j + 1]
      BY <1>1
    <3>3. i + 1 = j + 1
      BY <1>3, <3>1, <3>2
    <3>4. QED
      BY <1>1, <3>3
  <2>2. QED
    BY <1>2, <2>1 DEF Distinct
<1>5. Range(t) = Range(s) \ {Head(s)}
  <2>1. Range(s) = {s[i] : i \in 1..n} /\ Range(t) = {t[i] : i \in 1..(n - 1)}
    BY <1>1, <1>2 DEF Range
  <2>2. ASSUME NEW e \in Range(t) PROVE e \in Range(s) /\ e # Head(s)
    <3>1. PICK i \in 1..(n - 1) : e = t[i]
      BY <2>1
    <3>2. i + 1 \in 1..n /\ 1 \in 1..n /\ i + 1 # 1
      BY <1>1
    <3>3. s[i + 1] # s[1]
      BY <1>3, <3>2
    <3>4. QED
      BY <1>1, <2>1, <3>1, <3>2, <3>3
  <2>3. ASSUME NEW e \in Range(s), e # Head(s) PROVE e \in Range(t)
    <3>1. PICK i \in 1..n : e = s[i]
      BY <2>1
    <3>2. i # 1
      BY <1>1, <2>3, <3>1
    <3>3. i - 1 \in 1..(n - 1) /\ (i - 1) + 1 = i
      BY <1>1, <3>2
    <3>4. QED
      BY <1>1, <2>1, <3>1, <3>3
  <2>4. QED
    BY <2>2, <2>3
<1>6. QED
  BY <1>4, <1>5 DEF t

\* In a queue without repetitions an element has one place or none.
LEMMA PlacesOf ==
  ASSUME NEW s, Distinct(s), NEW e
  PROVE  Cardinality({i \in DOMAIN s : s[i] = e}) = IF e \in Range(s) THEN 1 ELSE 0
<1> DEFINE places == {i \in DOMAIN s : s[i] = e}
<1>1. CASE e \in Range(s)
  <2>1. PICK i \in DOMAIN s : s[i] = e
    BY <1>1 DEF Range
  <2>2. places = {i}
    BY <2>1 DEF Distinct
  <2> HIDE DEF places
  <2>3. Cardinality({i}) = 1
    BY FS_Singleton
  <2>4. Cardinality(places) = 1
    BY <2>2, <2>3
  <2>5. QED
    BY <1>1, <2>4 DEF places
<1>2. CASE e \notin Range(s)
  <2>1. places = {}
    BY <1>2 DEF Range
  <2> HIDE DEF places
  <2>2. Cardinality(places) = 0
    BY <2>1, FS_EmptySet
  <2>3. QED
    BY <1>2, <2>2 DEF places
<1>3. QED
  BY <1>1, <1>2

\* An empty queue.
LEMMA EmptyQueue == Distinct(<<>>) /\ Range(<<>>) = {}
  BY DEF Distinct, Range

\* One slot changes, and belongs to the same server before and after.
LEMMA OneSlot ==
  ASSUME request \in [Requests -> Request], NEW p \in Servers, NEW r \in Requests,
         NEW q \in Request, request' = [request EXCEPT ![r] = q],
         request[r].step = "idle" \/ request[r].server = p, q.step = "idle" \/ q.server = p
  PROVE  /\ Uploads(p)' = IF q.step \in UploadSteps THEN Uploads(p) \cup {r} ELSE Uploads(p) \ {r}
         /\ Queued(p)' = IF q.step \in UploadSteps \ {"receiving"}
                         THEN Queued(p) \cup {r} ELSE Queued(p) \ {r}
         /\ Awaiting(p)' = IF q.step = "awaiting" THEN Awaiting(p) \cup {r} ELSE Awaiting(p) \ {r}
         /\ \A t \in Servers \ {p} :
              Uploads(t)' = Uploads(t) /\ Queued(t)' = Queued(t) /\ Awaiting(t)' = Awaiting(t)
<1>1. request'[r] = q /\ \A s \in Requests \ {r} : request'[s] = request[s]
  OBVIOUS
<1>2. Uploads(p)' = IF q.step \in UploadSteps THEN Uploads(p) \cup {r} ELSE Uploads(p) \ {r}
  BY <1>1 DEF Uploads, Handlers, UploadSteps
<1>3. Queued(p)' = IF q.step \in UploadSteps \ {"receiving"}
                   THEN Queued(p) \cup {r} ELSE Queued(p) \ {r}
  BY <1>1 DEF Queued, InStorage, UploadSteps
<1>4. Awaiting(p)' = IF q.step = "awaiting" THEN Awaiting(p) \cup {r} ELSE Awaiting(p) \ {r}
  BY <1>1 DEF Awaiting, Handlers
<1>5. ASSUME NEW t \in Servers \ {p}
      PROVE  Uploads(t)' = Uploads(t) /\ Queued(t)' = Queued(t) /\ Awaiting(t)' = Awaiting(t)
  BY <1>1 DEF Uploads, Handlers, UploadSteps, Queued, InStorage, Awaiting
<1>6. QED
  BY <1>2, <1>3, <1>4, <1>5

\* Nothing that Slots speaks about changes.
LEMMA SlotsStay ==
  ASSUME NEW p \in Servers, Slots(p), queue'[p] = queue[p], activeUploads'[p] = activeUploads[p],
         Uploads(p)' = Uploads(p), Queued(p)' = Queued(p), (Awaiting(p)' = {}) = (Awaiting(p) = {})
  PROVE  Slots(p)'
  BY DEF Slots

\* So it is enough to look at the server whose slot changes.
LEMMA OneSlotKeeps ==
  ASSUME SlotInv, NEW p \in Servers, NEW r \in Requests,
         NEW q \in Request, request' = [request EXCEPT ![r] = q],
         request[r].step = "idle" \/ request[r].server = p, q.step = "idle" \/ q.server = p,
         q.sent =< MaxRequestsPerSocket, q.step = "idle" /\ ~q.connected => q.sent = 0,
         UNCHANGED <<stage, policy>>,
         activeUploads' \in [Servers -> Nat],
         \A t \in Servers \ {p} : queue'[t] = queue[t] /\ activeUploads'[t] = activeUploads[t],
         Slots(p)'
  PROVE  Limits' /\ \A t \in Servers : Slots(t)'
<1>1. request \in [Requests -> Request]
  BY DEF SlotInv, StoreInv, Shape
<1>2. Limits'
  BY <1>1 DEF SlotInv, Limits
<1>3. ASSUME NEW t \in Servers \ {p} PROVE Slots(t)'
  <2>1. Uploads(t)' = Uploads(t) /\ Queued(t)' = Queued(t) /\ Awaiting(t)' = Awaiting(t)
    BY <1>1, OneSlot
  <2>2. QED
    BY <2>1, SlotsStay DEF SlotInv
<1>4. QED
  BY <1>2, <1>3

\* An answer gives back its upload slot and its turn.
LEMMA FinishReturns ==
  ASSUME SlotInv, NEW r \in Requests, request[r].step \notin {"idle", "awaiting"},
         NEW answer, finish(r, answer), UNCHANGED <<stage, policy>>,
         r \in InStorage => hasTurn(r, request[r].step)
  PROVE  Limits' /\ \A t \in Servers : Slots(t)'
<1>0. PICK p \in Servers : p = request[r].server
  BY DEF SlotInv, StoreInv, Alive
<1> DEFINE q == answered(request[r])
<1>1. /\ request[r] \in Request /\ queue[p] \in Seq(Requests \cup {Probe})
      /\ request \in [Requests -> Request] /\ Slots(p)
  BY DEF SlotInv, StoreInv, Shape
<1>2. q \in Request /\ q.step = "idle"
  BY <1>1, AnsweredSlot
<1>3. q.sent =< MaxRequestsPerSocket /\ (~q.connected => q.sent = 0)
  <2>1. request[r].sent =< MaxRequestsPerSocket
    BY DEF SlotInv, Limits
  <2>2. q = NoRequest \/ (q.connected /\ q.sent = request[r].sent)
    BY DEF answered, NoRequest
  <2>3. NoRequest.sent = 0
    BY DEF NoRequest
  <2>4. QED
    BY <2>1, <2>2, <2>3, CipherstoreConstants
<1>4. /\ request' = [request EXCEPT ![r] = q]
      /\ activeUploads' = [activeUploads EXCEPT ![p] = IF r \in Uploads(p) THEN @ - 1 ELSE @]
      /\ queue' = [queue EXCEPT ![p] = IF @ # <<>> /\ Head(@) = r THEN Tail(@) ELSE @]
  BY <1>0 DEF finish
<1> HIDE DEF q
<1>5. /\ Uploads(p)' = Uploads(p) \ {r} /\ Queued(p)' = Queued(p) \ {r}
      /\ Awaiting(p)' = Awaiting(p) \ {r}
  <2>1. q.step \notin UploadSteps /\ q.step # "awaiting"
    BY <1>2 DEF UploadSteps
  <2>2. QED
    BY <1>0, <1>1, <1>2, <1>4, <2>1, OneSlot
<1>6. r \notin Awaiting(p)
  BY DEF Awaiting
<1>7. activeUploads \in [Servers -> Nat] /\ queue \in [Servers -> Seq(Requests \cup {Probe})]
  BY DEF SlotInv, Limits, StoreInv, Shape
<1>8. /\ IsFiniteSet(Uploads(p)') /\ activeUploads'[p] = Cardinality(Uploads(p)')
      /\ activeUploads'[p] =< activeUploads[p] /\ activeUploads'[p] \in Nat
  <2> DEFINE u == Uploads(p)
  <2>1. IsFiniteSet(u) /\ activeUploads[p] = Cardinality(u)
    BY <1>1 DEF Slots
  <2>2. activeUploads'[p] = IF r \in u THEN activeUploads[p] - 1 ELSE activeUploads[p]
    BY <1>1, <1>4, <1>7
  <2>3. Uploads(p)' = u \ {r}
    BY <1>5
  <2> HIDE DEF u
  <2>4. /\ IsFiniteSet(u \ {r})
        /\ Cardinality(u \ {r}) = IF r \in u THEN Cardinality(u) - 1 ELSE Cardinality(u)
        /\ Cardinality(u \ {r}) \in Nat /\ Cardinality(u) \in Nat
    BY <2>1, FS_RemoveElement, FS_CardinalityType
  <2>5. QED
    BY <2>1, <2>2, <2>3, <2>4
<1>9. /\ Distinct(queue'[p])
      /\ Range(queue'[p]) = Queued(p)' \cup (IF Awaiting(p)' = {} THEN {} ELSE {Probe})
  <2> DEFINE w == queue[p]
  <2>1. /\ w \in Seq(Requests \cup {Probe}) /\ Distinct(w)
        /\ Range(w) = Queued(p) \cup (IF Awaiting(p) = {} THEN {} ELSE {Probe})
        /\ queue'[p] = IF w # <<>> /\ Head(w) = r THEN Tail(w) ELSE w
    BY <1>1, <1>4, <1>7 DEF Slots
  <2>2. r # Probe
    BY CipherstoreConstants
  <2>3. (r \in InStorage) = (r \in Queued(p))
    BY <1>0 DEF Queued
  <2>4. r \in InStorage => w # <<>> /\ Head(w) = r
    BY <1>0 DEF hasTurn
  <2>5. w # <<>> => Head(w) \in Range(w)
    <3>1. ASSUME w # <<>> PROVE 1 \in DOMAIN w /\ Head(w) = w[1]
      BY <2>1, <3>1, EmptySeq, LenProperties
    <3>2. QED
      BY <3>1 DEF Range
  <2> HIDE DEF w
  <2>6. CASE r \in InStorage
    <3>1. Distinct(Tail(w)) /\ Range(Tail(w)) = Range(w) \ {r}
      BY <2>1, <2>4, <2>6, LeftQueue
    <3>2. QED
      BY <1>5, <1>6, <2>1, <2>2, <2>4, <2>6, <3>1
  <2>7. CASE r \notin InStorage
    <3>1. r \notin Range(w)
      BY <2>1, <2>2, <2>3, <2>7
    <3>2. QED
      BY <1>5, <1>6, <2>1, <2>3, <2>5, <2>7, <3>1
  <2>8. QED
    BY <2>6, <2>7
<1>10. Slots(p)'
  <2>1. activeUploads[p] =< MaxConcurrentUploads /\ activeUploads[p] \in Nat
    BY <1>1, <1>7 DEF Slots
  <2>2. activeUploads'[p] =< MaxConcurrentUploads
    BY <1>8, <2>1, CipherstoreConstants
  <2>3. QED
    BY <1>8, <1>9, <2>2 DEF Slots
<1>11. activeUploads' \in [Servers -> Nat]
  BY <1>1, <1>4, <1>7, <1>8
<1>12. \A t \in Servers \ {p} : queue'[t] = queue[t] /\ activeUploads'[t] = activeUploads[t]
  BY <1>4, <1>7
<1>13. QED
  BY <1>0, <1>1, <1>2, <1>3, <1>4, <1>10, <1>11, <1>12, OneSlotKeeps

\* A handler goes on; only the one that has received its body takes a place.
LEMMA AdvanceReturns ==
  ASSUME SlotInv, NEW r \in Requests, NEW step \in UploadSteps, advance(r, step),
         UNCHANGED <<stage, policy, activeUploads>>,
         \/ /\ request[r].step = "receiving" /\ step = "queued"
            /\ queue' = [queue EXCEPT ![request[r].server] = Append(@, r)]
         \/ r \in InStorage /\ step # "receiving" /\ queue' = queue
  PROVE  Limits' /\ \A t \in Servers : Slots(t)'
<1>0. PICK p \in Servers : p = request[r].server
  BY DEF SlotInv, StoreInv, Alive, InStorage
<1> DEFINE q == [request[r] EXCEPT !.step = step]
<1>1. /\ request[r] \in Request /\ request[r].step \in UploadSteps
      /\ request \in [Requests -> Request]
  BY DEF SlotInv, StoreInv, Shape, InStorage, UploadSteps
<1>2. queue[p] \in Seq(Requests \cup {Probe}) /\ Slots(p)
  BY DEF SlotInv, StoreInv, Shape
<1>3. /\ q \in Request /\ q.step = step /\ q.server = p
      /\ q.sent = request[r].sent /\ q.step # "idle"
  BY <1>0, <1>1 DEF Request, Steps, UploadSteps
<1>4. request' = [request EXCEPT ![r] = q]
  BY DEF advance
<1> HIDE DEF q
<1>5. /\ Uploads(p)' = Uploads(p) \cup {r}
      /\ Queued(p)' = Queued(p) \cup {r}
      /\ Awaiting(p)' = Awaiting(p) \ {r}
  <2>1. step # "receiving" /\ step # "awaiting"
    BY DEF UploadSteps
  <2>2. QED
    BY <1>0, <1>1, <1>2, <1>3, <1>4, <2>1, OneSlot
<1>6. r \in Uploads(p) /\ r \notin Awaiting(p)
  BY <1>0, <1>1 DEF Uploads, Handlers, Awaiting, UploadSteps
<1>7. Slots(p)'
  <2> DEFINE w == queue[p]
  <2>1. CASE r \in InStorage /\ queue' = queue
    <3>1. r \in Queued(p)
      BY <1>0, <2>1 DEF Queued
    <3>2. Uploads(p)' = Uploads(p) /\ Queued(p)' = Queued(p) /\ Awaiting(p)' = Awaiting(p)
      BY <1>5, <1>6, <3>1
    <3>3. QED
      BY <1>2, <2>1, <3>2, SlotsStay
  <2>2. CASE /\ request[r].step = "receiving"
             /\ queue' = [queue EXCEPT ![p] = Append(@, r)]
    <3>1. /\ w \in Seq(Requests \cup {Probe}) /\ Distinct(w)
          /\ Range(w) = Queued(p) \cup (IF Awaiting(p) = {} THEN {} ELSE {Probe})
          /\ queue'[p] = Append(w, r)
      BY <1>2, <2>2 DEF Slots, SlotInv, StoreInv, Shape
    <3>2. r \notin Queued(p) /\ r # Probe
      BY <2>2, CipherstoreConstants DEF Queued, InStorage
    <3> HIDE DEF w
    <3>3. r \notin Range(w)
      BY <3>1, <3>2
    <3>4. Distinct(Append(w, r)) /\ Range(Append(w, r)) = Range(w) \cup {r}
      BY <3>1, <3>3, JoinedQueue
    <3>5. Uploads(p)' = Uploads(p) /\ Awaiting(p)' = Awaiting(p)
      BY <1>5, <1>6
    <3>6. Distinct(queue'[p])
          /\ Range(queue'[p]) = Queued(p)' \cup (IF Awaiting(p)' = {} THEN {} ELSE {Probe})
      BY <1>5, <3>1, <3>4, <3>5
    <3>7. QED
      BY <1>2, <3>5, <3>6 DEF Slots
  <2>3. QED
    BY <1>0, <2>1, <2>2
<1>8. activeUploads' \in [Servers -> Nat] /\ request[r].sent =< MaxRequestsPerSocket
  BY DEF SlotInv, Limits
<1>9. \A t \in Servers \ {p} : queue'[t] = queue[t] /\ activeUploads'[t] = activeUploads[t]
  BY <1>0 DEF SlotInv, StoreInv, Shape
<1>10. QED
  BY <1>0, <1>1, <1>2, <1>3, <1>4, <1>7, <1>8, <1>9, OneSlotKeeps

\* All steps of handlers.
LEMMA HandleReturns ==
  ASSUME SlotInv, NEW r \in Requests, handle(r)
  PROVE  Limits' /\ \A t \in Servers : Slots(t)'
<1>1. UNCHANGED <<stage, policy>>
  BY DEF handle, receive, inspect, write, link, clean, read, quiet
<1>2. CASE /\ receive(r) /\ advance(r, "queued") /\ UNCHANGED activeUploads
           /\ queue' = [queue EXCEPT ![request[r].server] = Append(@, r)]
  <2>1. request[r].step = "receiving" /\ activeUploads' = activeUploads
        /\ queue' = [queue EXCEPT ![request[r].server] = Append(@, r)]
    BY <1>2 DEF receive
  <2>2. QED
    BY <1>1, <1>2, <2>1, AdvanceReturns DEF UploadSteps
<1>3. CASE \E answer : finish(r, answer) /\ handle(r)
  <2>1. request[r].step \notin {"idle", "awaiting"} /\ (r \in InStorage => hasTurn(r, request[r].step))
    BY <1>3 DEF handle, receive, inspect, write, link, clean, read, hasTurn, InStorage
  <2>2. QED
    BY <1>1, <1>3, <2>1, FinishReturns
<1>4. CASE \E step \in {"writing", "linking", "cleaning"} :
             advance(r, step) /\ r \in InStorage /\ UNCHANGED <<queue, activeUploads>>
  BY <1>1, <1>4, AdvanceReturns DEF UploadSteps
<1>5. QED
  BY <1>2, <1>3, <1>4 DEF handle, receive, inspect, write, link, clean, read, keepsQueue, hasTurn, InStorage

\* An answer at once takes nothing; a handler that begins takes a slot, or joins
\* those that wait for the probe.
LEMMA StartReturns ==
  ASSUME SlotInv, NEW p \in Servers, NEW r \in Requests,
         startReady(p, r) \/ \E d \in Digests : startPut(p, r, d) \/ startGet(p, r, d)
  PROVE  Limits' /\ \A t \in Servers : Slots(t)'
<1> DEFINE n == request[r].sent + 1
<1>1. /\ request[r] \in Request /\ request \in [Requests -> Request] /\ Slots(p)
      /\ queue \in [Servers -> Seq(Requests \cup {Probe})] /\ activeUploads \in [Servers -> Nat]
  BY DEF SlotInv, Limits, StoreInv, Shape
<1>2. /\ request[r].step = "idle" /\ UNCHANGED <<stage, policy>>
      /\ r \notin Uploads(p) \cup Queued(p) \cup Awaiting(p)
  BY DEF startReady, startPut, startGet, canSend, Uploads, Handlers, Queued, InStorage, Awaiting
<1>3. n \in Nat /\ n =< MaxRequestsPerSocket
  <2>1. request[r].sent \in Nat
    BY <1>1 DEF Request
  <2>2. request[r].sent < MaxRequestsPerSocket
    <3>1. CASE request[r].connected
      BY <3>1 DEF startReady, startPut, startGet, canSend
    <3>2. CASE ~request[r].connected
      BY <1>2, <3>2, CipherstoreConstants DEF SlotInv, Limits
    <3>3. QED
      BY <3>1, <3>2
  <2>3. QED
    BY <2>1, <2>2, CipherstoreConstants
<1>4. CASE answerAtOnce(p, r) /\ UNCHANGED <<queue, activeUploads>>
  <2> DEFINE asked == [request[r] EXCEPT !.server = p, !.connected = TRUE, !.sent = n]
             q == answered(asked)
  <2>1. request' = [request EXCEPT ![r] = q]
    BY <1>4 DEF answerAtOnce
  <2> HIDE DEF n
  <2>2. asked \in Request /\ asked.sent = n
    BY <1>1, <1>3 DEF Request
  <2> HIDE DEF asked
  <2>3. q \in Request /\ q.step = "idle"
    BY <2>2, AnsweredSlot
  <2>4. q.sent =< MaxRequestsPerSocket /\ (~q.connected => q.sent = 0)
    <3>1. q = NoRequest \/ (q.connected /\ q.sent = asked.sent)
      BY DEF answered, NoRequest
    <3>2. NoRequest.sent = 0
      BY DEF NoRequest
    <3>3. QED
      BY <1>3, <2>2, <3>1, <3>2, CipherstoreConstants
  <2> HIDE DEF q
  <2>5. Uploads(p)' = Uploads(p) /\ Queued(p)' = Queued(p) /\ Awaiting(p)' = Awaiting(p)
    <3>1. q.step \notin UploadSteps /\ q.step # "awaiting"
      BY <2>3 DEF UploadSteps
    <3>2. /\ Uploads(p)' = Uploads(p) \ {r} /\ Queued(p)' = Queued(p) \ {r}
          /\ Awaiting(p)' = Awaiting(p) \ {r}
      BY <1>1, <1>2, <2>1, <2>3, <3>1, OneSlot
    <3>3. QED
      BY <1>2, <3>2
  <2>6. Slots(p)'
    BY <1>1, <1>4, <2>5, SlotsStay
  <2>7. QED
    BY <1>1, <1>2, <1>4, <2>1, <2>3, <2>4, <2>6, OneSlotKeeps
<1>5. ASSUME NEW d \in Digests \cup {NoDigest}, NEW step \in {"receiving", "reading", "awaiting"},
             begin(p, r, d, step)
      PROVE  \E q \in Request :
                /\ request' = [request EXCEPT ![r] = q]
                /\ q.step = step /\ q.server = p /\ q.sent =< MaxRequestsPerSocket
  <2> DEFINE q == [step |-> step, server |-> p, digest |-> d, connected |-> TRUE,
                   sent |-> n, promised |-> d \in acked \ policy[p]]
  <2>1. request' = [request EXCEPT ![r] = q]
    BY <1>5 DEF begin
  <2> HIDE DEF n
  <2>2. q \in Request
    BY <1>3 DEF Request, Steps
  <2>3. QED
    BY <1>3, <2>1, <2>2
<1>6. ASSUME NEW d \in Digests, begin(p, r, d, "reading"), UNCHANGED <<queue, activeUploads>>
      PROVE  Limits' /\ \A t \in Servers : Slots(t)'
  <2>1. PICK q \in Request :
          /\ request' = [request EXCEPT ![r] = q]
          /\ q.step = "reading" /\ q.server = p /\ q.sent =< MaxRequestsPerSocket
    BY <1>5, <1>6
  <2>2. /\ Uploads(p)' = Uploads(p) \ {r} /\ Queued(p)' = Queued(p) \ {r}
        /\ Awaiting(p)' = Awaiting(p) \ {r}
    <3>1. q.step \notin UploadSteps /\ q.step # "awaiting"
      BY <2>1 DEF UploadSteps
    <3>2. QED
      BY <1>1, <1>2, <2>1, <3>1, OneSlot
  <2>3. Slots(p)'
    <3>1. Uploads(p)' = Uploads(p) /\ Queued(p)' = Queued(p) /\ Awaiting(p)' = Awaiting(p)
      BY <1>2, <2>2
    <3>2. Slots(p) /\ queue'[p] = queue[p] /\ activeUploads'[p] = activeUploads[p]
      BY <1>1, <1>6
    <3>3. QED
      BY <3>1, <3>2, SlotsStay
  <2>4. QED
    BY <1>1, <1>2, <1>6, <2>1, <2>3, OneSlotKeeps
<1>7. ASSUME NEW d \in Digests, begin(p, r, d, "receiving"), queue' = queue,
             activeUploads[p] < MaxConcurrentUploads,
             activeUploads' = [activeUploads EXCEPT ![p] = @ + 1]
      PROVE  Limits' /\ \A t \in Servers : Slots(t)'
  <2>1. PICK q \in Request :
          /\ request' = [request EXCEPT ![r] = q]
          /\ q.step = "receiving" /\ q.server = p /\ q.sent =< MaxRequestsPerSocket
    BY <1>5, <1>7
  <2>2. /\ Uploads(p)' = Uploads(p) \cup {r} /\ Queued(p)' = Queued(p) \ {r}
        /\ Awaiting(p)' = Awaiting(p) \ {r}
    <3>1. q.step \in UploadSteps /\ q.step = "receiving"
      BY <2>1 DEF UploadSteps
    <3>2. QED
      BY <1>1, <1>2, <2>1, <3>1, OneSlot
  <2>3. activeUploads'[p] = activeUploads[p] + 1 /\ activeUploads[p] \in Nat
    BY <1>1, <1>7
  <2>4. IsFiniteSet(Uploads(p)') /\ activeUploads'[p] = Cardinality(Uploads(p)')
    <3> DEFINE u == Uploads(p)
    <3>1. IsFiniteSet(u) /\ activeUploads[p] = Cardinality(u) /\ r \notin u
      BY <1>1, <1>2 DEF Slots
    <3>2. Uploads(p)' = u \cup {r}
      BY <2>2
    <3> HIDE DEF u
    <3>3. IsFiniteSet(u \cup {r}) /\ Cardinality(u \cup {r}) = Cardinality(u) + 1
      BY <3>1, FS_AddElement
    <3>4. QED
      BY <2>3, <3>1, <3>2, <3>3
  <2>5. activeUploads'[p] =< MaxConcurrentUploads
    BY <1>7, <2>3, CipherstoreConstants
  <2>6. Slots(p)'
    <3>1. Queued(p)' = Queued(p) /\ Awaiting(p)' = Awaiting(p) /\ queue'[p] = queue[p]
      BY <1>2, <1>7, <2>2
    <3>2. QED
      BY <1>1, <2>4, <2>5, <3>1 DEF Slots
  <2>7. /\ activeUploads' \in [Servers -> Nat]
        /\ \A t \in Servers \ {p} : queue'[t] = queue[t] /\ activeUploads'[t] = activeUploads[t]
    BY <1>1, <1>7
  <2>8. QED
    BY <1>1, <1>2, <2>1, <2>6, <2>7, OneSlotKeeps
<1>8. ASSUME begin(p, r, NoDigest, "awaiting"), activeUploads' = activeUploads,
             queue' = [queue EXCEPT ![p] =
                 IF \E i \in DOMAIN @ : @[i] = Probe THEN @ ELSE Append(@, Probe)]
      PROVE  Limits' /\ \A t \in Servers : Slots(t)'
  <2>1. PICK q \in Request :
          /\ request' = [request EXCEPT ![r] = q]
          /\ q.step = "awaiting" /\ q.server = p /\ q.sent =< MaxRequestsPerSocket
    BY <1>5, <1>8
  <2>2. /\ Uploads(p)' = Uploads(p) \ {r} /\ Queued(p)' = Queued(p) \ {r}
        /\ Awaiting(p)' = Awaiting(p) \cup {r}
    <3>1. q.step \notin UploadSteps /\ q.step = "awaiting"
      BY <2>1 DEF UploadSteps
    <3>2. QED
      BY <1>1, <1>2, <2>1, <3>1, OneSlot
  <2>3. /\ Uploads(p)' = Uploads(p) /\ Queued(p)' = Queued(p) /\ Awaiting(p)' # {}
    BY <1>2, <2>2
  <2>4. Distinct(queue'[p]) /\ Range(queue'[p]) = Queued(p) \cup {Probe}
    <3> DEFINE w == queue[p]
    <3>1. /\ w \in Seq(Requests \cup {Probe}) /\ Distinct(w)
          /\ Range(w) = Queued(p) \cup (IF Awaiting(p) = {} THEN {} ELSE {Probe})
      BY <1>1 DEF Slots
    <3>2. queue'[p] = IF Probe \in Range(w) THEN w ELSE Append(w, Probe)
      <4>1. Probe \in Range(w) <=> (\E i \in DOMAIN w : w[i] = Probe)
        BY DEF Range
      <4>2. QED
        BY <1>1, <1>8, <4>1
    <3> HIDE DEF w
    <3>3. CASE Probe \in Range(w)
      BY <3>1, <3>2, <3>3
    <3>4. CASE Probe \notin Range(w)
      <4>1. Distinct(Append(w, Probe)) /\ Range(Append(w, Probe)) = Range(w) \cup {Probe}
        BY <3>1, <3>4, JoinedQueue
      <4>2. QED
        BY <3>1, <3>2, <3>4, <4>1
    <3>5. QED
      BY <3>3, <3>4
  <2>5. Slots(p)'
    BY <1>1, <1>8, <2>3, <2>4 DEF Slots
  <2>6. \A t \in Servers \ {p} : queue'[t] = queue[t] /\ activeUploads'[t] = activeUploads[t]
    BY <1>1, <1>8
  <2>7. QED
    BY <1>1, <1>2, <1>8, <2>1, <2>5, <2>6, OneSlotKeeps
<1>9. CASE startReady(p, r)
  BY <1>8, <1>9 DEF startReady
<1>10. CASE \E d \in Digests : startGet(p, r, d)
  BY <1>4, <1>6, <1>10 DEF startGet
<1>11. CASE \E d \in Digests : startPut(p, r, d)
  <2>1. PICK d \in Digests : startPut(p, r, d)
    BY <1>11
  <2>2. CASE activeUploads[p] >= MaxConcurrentUploads \/ d \in policy[p]
    BY <1>4, <2>1, <2>2 DEF startPut
  <2>3. CASE ~(activeUploads[p] >= MaxConcurrentUploads \/ d \in policy[p])
    <3>1. activeUploads[p] < MaxConcurrentUploads
      BY <1>1, <2>3, CipherstoreConstants
    <3>2. QED
      BY <1>7, <2>1, <2>3, <3>1 DEF startPut
  <2>4. QED
    BY <2>2, <2>3
<1>12. QED
  BY <1>9, <1>10, <1>11

\* A client that hangs up takes nothing from its handler.
LEMMA DisconnectReturns ==
  ASSUME SlotInv, NEW r \in Requests, disconnect(r)
  PROVE  Limits' /\ \A t \in Servers : Slots(t)'
<1>1. /\ request \in [Requests -> Request] /\ request[r] \in Request
      /\ UNCHANGED <<stage, policy, queue, activeUploads>>
      /\ request' = [request EXCEPT ![r] =
             IF @.step = "idle" THEN NoRequest ELSE [@ EXCEPT !.connected = FALSE]]
      /\ Limits
  BY DEF SlotInv, StoreInv, Shape, disconnect
<1>2. ASSUME NEW s \in Requests
      PROVE  /\ request'[s].step = request[s].step
             /\ request[s].step # "idle" => request'[s].server = request[s].server
             /\ request'[s].sent =< MaxRequestsPerSocket
             /\ request'[s].step = "idle" /\ ~request'[s].connected => request'[s].sent = 0
  <2>1. CASE s # r
    BY <1>1, <2>1 DEF Limits
  <2>2. CASE s = r /\ request[r].step = "idle"
    BY <1>1, <2>2, CipherstoreConstants DEF NoRequest
  <2>3. CASE s = r /\ request[r].step # "idle"
    <3>1. request'[r] = [request[r] EXCEPT !.connected = FALSE]
      BY <1>1, <2>3
    <3>2. /\ request'[r].step = request[r].step /\ request'[r].server = request[r].server
          /\ request'[r].sent = request[r].sent
      BY <1>1, <3>1 DEF Request
    <3>3. QED
      BY <1>1, <2>3, <3>2 DEF Limits
  <2>4. QED
    BY <2>1, <2>2, <2>3
<1>3. Limits'
  BY <1>1, <1>2 DEF Limits
<1>4. ASSUME NEW t \in Servers
      PROVE  Slots(t)'
  <2>1. Uploads(t)' = Uploads(t) /\ Queued(t)' = Queued(t) /\ Awaiting(t)' = Awaiting(t)
    BY <1>2 DEF Uploads, Handlers, UploadSteps, Queued, InStorage, Awaiting
  <2>2. QED
    BY <1>1, <2>1, SlotsStay DEF SlotInv
<1>5. QED
  BY <1>3, <1>4

\* The probe's turn answers all that waited for it and ends.
LEMMA ProbeReturns ==
  ASSUME SlotInv, NEW p \in Servers, probe(p)
  PROVE  Limits' /\ \A t \in Servers : Slots(t)'
<1> DEFINE w == queue[p]
<1>1. /\ request \in [Requests -> Request] /\ Slots(p) /\ Limits
      /\ queue \in [Servers -> Seq(Requests \cup {Probe})]
      /\ UNCHANGED <<stage, policy, activeUploads>>
      /\ w # <<>> /\ Head(w) = Probe
      /\ queue' = [queue EXCEPT ![p] = Tail(w)]
      /\ request' = [r \in Requests |->
             IF request[r].server = p /\ request[r].step = "awaiting"
             THEN answered(request[r]) ELSE request[r]]
  BY DEF SlotInv, StoreInv, Shape, probe, quiet
<1>2. ASSUME NEW r \in Requests
      PROVE  /\ \/ request'[r] = request[r]
                \/ request'[r].step = "idle" /\ request[r].step = "awaiting" /\ request[r].server = p
             /\ ~(request'[r].step = "awaiting" /\ request'[r].server = p)
             /\ request'[r].sent =< MaxRequestsPerSocket
             /\ request'[r].step = "idle" /\ ~request'[r].connected => request'[r].sent = 0
  <2>1. CASE request[r].server = p /\ request[r].step = "awaiting"
    <3> DEFINE q == answered(request[r])
    <3>1. request'[r] = q
      BY <1>1, <2>1
    <3>2. q.step = "idle" /\ (q = NoRequest \/ (q.connected /\ q.sent = request[r].sent))
      BY DEF answered, NoRequest
    <3>3. NoRequest.sent = 0
      BY DEF NoRequest
    <3> HIDE DEF q
    <3>4. QED
      BY <1>1, <2>1, <3>1, <3>2, <3>3, CipherstoreConstants DEF Limits
  <2>2. CASE ~(request[r].server = p /\ request[r].step = "awaiting")
    BY <1>1, <2>2 DEF Limits
  <2>3. QED
    BY <2>1, <2>2
<1>3. Limits'
  BY <1>1, <1>2 DEF Limits
<1>4. ASSUME NEW t \in Servers \ {p}
      PROVE  Slots(t)'
  <2>1. Uploads(t)' = Uploads(t) /\ Queued(t)' = Queued(t) /\ Awaiting(t)' = Awaiting(t)
    BY <1>2 DEF Uploads, Handlers, UploadSteps, Queued, InStorage, Awaiting
  <2>2. queue'[t] = queue[t]
    BY <1>1
  <2>3. QED
    BY <1>1, <2>1, <2>2, SlotsStay DEF SlotInv
<1>5. Slots(p)'
  <2>1. Uploads(p)' = Uploads(p) /\ Queued(p)' = Queued(p) /\ Awaiting(p)' = {}
    BY <1>2 DEF Uploads, Handlers, UploadSteps, Queued, InStorage, Awaiting
  <2>2. /\ w \in Seq(Requests \cup {Probe}) /\ Distinct(w) /\ queue'[p] = Tail(w)
        /\ Range(w) \subseteq Queued(p) \cup {Probe} /\ Queued(p) \subseteq Range(w)
    BY <1>1 DEF Slots
  <2>3. Probe \notin Queued(p)
    BY CipherstoreConstants DEF Queued, InStorage
  <2> HIDE DEF w
  <2>4. Distinct(Tail(w)) /\ Range(Tail(w)) = Range(w) \ {Probe}
    BY <1>1, <2>2, LeftQueue
  <2>5. Range(queue'[p]) = Queued(p)
    BY <2>2, <2>3, <2>4
  <2>6. QED
    BY <1>1, <2>1, <2>2, <2>4, <2>5 DEF Slots
<1>6. QED
  BY <1>3, <1>4, <1>5

\* Start, stop and crash of a server; a crash empties its memory.
LEMMA EntrypointReturns ==
  ASSUME SlotInv, NEW p \in Servers,
         acquireLease(p) \/ startUp(p) \/ stop(p) \/ shutDown(p) \/ crashServer(p)
  PROVE  Limits' /\ \A t \in Servers : Slots(t)'
<1>1. /\ request \in [Requests -> Request] /\ Limits /\ \A t \in Servers : Slots(t)
      /\ queue \in [Servers -> Seq(Requests \cup {Probe})]
  BY DEF SlotInv, StoreInv, Shape
<1>2. stage' \in [Servers -> Stages] /\ policy' \in [Servers -> SUBSET Digests]
  <2>1. \/ stage' = stage
        \/ \E s \in Stages : stage' = [stage EXCEPT ![p] = s]
    BY DEF acquireLease, startUp, recordLease, recordLeaseFails, refuseToStart, listen, stop,
       shutDown, closed, releaseLease, finishRelease, crashServer, forget, Stages
  <2>2. \/ policy' = policy
        \/ \E P \in SUBSET Digests : policy' = [policy EXCEPT ![p] = P]
    BY CipherstoreConstants
       DEF acquireLease, startUp, recordLease, recordLeaseFails, refuseToStart, listen, stop,
       shutDown, closed, releaseLease, finishRelease, crashServer, forget
  <2>3. stage \in [Servers -> Stages] /\ policy \in [Servers -> SUBSET Digests]
    BY <1>1 DEF Limits
  <2>4. stage' \in [Servers -> Stages]
    BY <2>1, <2>3
  <2>5. policy' \in [Servers -> SUBSET Digests]
    BY <2>2, <2>3
  <2>6. QED
    BY <2>4, <2>5
<1>3. CASE UNCHANGED <<queue, activeUploads, request>>
  BY <1>1, <1>2, <1>3 DEF Limits, Slots, Queued, InStorage, Uploads, Handlers, Awaiting
<1>4. CASE stop(p)
  <2>1. /\ UNCHANGED <<queue, activeUploads>>
        /\ \A r \in Requests :
             \/ request'[r] = request[r]
             \/ request[r].step = "idle" /\ request'[r] = NoRequest
    BY <1>1, <1>4 DEF stop, Handlers, Connections
  <2>2. NoRequest.step = "idle" /\ NoRequest.sent = 0
    BY DEF NoRequest
  <2>3. ASSUME NEW r \in Requests
        PROVE  /\ request'[r].sent =< MaxRequestsPerSocket
               /\ request'[r].step = "idle" /\ ~request'[r].connected => request'[r].sent = 0
    <3>1. CASE request'[r] = request[r]
      BY <1>1, <3>1 DEF Limits
    <3>2. CASE request'[r] = NoRequest
      BY <2>2, <3>2, CipherstoreConstants
    <3>3. QED
      BY <2>1, <3>1, <3>2
  <2>4. Limits'
    BY <1>1, <1>2, <2>1, <2>3 DEF Limits
  <2>5. ASSUME NEW t \in Servers
        PROVE  Slots(t)'
    <3>1. Uploads(t)' = Uploads(t) /\ Queued(t)' = Queued(t) /\ Awaiting(t)' = Awaiting(t)
      BY <2>1, <2>2 DEF Uploads, Handlers, UploadSteps, Queued, InStorage, Awaiting
    <3>2. QED
      BY <1>1, <2>1, <3>1, SlotsStay
  <2>6. QED
    BY <2>4, <2>5
<1>5. CASE crashServer(p)
  <2>1. /\ queue' = [queue EXCEPT ![p] = <<>>]
        /\ activeUploads' = [activeUploads EXCEPT ![p] = 0]
        /\ request' = [r \in Requests |-> IF request[r].server = p THEN NoRequest ELSE request[r]]
    BY <1>5 DEF crashServer
  <2>2. NoRequest.step = "idle" /\ NoRequest.sent = 0
    BY DEF NoRequest
  <2>3. Limits'
    BY <1>1, <1>2, <2>1, <2>2, CipherstoreConstants DEF Limits
  <2>4. ASSUME NEW t \in Servers \ {p}
        PROVE  Slots(t)'
    <3>1. Uploads(t)' = Uploads(t) /\ Queued(t)' = Queued(t) /\ Awaiting(t)' = Awaiting(t)
      BY <2>1, <2>2 DEF Uploads, Handlers, UploadSteps, Queued, InStorage, Awaiting
    <3>2. queue'[t] = queue[t] /\ activeUploads'[t] = activeUploads[t]
      BY <1>1, <2>1 DEF Limits
    <3>3. QED
      BY <1>1, <3>1, <3>2, SlotsStay
  <2>5. Slots(p)'
    <3>1. Uploads(p)' = {} /\ Queued(p)' = {} /\ Awaiting(p)' = {}
      BY <2>1, <2>2 DEF Uploads, Handlers, UploadSteps, Queued, InStorage, Awaiting
    <3>2. queue'[p] = <<>> /\ activeUploads'[p] = 0
      BY <1>1, <2>1 DEF Limits
    <3>3. QED
      BY <3>1, <3>2, EmptyQueue, FS_EmptySet, CipherstoreConstants DEF Slots
  <2>6. QED
    BY <2>3, <2>4, <2>5
<1>6. CASE acquireLease(p) \/ startUp(p) \/ shutDown(p)
  BY <1>3, <1>6 DEF acquireLease, startUp, recordLease, recordLeaseFails, refuseToStart, listen,
     shutDown, closed, releaseLease, finishRelease, serverVars
<1>7. QED
  BY <1>4, <1>5, <1>6

\* Every step keeps count of slots and places.
LEMMA SlotsStep ==
  ASSUME SlotInv, [Next]_vars
  PROVE  SlotInv'
<1>1. StoreInv'
  BY StoreStep DEF SlotInv
<1>2. CASE \E p \in Servers :
             acquireLease(p) \/ startUp(p) \/ stop(p) \/ shutDown(p) \/ crashServer(p)
  BY <1>1, <1>2, EntrypointReturns DEF SlotInv
<1>3. CASE \E p \in Servers : probe(p)
  BY <1>1, <1>3, ProbeReturns DEF SlotInv
<1>4. CASE \E p \in Servers, r \in Requests :
             startReady(p, r) \/ \E d \in Digests : startPut(p, r, d) \/ startGet(p, r, d)
  BY <1>1, <1>4, StartReturns DEF SlotInv
<1>5. CASE \E r \in Requests : handle(r) \/ disconnect(r)
  BY <1>1, <1>5, HandleReturns, DisconnectReturns DEF SlotInv
<1>6. CASE UNCHANGED <<stage, policy, queue, activeUploads, request>>
  <2>1. Limits' /\ \A p \in Servers : Slots(p)'
    BY <1>6 DEF SlotInv, Limits, Slots, Queued, InStorage, Uploads, Handlers, Awaiting
  <2>2. QED
    BY <1>1, <2>1 DEF SlotInv
<1>7. CASE (\E d \in Digests : damage(d)) \/ clearLock \/ UNCHANGED vars
  BY <1>6, <1>7 DEF damage, clearLock, serverVars, vars
<1>8. QED
  BY <1>2, <1>3, <1>4, <1>5, <1>7 DEF Next

\* Before any process starts no slot is taken.
LEMMA SlotsInitially == Init => SlotInv
<1> SUFFICES ASSUME Init PROVE SlotInv
  OBVIOUS
<1>1. StoreInv
  BY StoreInitially
<1>2. Limits
  BY CipherstoreConstants DEF Init, Limits, Stages, NoRequest
<1>3. ASSUME NEW p \in Servers PROVE Slots(p)
  <2>1. Uploads(p) = {} /\ Queued(p) = {} /\ Awaiting(p) = {}
    BY DEF Init, NoRequest, Uploads, Handlers, UploadSteps, Queued, InStorage, Awaiting
  <2>2. queue[p] = <<>> /\ activeUploads[p] = 0
    BY DEF Init
  <2>3. QED
    BY <2>1, <2>2, EmptyQueue, FS_EmptySet, CipherstoreConstants DEF Slots
<1>4. QED
  BY <1>1, <1>2, <1>3 DEF SlotInv

\* Handlers, counter and queues agree in every reachable state.
THEOREM SlotInvariance == Spec => []SlotInv
<1>1. QED
  BY SlotsInitially, SlotsStep, PTL DEF Spec

\* Types, with the limits of server.ts on uploads and on requests of a connection.
THEOREM TypeCorrectness == Spec => []TypeOK
<1>1. ASSUME SlotInv PROVE TypeOK
  <2>1. LeaseTypeOK /\ files \in [Digests -> Files]
        /\ queue \in [Servers -> Seq(Requests \cup {Probe})]
    BY <1>1 DEF SlotInv, StoreInv, LeaseInv, Shape
  <2>2. stage \in [Servers -> Stages] /\ policy \in [Servers -> SUBSET Digests]
    BY <1>1 DEF SlotInv, Limits
  <2>3. activeUploads \in [Servers -> 0..MaxConcurrentUploads]
    <3>1. /\ activeUploads \in [Servers -> Nat]
          /\ \A p \in Servers : activeUploads[p] =< MaxConcurrentUploads
      BY <1>1 DEF SlotInv, Limits, Slots
    <3>2. QED
      BY <3>1, CipherstoreConstants
  <2>4. ASSUME NEW r \in Requests
        PROVE  request[r] \in [step : Steps, server : Servers \cup {Nobody},
                  digest : Digests \cup {NoDigest}, connected : BOOLEAN,
                  sent : 0..MaxRequestsPerSocket, promised : BOOLEAN]
    <3>1. request[r] \in Request /\ request[r].sent =< MaxRequestsPerSocket
      BY <1>1 DEF SlotInv, Limits, StoreInv, Shape
    <3>2. request[r].sent \in 0..MaxRequestsPerSocket
      BY <3>1, CipherstoreConstants DEF Request
    <3>3. QED
      BY <3>1, <3>2 DEF Request
  <2>5. request \in [Requests -> [step : Steps, server : Servers \cup {Nobody},
                  digest : Digests \cup {NoDigest}, connected : BOOLEAN,
                  sent : 0..MaxRequestsPerSocket, promised : BOOLEAN]]
    BY <1>1, <2>4 DEF SlotInv, StoreInv, Shape
  <2>6. acked \subseteq Digests
    BY <1>1 DEF SlotInv, StoreInv, Kept, StoredDigests
  <2>7. QED
    BY <2>1, <2>2, <2>3, <2>5, <2>6 DEF TypeOK
<1>2. QED
  BY <1>1, SlotInvariance, PTL

\* server.ts and capacity.ts: no upload slot and no turn leaks or is given back
\* twice, whatever fails and whoever hangs up.
THEOREM SlotSafety == Spec => []SlotsAreReturned
<1>1. ASSUME SlotInv PROVE SlotsAreReturned
  <2> SUFFICES ASSUME NEW p \in Servers
               PROVE  /\ activeUploads[p] = Cardinality(Uploads(p))
                      /\ \A r \in Requests :
                           Cardinality({i \in DOMAIN queue[p] : queue[p][i] = r})
                             = IF r \in InStorage /\ request[r].server = p THEN 1 ELSE 0
                      /\ Cardinality({i \in DOMAIN queue[p] : queue[p][i] = Probe})
                             = IF \E r \in Handlers(p) : request[r].step = "awaiting" THEN 1 ELSE 0
    BY DEF SlotsAreReturned
  <2>1. Slots(p)
    BY <1>1 DEF SlotInv
  <2>2. ASSUME NEW e
        PROVE  Cardinality({i \in DOMAIN queue[p] : queue[p][i] = e})
                 = IF e \in Range(queue[p]) THEN 1 ELSE 0
    BY <2>1, PlacesOf DEF Slots
  <2>3. ASSUME NEW r \in Requests
        PROVE  r \in Range(queue[p]) <=> r \in InStorage /\ request[r].server = p
    <3>1. r # Probe
      BY CipherstoreConstants
    <3>2. QED
      BY <2>1, <3>1 DEF Slots, Queued
  <2>4. Probe \in Range(queue[p]) <=> \E r \in Handlers(p) : request[r].step = "awaiting"
    <3>1. Probe \notin Queued(p)
      BY CipherstoreConstants DEF Queued, InStorage
    <3>2. Awaiting(p) # {} <=> \E r \in Handlers(p) : request[r].step = "awaiting"
      BY DEF Awaiting
    <3>3. QED
      BY <2>1, <3>1, <3>2 DEF Slots
  <2>5. ASSUME NEW r \in Requests
        PROVE  Cardinality({i \in DOMAIN queue[p] : queue[p][i] = r})
                 = IF r \in InStorage /\ request[r].server = p THEN 1 ELSE 0
    BY <2>2, <2>3
  <2>6. Cardinality({i \in DOMAIN queue[p] : queue[p][i] = Probe})
          = IF \E r \in Handlers(p) : request[r].step = "awaiting" THEN 1 ELSE 0
    BY <2>2, <2>4
  <2>7. QED
    BY <2>1, <2>5, <2>6 DEF Slots
<1>2. QED
  BY <1>1, SlotInvariance, PTL

-----------------------------------------------------------------------------
(* The tools of the operator.                                              *)

Tools ==
    /\ backup \in [step : {"idle", "copying", "sealed", "failed"},
                   todo : SUBSET Digests, output : SUBSET Digests]
    /\ retirement \in [step : {"idle", "removing", "recording", "ended"}, todo : SUBSET Digests]
    /\ audit \in [present : SUBSET Digests, removed : SUBSET Digests, completed : BOOLEAN]

\* While the backup has the directory, what it copied and what it listed and
\* did not copy yet is what is stored.
Copying ==
    /\ backup.step \in {"copying", "sealed"} =>
        phase[BackupTool] = "holding" /\ backup.todo \cup backup.output = StoredDigests
    /\ backup.step = "sealed" => backup.todo = {}

\* An apply has the directory and still has to remove what it planned and did
\* not record; the policy and the review cover all of that.
Retiring ==
    /\ retirement.step # "idle" => phase[RetireTool] = "holding"
    /\ retirement.step \in {"removing", "recording"} =>
        /\ retirement.todo \subseteq Retired \cap reviewed
        /\ retirement.todo = audit.present \ audit.removed
        /\ ~audit.completed
    /\ retirement.step = "removing" => retirement.todo \subseteq StoredDigests

\* What AuditAccounts says, with "at most one" by its name.
Accounted ==
    lock = RetireTool =>
        /\ audit.removed \subseteq audit.present \ StoredDigests
        /\ audit.completed => audit.removed = audit.present
        /\ \E d : (audit.present \ StoredDigests) \ audit.removed \subseteq {d}

MaintenanceInv == StoreInv /\ Tools /\ Copying /\ Retiring /\ Accounted

\* No tool has run yet.
LEMMA MaintenanceInitially == MaintenanceInit => MaintenanceInv
<1> SUFFICES ASSUME MaintenanceInit PROVE MaintenanceInv
  OBVIOUS
<1>1. StoreInv
  BY StoreInitially DEF MaintenanceInit
<1>2. lock # RetireTool
  BY LeaseConstants, MaintenanceConstants DEF MaintenanceInit, Init, LeaseInit
<1>3. QED
  BY <1>1, <1>2 DEF MaintenanceInit, MaintenanceInv, Tools, Copying, Retiring, Accounted, NoBackup,
     NoRetirement, NoAudit

\* While a process that is no server has the lock, no handler runs.
LEMMA NobodyServes ==
  ASSUME StoreInv, lock \notin Servers
  PROVE  \A r \in Requests : request[r].step = "idle"
  BY CipherstoreConstants DEF StoreInv, Alive, LeaseInv, LeaseIsHeld

\* Neither the lease of a tool nor what is stored under it is touched by a server.
LEMMA ServersKeepOut ==
  ASSUME StoreInv, Next, NEW t \in Processes \ Servers
  PROVE  /\ phase'[t] = phase[t]
         /\ lock' = t => lock = t
         /\ lock = t => StoredDigests' = StoredDigests
<1>1. phase \in [Processes -> Phases] /\ t # Nobody
  BY LeaseConstants DEF StoreInv, LeaseInv, LeaseTypeOK
<1>2. CASE \E p \in Servers :
             acquireLease(p) \/ startUp(p) \/ stop(p) \/ shutDown(p) \/ crashServer(p)
  <2>1. PICK p \in Servers :
             acquireLease(p) \/ startUp(p) \/ stop(p) \/ shutDown(p) \/ crashServer(p)
    BY <1>2
  <2>2. files' = files
    BY <2>1 DEF acquireLease, startUp, recordLease, recordLeaseFails, refuseToStart, listen, stop,
       shutDown, closed, releaseLease, finishRelease, crashServer, serverVars
  <2>3. /\ phase' = phase \/ \E next : phase' = [phase EXCEPT ![p] = next]
        /\ lock' \in {p, Nobody, lock}
    BY <2>1 DEF acquireLease, startUp, recordLease, recordLeaseFails, refuseToStart, listen, stop,
       shutDown, closed, releaseLease, finishRelease, crashServer, makeLock, writeOwner,
       writeOwnerFails, removeOwner, removeLock, crash, become, leaseVars
  <2>4. phase'[t] = phase[t] /\ (lock' = t => lock = t)
    BY <1>1, <2>3
  <2>5. QED
    BY <2>2, <2>4 DEF StoredDigests
<1>3. CASE clearLock
  BY <1>1, <1>3 DEF clearLock, clearAbandonedLock, serverVars, StoredDigests
<1>4. CASE \/ \E p \in Servers : probe(p) \/ \E r \in Requests :
                \/ startReady(p, r)
                \/ \E d \in Digests : startPut(p, r, d) \/ startGet(p, r, d)
           \/ \E r \in Requests : disconnect(r)
  BY <1>4 DEF probe, startReady, startPut, startGet, disconnect, quiet, leaseVars, StoredDigests
<1>5. CASE \E d \in Digests : damage(d)
  BY <1>5 DEF damage, leaseVars, StoredDigests, StoreInv, Shape
<1>6. CASE \E r \in Requests : handle(r)
  <2>1. PICK r \in Requests : handle(r)
    BY <1>6
  <2>2. UNCHANGED leaseVars
    BY <2>1 DEF handle, receive, inspect, write, link, clean, read, quiet
  <2>3. request[r].step # "idle"
    BY <2>1 DEF handle, receive, inspect, write, link, clean, read, hasTurn
  <2>4. lock # t
    BY <2>3, NobodyServes
  <2>5. QED
    BY <2>2, <2>4 DEF leaseVars
<1>7. QED
  BY <1>2, <1>3, <1>4, <1>5, <1>6 DEF Next

\* So nothing changes for a tool that has the directory.
LEMMA ServersKeepTools ==
  ASSUME MaintenanceInv, [Next]_vars, UNCHANGED toolVars
  PROVE  MaintenanceInv'
<1>1. StoreInv'
  BY StoreStep DEF MaintenanceInv
<1>2. ASSUME NEW t \in {BackupTool, RetireTool}
      PROVE  /\ phase'[t] = phase[t]
             /\ lock' = t => lock = t
             /\ lock = t => StoredDigests' = StoredDigests
  <2>1. CASE Next
    BY <2>1, ServersKeepOut, MaintenanceConstants DEF MaintenanceInv
  <2>2. CASE UNCHANGED vars
    BY <2>2 DEF vars, StoredDigests
  <2>3. QED
    BY <2>1, <2>2
<1>3. \A t \in {BackupTool, RetireTool} : phase[t] = "holding" => lock = t
  BY MaintenanceConstants DEF MaintenanceInv, StoreInv, LeaseInv, LeaseIsHeld
<1>4. Tools'
  BY DEF MaintenanceInv, Tools, toolVars
<1>5. Copying'
  BY <1>2, <1>3 DEF MaintenanceInv, Copying, toolVars
<1>6. Retiring'
  BY <1>2, <1>3 DEF MaintenanceInv, Retiring, toolVars
<1>7. Accounted'
  BY <1>2 DEF MaintenanceInv, Accounted, toolVars
<1>8. QED
  BY <1>1, <1>4, <1>5, <1>6, <1>7 DEF MaintenanceInv

\* A tool that takes a step of the lease, or none, changes nothing for handlers.
LEMMA ToolKeepsStore ==
  ASSUME StoreInv, [LeaseNext]_leaseVars, storeAside,
         NEW t \in Processes \ Servers, \A p \in Processes \ {t} : phase'[p] = phase[p]
  PROVE  StoreInv'
<1>1. LeaseInv'
  BY LeaseStep DEF StoreInv
<1>2. StoredDigests' = StoredDigests
  BY DEF StoredDigests, storeAside
<1>3. Kept' /\ Shape'
  BY <1>2 DEF StoreInv, Kept, Shape, storeAside, aside
<1>4. ASSUME NEW r \in Requests
      PROVE  Alive(r)' /\ Turn(r)' /\ Knows(r)'
  <2>1. Knows(r)'
    BY SlotKeeps DEF storeAside, aside
  <2>2. QED
    BY <2>1, CipherstoreConstants DEF StoreInv, Alive, Turn, storeAside, aside
<1>5. QED
  BY <1>1, <1>3, <1>4 DEF StoreInv

\* The steps of the lease that a tool takes.
LEMMA ToolLeases ==
  ASSUME StoreInv, NEW t \in Processes \ Servers, storeAside,
         \/ makeLock(t) \/ writeOwner(t) \/ writeOwnerFails(t)
         \/ removeOwner(t) \/ removeLock(t) \/ crash(t)
  PROVE  /\ StoreInv'
         /\ \A p \in Processes \ {t} : phase'[p] = phase[p] /\ (lock' = p => lock = p)
         /\ lock' = t => lock = t \/ makeLock(t)
         /\ StoredDigests' = StoredDigests
<1>1. phase \in [Processes -> Phases] /\ Nobody \notin Processes
  BY LeaseConstants DEF StoreInv, LeaseInv, LeaseTypeOK
<1>2. LeaseNext
  BY DEF LeaseNext
<1>3. /\ \E next : phase' = [phase EXCEPT ![t] = next]
      /\ lock' \in {Nobody, lock} \/ (makeLock(t) /\ lock' = t)
  BY DEF makeLock, writeOwner, writeOwnerFails, removeOwner, removeLock, crash, become
<1>4. \A p \in Processes \ {t} : phase'[p] = phase[p]
  BY <1>1, <1>3
<1>5. StoreInv'
  BY <1>2, <1>4, ToolKeepsStore
<1>6. QED
  BY <1>1, <1>3, <1>4, <1>5 DEF storeAside, StoredDigests

\* What the two tools share: a step of one that leaves the store alone.
LEMMA ToolQuiet ==
  ASSUME StoreInv, UNCHANGED leaseVars, storeAside
  PROVE  StoreInv' /\ StoredDigests' = StoredDigests
<1>1. \E t : t \in Processes \ Servers
  BY MaintenanceConstants
<1>2. \A p \in Processes : phase'[p] = phase[p]
  BY DEF leaseVars
<1>3. QED
  BY <1>1, <1>2, ToolKeepsStore DEF StoredDigests, storeAside

\* A listing and its copies exclude every writer; the manifest comes last.
LEMMA BackupKeeps ==
  ASSUME MaintenanceInv,
         \/ backupAcquires \/ listStore \/ writeManifest \/ backupFails \/ backupReleases
         \/ backupCrashes \/ \E d \in Digests : copyBlob(d)
  PROVE  MaintenanceInv'
<1>1. /\ StoreInv /\ Tools /\ Copying /\ Retiring /\ Accounted
      /\ {BackupTool, RetireTool} \subseteq Processes \ Servers /\ BackupTool # RetireTool
  BY MaintenanceConstants DEF MaintenanceInv
<1>2. storeAside /\ UNCHANGED <<retirement, reviewed, audit>>
  BY DEF backupAcquires, listStore, writeManifest, backupFails, backupReleases, backupCrashes,
     copyBlob, toolVars
<1>3. CASE backupAcquires \/ backupReleases \/ backupCrashes
  <2>1. \/ makeLock(BackupTool) \/ writeOwner(BackupTool) \/ writeOwnerFails(BackupTool)
        \/ removeOwner(BackupTool) \/ removeLock(BackupTool) \/ crash(BackupTool)
    BY <1>3 DEF backupAcquires, backupReleases, backupCrashes
  <2>2. /\ StoreInv' /\ StoredDigests' = StoredDigests /\ phase'[RetireTool] = phase[RetireTool]
        /\ lock' = RetireTool => lock = RetireTool
    BY <1>1, <1>2, <2>1, ToolLeases
  <2>3. Retiring' /\ Accounted'
    BY <1>1, <1>2, <2>2 DEF Retiring, Accounted
  <2>4. Tools' /\ Copying'
    <3>1. CASE backupAcquires
      <4>1. phase[BackupTool] # "holding"
        BY <3>1 DEF backupAcquires, makeLock, writeOwner, writeOwnerFails
      <4>2. QED
        BY <1>1, <1>2, <3>1, <4>1 DEF backupAcquires, Tools, Copying, toolVars
    <3>2. CASE backupReleases \/ backupCrashes
      <4>1. backup' = NoBackup
        BY <3>2 DEF backupReleases, backupCrashes
      <4>2. QED
        BY <1>1, <1>2, <4>1 DEF Tools, Copying, NoBackup
    <3>3. QED
      BY <1>3, <3>1, <3>2
  <2>5. QED
    BY <2>2, <2>3, <2>4 DEF MaintenanceInv
<1>4. CASE listStore \/ writeManifest \/ backupFails \/ \E d \in Digests : copyBlob(d)
  <2>1. UNCHANGED leaseVars
    BY <1>4 DEF listStore, writeManifest, backupFails, copyBlob
  <2>2. StoreInv' /\ StoredDigests' = StoredDigests
    BY <1>1, <1>2, <2>1, ToolQuiet
  <2>3. Retiring' /\ Accounted'
    BY <1>1, <1>2, <2>1, <2>2 DEF Retiring, Accounted, leaseVars
  <2>4. Tools' /\ Copying'
    <3>1. CASE listStore
      BY <1>1, <1>2, <2>1, <2>2, <3>1 DEF listStore, Tools, Copying, leaseVars, StoredDigests
    <3>2. CASE writeManifest
      BY <1>1, <1>2, <2>1, <2>2, <3>2 DEF writeManifest, Tools, Copying, leaseVars
    <3>3. CASE backupFails
      BY <1>1, <1>2, <3>3 DEF backupFails, Tools, Copying, NoBackup
    <3>4. ASSUME NEW d \in Digests, copyBlob(d)
          PROVE  Tools' /\ Copying'
      <4>1. backup' = [step |-> "copying", todo |-> backup.todo \ {d}, output |-> backup.output \cup {d}]
        BY <1>1, <3>4 DEF copyBlob, Tools
      <4>2. backup.step = "copying" /\ d \in backup.todo
        BY <3>4 DEF copyBlob
      <4>3. QED
        BY <1>1, <1>2, <2>1, <2>2, <4>1, <4>2 DEF Tools, Copying, leaseVars
    <3>5. QED
      BY <1>4, <3>1, <3>2, <3>3, <3>4
  <2>5. QED
    BY <2>2, <2>3, <2>4 DEF MaintenanceInv
<1>5. QED
  BY <1>3, <1>4

\* The tool's own acquire, release and crash: the audit begins with a new lock.
LEMMA RetireLeaseKeeps ==
  ASSUME MaintenanceInv, retireAcquires \/ retireReleases \/ retireCrashes
  PROVE  MaintenanceInv'
<1>1. /\ StoreInv /\ Tools /\ Copying /\ Retiring /\ Accounted
      /\ {BackupTool, RetireTool} \subseteq Processes \ Servers /\ BackupTool # RetireTool
  BY MaintenanceConstants DEF MaintenanceInv
<1>2. /\ storeAside /\ UNCHANGED <<backup, reviewed>>
      /\ \/ makeLock(RetireTool) \/ writeOwner(RetireTool) \/ writeOwnerFails(RetireTool)
         \/ removeOwner(RetireTool) \/ removeLock(RetireTool) \/ crash(RetireTool)
  BY DEF retireAcquires, retireReleases, retireCrashes
<1>3. /\ StoreInv' /\ StoredDigests' = StoredDigests /\ phase'[BackupTool] = phase[BackupTool]
      /\ lock' = RetireTool => lock = RetireTool \/ makeLock(RetireTool)
  BY <1>1, <1>2, ToolLeases
<1>4. Copying'
  BY <1>1, <1>2, <1>3 DEF Copying
<1>5. Tools' /\ Retiring'
  <2>1. CASE retireAcquires
    <3>1. phase[RetireTool] # "holding"
      BY <2>1 DEF retireAcquires, makeLock, writeOwner, writeOwnerFails
    <3>2. retirement' = retirement /\ (audit' = audit \/ audit' = NoAudit)
      BY <2>1 DEF retireAcquires
    <3>3. retirement.step = "idle"
      BY <1>1, <3>1 DEF Retiring
    <3>4. Retiring'
      BY <3>2, <3>3 DEF Retiring
    <3>5. NoAudit \in [present : SUBSET Digests, removed : SUBSET Digests, completed : BOOLEAN]
      BY DEF NoAudit
    <3>6. QED
      BY <1>1, <1>2, <3>2, <3>4, <3>5 DEF Tools
  <2>2. CASE retireReleases \/ retireCrashes
    <3>1. retirement' = NoRetirement /\ audit' = audit
      BY <2>2 DEF retireReleases, retireCrashes
    <3>2. QED
      BY <1>1, <1>2, <3>1 DEF Tools, Retiring, NoRetirement
  <2>3. QED
    BY <2>1, <2>2
<1>6. Accounted'
  <2>1. CASE audit' = NoAudit
    BY <2>1 DEF Accounted, NoAudit
  <2>2. CASE audit' = audit /\ (lock' = RetireTool => lock = RetireTool)
    BY <1>1, <1>3, <2>2 DEF Accounted
  <2>3. ~makeLock(RetireTool) => audit' = audit
    BY DEF retireAcquires, retireReleases, retireCrashes
  <2>4. makeLock(RetireTool) => audit' = NoAudit
    BY <1>1 DEF retireAcquires, retireReleases, retireCrashes, makeLock, writeOwner, writeOwnerFails,
       removeOwner, removeLock, crash
  <2>5. QED
    BY <1>3, <2>1, <2>2, <2>3, <2>4
<1>7. QED
  BY <1>3, <1>4, <1>5, <1>6 DEF MaintenanceInv

\* A plan, and an apply that ends, with or without the rest of its removals.
LEMMA RetireEnds ==
  ASSUME MaintenanceInv, plan \/ complete \/ retireFails
  PROVE  MaintenanceInv'
<1>1. /\ StoreInv /\ Tools /\ Copying /\ Retiring /\ Accounted
      /\ storeAside /\ UNCHANGED <<backup, leaseVars>>
  BY DEF MaintenanceInv, plan, complete, retireFails
<1>2. StoreInv' /\ StoredDigests' = StoredDigests
  BY <1>1, ToolQuiet
<1>3. phase[RetireTool] = "holding"
  BY <1>1 DEF plan, complete, retireFails, Retiring
<1>4. \E todo \in SUBSET Digests : retirement' = [step |-> "ended", todo |-> todo]
  BY <1>1 DEF plan, complete, retireFails, Tools, NoRetirement
<1>5. \/ audit' = audit
      \/ /\ audit' = [present |-> audit.present, removed |-> audit.removed, completed |-> TRUE]
         /\ retirement.step = "removing" /\ retirement.todo = {}
  BY <1>1 DEF plan, complete, retireFails, Tools
<1>6. Copying'
  BY <1>1, <1>2 DEF Copying, leaseVars
<1>7. Tools' /\ Retiring'
  <2>1. /\ retirement' \in [step : {"idle", "removing", "recording", "ended"}, todo : SUBSET Digests]
        /\ retirement'.step = "ended"
    BY <1>4
  <2>2. audit' \in [present : SUBSET Digests, removed : SUBSET Digests, completed : BOOLEAN]
    <3>1. audit \in [present : SUBSET Digests, removed : SUBSET Digests, completed : BOOLEAN]
      BY <1>1 DEF Tools
    <3>2. audit.present \in SUBSET Digests /\ audit.removed \in SUBSET Digests
      BY <3>1
    <3>3. CASE audit' = audit
      BY <3>1, <3>3
    <3>4. CASE audit' = [present |-> audit.present, removed |-> audit.removed, completed |-> TRUE]
      BY <3>2, <3>4
    <3>5. QED
      BY <1>5, <3>3, <3>4
  <2>3. Tools'
    BY <1>1, <2>1, <2>2 DEF Tools
  <2>4. Retiring'
    BY <1>1, <1>3, <2>1 DEF Retiring, leaseVars
  <2>5. QED
    BY <2>3, <2>4
<1>8. Accounted'
  BY <1>1, <1>2, <1>5 DEF Tools, Retiring, Accounted, leaseVars
<1>9. QED
  BY <1>2, <1>6, <1>7, <1>8 DEF MaintenanceInv

\* An apply plans to remove what is stored, was reviewed and is to be retired.
LEMMA ApplyKeeps ==
  ASSUME MaintenanceInv, apply
  PROVE  MaintenanceInv'
<1> DEFINE present == Retired \cap StoredDigests
<1>1. /\ StoreInv /\ Tools /\ Copying /\ storeAside /\ UNCHANGED <<backup, leaseVars>>
      /\ reviewed' = reviewed /\ reviewed = StoredDigests
  BY DEF MaintenanceInv, apply, beginApply
<1>2. StoreInv' /\ StoredDigests' = StoredDigests
  BY <1>1, ToolQuiet
<1>3. /\ retirement' = [step |-> "removing", todo |-> present]
      /\ audit' = [present |-> present, removed |-> {}, completed |-> FALSE]
      /\ phase[RetireTool] = "holding" /\ present \subseteq Digests
  BY DEF apply, beginApply, NoAudit, StoredDigests
<1>4. present \subseteq StoredDigests /\ present \subseteq Retired \cap reviewed
  BY <1>1
<1> HIDE DEF present
<1>5. Copying'
  BY <1>1, <1>2 DEF Copying, leaseVars
<1>6. Tools' /\ Retiring' /\ Accounted'
  BY <1>1, <1>2, <1>3, <1>4 DEF Tools, Retiring, Accounted, leaseVars
<1>7. QED
  BY <1>2, <1>5, <1>6 DEF MaintenanceInv

\* The record closes the one gap between the store and the audit.
LEMMA RecordKeeps ==
  ASSUME MaintenanceInv, NEW d \in Digests, recordRemoval(d)
  PROVE  MaintenanceInv'
<1>1. /\ StoreInv /\ Tools /\ Copying /\ Retiring /\ Accounted
      /\ storeAside /\ UNCHANGED <<backup, leaseVars, reviewed>>
  BY DEF MaintenanceInv, recordRemoval
<1>2. StoreInv' /\ StoredDigests' = StoredDigests
  BY <1>1, ToolQuiet
<1>3. /\ retirement.step = "recording" /\ d \in retirement.todo \ StoredDigests
      /\ retirement' = [step |-> "removing", todo |-> retirement.todo \ {d}]
      /\ audit' = [present |-> audit.present, removed |-> audit.removed \cup {d},
                   completed |-> audit.completed]
  BY <1>1 DEF recordRemoval, Tools
<1>4. /\ phase[RetireTool] = "holding" /\ lock = RetireTool
      /\ retirement.todo \subseteq Retired \cap reviewed
      /\ retirement.todo = audit.present \ audit.removed /\ ~audit.completed
  BY <1>1, <1>3, MaintenanceConstants DEF Retiring, StoreInv, LeaseInv, LeaseIsHeld
<1>5. (audit.present \ StoredDigests) \ audit.removed \subseteq {d}
  BY <1>1, <1>3, <1>4 DEF Accounted
<1>6. Copying'
  BY <1>1, <1>2 DEF Copying, leaseVars
<1>7. Tools' /\ Retiring'
  BY <1>1, <1>2, <1>3, <1>4, <1>5 DEF Tools, Retiring, leaseVars
<1>8. Accounted'
  BY <1>1, <1>2, <1>3, <1>4, <1>5 DEF Accounted
<1>9. QED
  BY <1>2, <1>6, <1>7, <1>8 DEF MaintenanceInv

\* A blob goes while nobody is served, listed or copied.
LEMMA RemovalKeeps ==
  ASSUME MaintenanceInv, NEW d \in Digests, removeBlob(d)
  PROVE  /\ MaintenanceInv'
         /\ StoredDigests' = StoredDigests \ {d} /\ d \in Retired \cap reviewed
<1>1. /\ StoreInv /\ Tools /\ Copying /\ Retiring /\ Accounted
      /\ aside /\ UNCHANGED <<backup, leaseVars, reviewed, audit>>
      /\ {BackupTool, RetireTool} \subseteq Processes \ Servers /\ BackupTool # RetireTool
  BY MaintenanceConstants DEF MaintenanceInv, removeBlob
<1>2. /\ retirement.step = "removing" /\ d \in retirement.todo
      /\ retirement' = [step |-> "recording", todo |-> retirement.todo]
      /\ files' = [files EXCEPT ![d] = "absent"] /\ acked' = acked \ {d}
  BY <1>1 DEF removeBlob, Tools
<1>3. /\ phase[RetireTool] = "holding" /\ lock = RetireTool
      /\ retirement.todo \subseteq Retired \cap reviewed /\ retirement.todo \subseteq StoredDigests
      /\ retirement.todo = audit.present \ audit.removed /\ ~audit.completed
  BY <1>1, <1>2 DEF Retiring, StoreInv, LeaseInv, LeaseIsHeld
<1>4. /\ StoredDigests' = StoredDigests \ {d}
      /\ files' \in [Digests -> Files]
  BY <1>1, <1>2 DEF StoredDigests, StoreInv, Shape, Files
<1>5. StoreInv'
  <2>1. LeaseInv'
    BY <1>1, LeaseStep DEF StoreInv
  <2>2. Shape' /\ Kept'
    BY <1>1, <1>2, <1>4 DEF StoreInv, Shape, Kept, aside
  <2>3. ASSUME NEW r \in Requests
        PROVE  Alive(r)' /\ Turn(r)' /\ Knows(r)'
    <3>1. request[r].step = "idle" /\ request' = request
      BY <1>1, <1>3, NobodyServes DEF aside
    <3>2. ~request[r].promised
      BY <1>1, <3>1 DEF StoreInv, Knows
    <3>3. QED
      BY <3>1, <3>2, IdleSlot
  <2>4. QED
    BY <2>1, <2>2, <2>3 DEF StoreInv
<1>6. Copying'
  <2>1. phase[BackupTool] # "holding"
    BY <1>1, <1>3 DEF StoreInv, LeaseInv, LeaseIsHeld
  <2>2. QED
    BY <1>1, <2>1 DEF Copying
<1>7. Tools' /\ Retiring'
  BY <1>1, <1>2, <1>3 DEF Tools, Retiring, leaseVars
<1>8. Accounted'
  BY <1>1, <1>2, <1>3, <1>4 DEF Accounted
<1>9. QED
  BY <1>3, <1>2, <1>4, <1>5, <1>6, <1>7, <1>8 DEF MaintenanceInv

\* A step of the service or of a tool keeps the invariant, and what disappears
\* is what the operator reviewed.
LEMMA MaintenanceStep ==
  ASSUME MaintenanceInv, [MaintenanceNext]_maintenanceVars
  PROVE  /\ MaintenanceInv'
         /\ \A d \in Digests :
              files[d] # "absent" /\ files'[d] = "absent" => d \in Retired \cap reviewed
<1>1. CASE [Next]_vars /\ UNCHANGED toolVars
  <2>1. MaintenanceInv'
    BY <1>1, ServersKeepTools
  <2>2. [Store!StoreNext]_(Store!storeVars)
    BY <1>1, StoreStep DEF MaintenanceInv
  <2>3. StoredDigests \subseteq StoredDigests'
    BY <2>2 DEF Store!StoreNext, Store!Store, Store!Acknowledge, Store!storeVars
  <2>4. QED
    BY <2>1, <2>3 DEF StoredDigests
<1>2. CASE \/ backupAcquires \/ listStore \/ writeManifest \/ backupFails \/ backupReleases
           \/ backupCrashes \/ retireAcquires \/ plan \/ apply \/ complete \/ retireFails
           \/ retireReleases \/ retireCrashes
           \/ \E d \in Digests : copyBlob(d) \/ recordRemoval(d)
  <2>1. files' = files
    BY <1>2 DEF backupAcquires, listStore, writeManifest, backupFails, backupReleases,
       backupCrashes, copyBlob, retireAcquires, plan, apply, beginApply, complete, retireFails,
       retireReleases, retireCrashes, recordRemoval, storeAside
  <2>2. QED
    BY <1>2, <2>1, BackupKeeps, RetireLeaseKeeps, RetireEnds, ApplyKeeps, RecordKeeps
<1>3. ASSUME NEW d \in Digests, removeBlob(d)
      PROVE  /\ MaintenanceInv'
             /\ \A e \in Digests :
                  files[e] # "absent" /\ files'[e] = "absent" => e \in Retired \cap reviewed
  BY <1>3, RemovalKeeps DEF StoredDigests
<1>4. QED
  BY <1>1, <1>2, <1>3 DEF MaintenanceNext, ToolNext, maintenanceVars

\* Server, backup and retirement agree with the store in every reachable state.
THEOREM MaintenanceInvariance == MaintenanceSpec => []MaintenanceInv
<1>1. QED
  BY MaintenanceInitially, MaintenanceStep, PTL DEF MaintenanceSpec

\* backup.ts: a backup with a manifest holds exactly what the store holds, with
\* everything that was acknowledged and not retired.
THEOREM BackupSafety == MaintenanceSpec => []BackupIsComplete
<1>1. MaintenanceInv => BackupIsComplete
  BY DEF MaintenanceInv, Copying, BackupIsComplete, StoreInv, Kept
<1>2. QED
  BY <1>1, MaintenanceInvariance, PTL

\* retire.ts: what an apply removes was in the reviewed inventory and is retired
\* by the policy; nothing else ever disappears.
THEOREM RetirementSafety == MaintenanceSpec => RetirementIsReviewed
<1>1. MaintenanceInv /\ [MaintenanceNext]_maintenanceVars =>
        \A d \in Digests :
          files[d] # "absent" /\ files'[d] = "absent" => d \in Retired \cap reviewed
  BY MaintenanceStep
<1>2. QED
  BY <1>1, MaintenanceInvariance, PTL DEF MaintenanceSpec, RetirementIsReviewed

\* retire.ts: also after a crash the audit accounts for every planned removal
\* but at most one.
THEOREM AuditSafety == MaintenanceSpec => []AuditAccounts
<1>1. ASSUME MaintenanceInv PROVE AuditAccounts
  <2> DEFINE unrecorded == (audit.present \ StoredDigests) \ audit.removed
  <2>1. ASSUME lock = RetireTool PROVE Cardinality(unrecorded) =< 1
    <3>1. PICK d : unrecorded \subseteq {d}
      BY <1>1, <2>1 DEF MaintenanceInv, Accounted
    <3>2. unrecorded = {} \/ unrecorded = {d}
      BY <3>1
    <3> HIDE DEF unrecorded
    <3>3. Cardinality({}) = 0 /\ Cardinality({d}) = 1
      BY FS_EmptySet, FS_Singleton, Zenon
    <3>4. QED
      BY <3>2, <3>3
  <2>2. QED
    BY <1>1, <2>1 DEF MaintenanceInv, Accounted, AuditAccounts
<1>2. QED
  BY <1>1, MaintenanceInvariance, PTL

\* Retirement and backup do not make the server lose what it acknowledged.
THEOREM MaintainedSafety == MaintenanceSpec => [](OneWriter /\ AcknowledgedIsFound)
<1>1. MaintenanceInv => OneWriter /\ AcknowledgedIsFound
  BY StoreInvImplies DEF MaintenanceInv
<1>2. QED
  BY <1>1, MaintenanceInvariance, PTL
=============================================================================
