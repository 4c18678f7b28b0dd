------------------------------ MODULE Cipherstore ----------------------------
(***************************************************************************)
(* The cipherstore service on its filesystem backend: the entrypoint that   *)
(* takes the directory lease and serves (cipherstore/src/index.ts), the     *)
(* HTTP handlers (server.ts), the per-directory write queue and the quota   *)
(* scan (capacity.ts) and the publication of a blob (filesystem-storage.ts). *)
(*                                                                         *)
(* A request slot is one client connection, which carries requests one      *)
(* after the other.  A handler runs until it answers, whether or not its    *)
(* connection is still there.  Each await between two effects ends a step.  *)
(*                                                                         *)
(* An upload's body hashes to the digest it is stored under (the handler    *)
(* refuses any other), so bytes are identified with their digest.  A file   *)
(* holds those bytes, or is damaged from outside.  Temporary files left by  *)
(* a crash are not modelled: no scan, read or copy matches their names.     *)
(***************************************************************************)
EXTENDS DirectoryLease, Naturals, FiniteSets, Sequences, FiniteSetsExt

CONSTANTS
    Servers,                \* the processes that run the entrypoint
    Digests, NoDigest, Requests, Probe,
    Size,                   \* bytes of each ciphertext
    MaxBytes, MaxBlobs,     \* CIPHERSTORE_MAX_STORED_BYTES / _BLOBS
    MaxConcurrentUploads,
    MaxRequestsPerSocket,
    Policies                \* the retirement policies a server may start with

ASSUME CipherstoreConstants ==
    /\ Servers \subseteq Processes
    /\ NoDigest \notin Digests
    /\ Probe \notin Requests
    /\ Size \in [Digests -> Nat \ {0}]
    /\ MaxBytes \in Nat /\ MaxBlobs \in Nat
    /\ MaxConcurrentUploads \in Nat \ {0}
    /\ MaxRequestsPerSocket \in Nat \ {0}
    /\ Policies \subseteq SUBSET Digests

VARIABLES
    files,          \* digest -> what `<digest>.ciphertext.json` holds
    stage,          \* entrypoint of each process that holds the lease
    policy,         \* the retirement policy it read when it started
    queue,          \* withDirectoryWrite: whose turn it is, then who waits
    activeUploads,
    request,        \* what each connection's handler is doing
    acked           \* digests a PUT was answered 200 or 201 for

vars == <<lock, owner, phase, files, stage, policy, queue, activeUploads, request, acked>>

Files == {"absent", "intact", "damaged"}
Stages == {"starting", "open", "closing", "draining"}
Steps == {"idle", "receiving", "queued", "writing", "linking", "cleaning", "reading", "awaiting"}
UploadSteps == {"receiving", "queued", "writing", "linking", "cleaning"}
Acknowledgements == {"stored", "present"}       \* 201 and 200 to a PUT

\* A slot without a connection or a handler.
NoRequest == [step |-> "idle", server |-> Nobody, digest |-> NoDigest,
              connected |-> FALSE, sent |-> 0, promised |-> FALSE]

Init ==
    /\ LeaseInit
    /\ files = [d \in Digests |-> "absent"]
    /\ stage = [p \in Servers |-> "starting"]
    /\ policy = [p \in Servers |-> {}]
    /\ queue = [p \in Servers |-> <<>>]
    /\ activeUploads = [p \in Servers |-> 0]
    /\ request = [r \in Requests |-> NoRequest]
    /\ acked = {}

StoredDigests == {d \in Digests : files[d] # "absent"}
Store == INSTANCE ImmutableStore WITH stored <- StoredDigests
StoredBytes == Store!Bytes(StoredDigests)
Handlers(p) == {r \in Requests : request[r].step # "idle" /\ request[r].server = p}
Uploads(p) == {r \in Handlers(p) : request[r].step \in UploadSteps}
Connections(p) == {r \in Requests : request[r].connected /\ request[r].server = p}

\* The scan refuses when the bytes already there exceed MaxBytes - incoming.
checkCapacity_IgnoresIncoming(incoming) ==
    /\ StoredBytes =< MaxBytes
    /\ Cardinality(StoredDigests) < MaxBlobs

checkCapacity(incoming) ==
    /\ StoredBytes + incoming =< MaxBytes
    /\ Cardinality(StoredDigests) < MaxBlobs

-----------------------------------------------------------------------------
(* The entrypoint.                                                         *)

serverVars == <<files, queue, activeUploads, request, acked>>

acquireLease(p) == makeLock(p) /\ UNCHANGED <<serverVars, stage, policy>>

recordLease(p) == writeOwner(p) /\ UNCHANGED <<serverVars, stage, policy>>

recordLeaseFails(p) == writeOwnerFails(p) /\ UNCHANGED <<serverVars, stage, policy>>

\* What the process held in memory about itself.
forget(p) ==
    /\ stage' = [stage EXCEPT ![p] = "starting"]
    /\ policy' = [policy EXCEPT ![p] = {}]

\* The restore marker and the backend were checked and the port is bound.
listen(p, retired) ==
    /\ phase[p] = "holding" /\ stage[p] = "starting"
    /\ stage' = [stage EXCEPT ![p] = "open"]
    /\ policy' = [policy EXCEPT ![p] = retired]
    /\ UNCHANGED <<leaseVars, serverVars>>

\* A check or listen threw: the catch block releases the lease and rethrows.
refuseToStart(p) ==
    /\ stage[p] = "starting"
    /\ removeOwner(p)
    /\ UNCHANGED <<serverVars, stage, policy>>

\* SIGTERM: server.close() ends idle connections and takes no new ones.
stop(p) ==
    /\ phase[p] = "holding" /\ stage[p] = "open"
    /\ stage' = [stage EXCEPT ![p] = "closing"]
    /\ request' = [r \in Requests |->
           IF r \in Connections(p) \ Handlers(p) THEN NoRequest ELSE request[r]]
    /\ UNCHANGED <<leaseVars, files, policy, queue, activeUploads, acked>>

\* close() calls back once the last connection is gone.
closed(p) ==
    /\ phase[p] = "holding" /\ stage[p] = "closing"
    /\ Connections(p) = {}
    /\ stage' = [stage EXCEPT ![p] = "draining"]
    /\ UNCHANGED <<leaseVars, serverVars, policy>>

releaseLease_WithoutDrain(p) ==
    /\ stage[p] = "draining"
    /\ removeOwner(p)
    /\ UNCHANGED <<serverVars, stage, policy>>

\* drain() waited for every handler that outlived its connection.
releaseLease(p) ==
    /\ stage[p] = "draining"
    /\ Handlers(p) = {}
    /\ removeOwner(p)
    /\ UNCHANGED <<serverVars, stage, policy>>

finishRelease(p) ==
    /\ removeLock(p)
    /\ forget(p)
    /\ UNCHANGED serverVars

\* Memory, queue and connections are gone; files and the lock stay.
crashServer(p) ==
    /\ crash(p)
    /\ queue' = [queue EXCEPT ![p] = <<>>]
    /\ activeUploads' = [activeUploads EXCEPT ![p] = 0]
    /\ request' = [r \in Requests |-> IF request[r].server = p THEN NoRequest ELSE request[r]]
    /\ forget(p)
    /\ UNCHANGED <<files, acked>>

clearLock == clearAbandonedLock /\ UNCHANGED <<serverVars, stage, policy>>

-----------------------------------------------------------------------------
(* Requests.                                                               *)

\* A new connection, or one kept alive: it may still send while close() waits.
canSend(p, r) ==
    /\ phase[p] = "holding"
    /\ request[r].step = "idle"
    /\ IF request[r].connected
       THEN /\ request[r].server = p /\ stage[p] \in {"open", "closing"}
            /\ request[r].sent < MaxRequestsPerSocket
       ELSE stage[p] = "open"

\* The handler's record at its first await.
begin(p, r, d, step) ==
    request' = [request EXCEPT ![r] =
        [step |-> step, server |-> p, digest |-> d, connected |-> TRUE,
         sent |-> request[r].sent + 1, promised |-> d \in acked \ policy[p]]]

\* A slot once its handler has answered: the connection stays for another
\* request unless it is gone or this was its last one.
answered(q) ==
    IF q.connected /\ q.sent < MaxRequestsPerSocket
    THEN [NoRequest EXCEPT !.server = q.server, !.connected = TRUE, !.sent = q.sent]
    ELSE NoRequest

\* An answer sent before anything is awaited.
answerAtOnce(p, r) ==
    request' = [request EXCEPT ![r] =
        answered([@ EXCEPT !.server = p, !.connected = TRUE, !.sent = request[r].sent + 1])]

\* The handler answers: `finally` takes it out of activeUploads and the write
\* queue.  Of the answers only acknowledgements are remembered.
finish(r, answer) ==
    LET p == request[r].server
    IN  /\ request' = [request EXCEPT ![r] = answered(@)]
        /\ activeUploads' = [activeUploads EXCEPT ![p] = IF r \in Uploads(p) THEN @ - 1 ELSE @]
        /\ queue' = [queue EXCEPT ![p] = IF @ # <<>> /\ Head(@) = r THEN Tail(@) ELSE @]
        /\ acked' = IF answer \in Acknowledgements THEN acked \cup {request[r].digest} ELSE acked

advance(r, step) == request' = [request EXCEPT ![r].step = step]

startPut_LateLimit(p, r, d) ==
    /\ canSend(p, r)
    /\ IF activeUploads[p] > MaxConcurrentUploads \/ d \in policy[p]
       THEN answerAtOnce(p, r) /\ UNCHANGED activeUploads
       ELSE /\ begin(p, r, d, "receiving")
            /\ activeUploads' = [activeUploads EXCEPT ![p] = @ + 1]
    /\ UNCHANGED <<leaseVars, files, stage, policy, queue, acked>>

startPut_LeaksRetired(p, r, d) ==
    /\ canSend(p, r)
    /\ IF activeUploads[p] >= MaxConcurrentUploads
       THEN answerAtOnce(p, r) /\ UNCHANGED activeUploads
       ELSE /\ IF d \in policy[p] THEN answerAtOnce(p, r) ELSE begin(p, r, d, "receiving")
            /\ activeUploads' = [activeUploads EXCEPT ![p] = @ + 1]
    /\ UNCHANGED <<leaseVars, files, stage, policy, queue, acked>>

\* 503 when all slots are taken.  A retired digest answers 410 before anything
\* is awaited, so the slot it takes is given back within this step.
startPut(p, r, d) ==
    /\ canSend(p, r)
    /\ IF activeUploads[p] >= MaxConcurrentUploads \/ d \in policy[p]
       THEN answerAtOnce(p, r) /\ UNCHANGED activeUploads
       ELSE /\ begin(p, r, d, "receiving")
            /\ activeUploads' = [activeUploads EXCEPT ![p] = @ + 1]
    /\ UNCHANGED <<leaseVars, files, stage, policy, queue, acked>>

startGet(p, r, d) ==
    /\ canSend(p, r)
    /\ IF d \in policy[p] THEN answerAtOnce(p, r) ELSE begin(p, r, d, "reading")
    /\ UNCHANGED <<leaseVars, files, stage, policy, queue, activeUploads, acked>>

\* /readyz and /metrics share one probe, which takes a turn in the write queue.
startReady(p, r) ==
    /\ canSend(p, r)
    /\ begin(p, r, NoDigest, "awaiting")
    /\ queue' = [queue EXCEPT ![p] =
           IF \E i \in DOMAIN @ : @[i] = Probe THEN @ ELSE Append(@, Probe)]
    /\ UNCHANGED <<leaseVars, files, stage, policy, activeUploads, acked>>

\* The client hangs up, or a timeout destroys the socket; the handler lives on.
disconnect(r) ==
    /\ request[r].connected
    /\ request' = [request EXCEPT ![r] =
           IF @.step = "idle" THEN NoRequest ELSE [@ EXCEPT !.connected = FALSE]]
    /\ UNCHANGED <<leaseVars, files, stage, policy, queue, activeUploads, acked>>

-----------------------------------------------------------------------------
(* The handlers' steps.                                                    *)

quiet == UNCHANGED <<leaseVars, stage, policy>>
keepsQueue == UNCHANGED <<files, queue, activeUploads, acked>>
hasTurn(r, step) ==
    LET p == request[r].server
    IN  request[r].step = step /\ queue[p] # <<>> /\ Head(queue[p]) = r

\* prepare(), readLimited, validateEnvelope and the digest: a good upload joins
\* the write queue, a bad or broken one is answered.
receive(r) ==
    LET p == request[r].server
    IN  /\ request[r].step = "receiving"
        /\ \/ /\ request[r].connected
              /\ advance(r, "queued")
              /\ queue' = [queue EXCEPT ![p] = Append(@, r)]
              /\ UNCHANGED <<files, activeUploads, acked>>
           \/ \E answer \in {"refused", "failed"} : finish(r, answer) /\ UNCHANGED files
        /\ quiet

\* How a file that is already there answers an upload of its digest.
compared(d) == IF files[d] = "intact" THEN "present" ELSE "conflict"

\* put: the existing file decides, else the quota, else the blob is written.
inspect(r) ==
    LET d == request[r].digest
    IN  /\ hasTurn(r, "queued")
        /\ \/ /\ files[d] = "absent" /\ checkCapacity(Size[d])
              /\ advance(r, "writing") /\ keepsQueue
           \/ /\ files[d] = "absent" /\ ~checkCapacity(Size[d])
              /\ finish(r, "full") /\ UNCHANGED files
           \/ files[d] # "absent" /\ finish(r, compared(d)) /\ UNCHANGED files
           \/ finish(r, "failed") /\ UNCHANGED files
        /\ quiet

\* storeImmutable: a temporary file is written and flushed (a disk that fills
\* up answers as an exceeded quota), then linked, then removed.
write(r) ==
    /\ hasTurn(r, "writing")
    /\ \/ advance(r, "linking") /\ keepsQueue
       \/ \E answer \in {"full", "failed"} : finish(r, answer) /\ UNCHANGED files
    /\ quiet

link_IgnoresFailure(r) ==
    LET d == request[r].digest
    IN  /\ hasTurn(r, "linking")
        /\ \/ /\ files' = [files EXCEPT ![d] = IF @ = "absent" THEN "intact" ELSE @]
              /\ advance(r, "cleaning") /\ UNCHANGED <<queue, activeUploads, acked>>
           \/ advance(r, "cleaning") /\ keepsQueue
        /\ quiet

link(r) ==
    LET d == request[r].digest
    IN  /\ hasTurn(r, "linking")
        /\ \/ /\ files' = [files EXCEPT ![d] = IF @ = "absent" THEN "intact" ELSE @]
              /\ advance(r, "cleaning") /\ UNCHANGED <<queue, activeUploads, acked>>
           \/ finish(r, "failed") /\ UNCHANGED files
        /\ quiet

\* The blob is published; a temporary that cannot be removed still answers 500.
clean(r) ==
    /\ hasTurn(r, "cleaning")
    /\ \E answer \in {"stored", "failed"} : finish(r, answer)
    /\ UNCHANGED files /\ quiet

\* GET: the bytes are hashed again before they are served.
read(r) ==
    LET d == request[r].digest
    IN  /\ request[r].step = "reading"
        /\ \/ files[d] = "absent" /\ finish(r, "missing")
           \/ files[d] = "intact" /\ finish(r, "bytes")
           \/ finish(r, "failed")
        /\ UNCHANGED files /\ quiet

probe_KeepsTurn(p) ==
    /\ queue[p] # <<>> /\ Head(queue[p]) = Probe
    /\ request' = [r \in Requests |->
           IF request[r].server = p /\ request[r].step = "awaiting"
           THEN answered(request[r]) ELSE request[r]]
    /\ UNCHANGED <<files, queue, activeUploads, acked>> /\ quiet

probe_AnswersOne(p) ==
    /\ queue[p] # <<>> /\ Head(queue[p]) = Probe
    /\ LET r == CHOOSE q \in Handlers(p) : request[q].step = "awaiting"
       IN  request' = [request EXCEPT ![r] = answered(@)]
    /\ queue' = [queue EXCEPT ![p] = Tail(@)]
    /\ UNCHANGED <<files, activeUploads, acked>> /\ quiet

\* The probe's turn answers every request that waits for it, 200 or 503: it wants
\* room for one byte, then stores, reads and removes a file that no scan counts.
probe(p) ==
    /\ queue[p] # <<>> /\ Head(queue[p]) = Probe
    /\ request' = [r \in Requests |->
           IF request[r].server = p /\ request[r].step = "awaiting"
           THEN answered(request[r]) ELSE request[r]]
    /\ queue' = [queue EXCEPT ![p] = Tail(@)]
    /\ UNCHANGED <<files, activeUploads, acked>> /\ quiet

\* Bytes on disk may rot; the file stays.
damage(d) ==
    /\ files[d] = "intact"
    /\ files' = [files EXCEPT ![d] = "damaged"]
    /\ UNCHANGED <<leaseVars, stage, policy, queue, activeUploads, request, acked>>

-----------------------------------------------------------------------------
handle(r) == receive(r) \/ inspect(r) \/ write(r) \/ link(r) \/ clean(r) \/ read(r)

shutDown(p) == closed(p) \/ releaseLease(p) \/ finishRelease(p)

startUp(p) ==
    \/ recordLease(p) \/ recordLeaseFails(p) \/ refuseToStart(p)
    \/ \E retired \in Policies : listen(p, retired)

Next ==
    \/ \E p \in Servers :
        \/ acquireLease(p) \/ startUp(p) \/ stop(p) \/ shutDown(p) \/ crashServer(p) \/ probe(p)
        \/ \E r \in Requests :
            \/ startReady(p, r)
            \/ \E d \in Digests : startPut(p, r, d) \/ startGet(p, r, d)
    \/ \E r \in Requests : handle(r) \/ disconnect(r)
    \/ \E d \in Digests : damage(d)
    \/ clearLock

Spec == Init /\ [][Next]_vars

\* A handler's awaits all settle: file-system calls return, and requestTimeout
\* ends a body that does not arrive.  After SIGTERM the server's socket timeout
\* and keepAliveTimeout end every connection.  Nothing else must happen.
Fairness ==
    /\ \A r \in Requests : WF_vars(handle(r))
    /\ \A r \in Requests : WF_vars(disconnect(r) /\ stage[request[r].server] = "closing")
    /\ \A p \in Servers : WF_vars(probe(p)) /\ WF_vars(startUp(p)) /\ WF_vars(shutDown(p))

-----------------------------------------------------------------------------
\* Types, and the bound on concurrent uploads that server.ts enforces.
TypeOK ==
    /\ LeaseTypeOK
    /\ files \in [Digests -> Files]
    /\ stage \in [Servers -> Stages]
    /\ policy \in [Servers -> SUBSET Digests]
    /\ queue \in [Servers -> Seq(Requests \cup {Probe})]
    /\ activeUploads \in [Servers -> 0..MaxConcurrentUploads]
    /\ request \in [Requests -> [step : Steps, server : Servers \cup {Nobody},
                        digest : Digests \cup {NoDigest}, connected : BOOLEAN,
                        sent : 0..MaxRequestsPerSocket, promised : BOOLEAN]]
    /\ acked \subseteq Digests

\* Only one handler at a time, over all processes, is between the quota check
\* and the answer of an upload, and its process holds the lease then, even when
\* the client has hung up and SIGTERM has closed the server (drain).
InStorage == {r \in Requests : request[r].step \in {"queued", "writing", "linking", "cleaning"}}

OneWriter ==
    /\ \A r \in InStorage :
        LET p == request[r].server
        IN  phase[p] = "holding" /\ lock = p /\ owner = p
    /\ \A r, s \in Requests :
        /\ request[r].step \in {"writing", "linking", "cleaning"}
        /\ request[s].step \in {"writing", "linking", "cleaning"}
        => r = s

\* Slots are neither leaked nor given back twice: the counter that turns uploads
\* away is the number of upload handlers, and every handler that waits for the
\* directory is in its queue once, with at most one readiness probe.
SlotsAreReturned ==
    \A p \in Servers :
        /\ activeUploads[p] = Cardinality(Uploads(p))
        /\ \A r \in Requests :
            Cardinality({i \in DOMAIN queue[p] : queue[p][i] = r})
                = IF r \in InStorage /\ request[r].server = p THEN 1 ELSE 0
        /\ Cardinality({i \in DOMAIN queue[p] : queue[p][i] = Probe})
                = IF \E r \in Handlers(p) : request[r].step = "awaiting" THEN 1 ELSE 0

\* A GET that starts after some PUT of its digest was acknowledged, by this
\* server or an earlier one, finds the file: it never answers 404.
AcknowledgedIsFound ==
    \A r \in Requests :
        request[r].step = "reading" /\ request[r].promised => files[request[r].digest] # "absent"

\* The service is an ImmutableStore: what is stored is never replaced or lost,
\* the quota is never exceeded, and what is acknowledged is stored, across
\* crashes, failed writes, disconnects and changes of server.
ImplementsImmutableStore == Store!StoreSpec

\* Every request is answered, or its server dies: no handler keeps its turn in
\* the write queue after a failure, and no waiter is forgotten.
RequestsAreAnswered ==
    \A r \in Requests : request[r].step # "idle" ~> request[r].step = "idle"

\* A server told to stop releases the directory, or dies: it waits neither for
\* a client that keeps its connection nor for a handler that never ends.
StopReleasesLease ==
    \A p \in Servers : stage[p] = "closing" /\ phase[p] = "holding" ~> phase[p] = "exited"
=============================================================================
