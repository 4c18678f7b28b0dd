-------------------------- MODULE RoleSessionProofs --------------------------
(***************************************************************************)
(* Theorems about role sessions, for any number of sessions, providers,     *)
(* stores and reports, and for every value of the contract's constants.     *)
(*                                                                         *)
(* SessionInv has four layers.  Busy: whose call is where, in its session,  *)
(* in its provider's queue and at the network; the queue lets one call at a *)
(* time past it, so Installed can say what the provider holds while a call  *)
(* is proved: the state of that call, or one that a join has put in its     *)
(* place, which no circuit that needs evidence accepts.  Commanded: every    *)
(* command on its way is about a disclosure of its session's own vault, and a*)
(* report's ciphertext is at every store before its submission is called.   *)
(* The ledger then keeps what the contract's own theorems say, which are    *)
(* cited here, and RecordsAreWhole follows for every record it holds.       *)
(***************************************************************************)
EXTENDS RoleSession, SequenceTheorems, TLAPS

ContractProofs == INSTANCE VulnSealContractProofs

Providers == {providerOf[s] : s \in Sessions}
Steps == {"none", "queued", "installed", "checked", "sent", "final"}
AtWork == {"installed", "checked", "sent", "final"}

at(s) == call[s].step

\* The shape of the state.
Shape ==
    /\ queue \in [Providers -> Seq(Sessions)]
    /\ DOMAIN installed = Providers
    /\ DOMAIN call = Sessions
    /\ \A s \in Sessions :
          /\ at(s) \in Steps
          /\ call[s] = [command |-> call[s].command, step |-> at(s)]
          /\ at(s) = "none" => call[s] = NoCall
    /\ DOMAIN doing = Sessions /\ DOMAIN job = Sessions
    /\ DOMAIN vault = Sessions /\ DOMAIN view = Sessions
    /\ DOMAIN stored = Stores /\ DOMAIN retired = Stores

\* A session has a call exactly while it is in its provider's queue, once; only
\* the call at the head is past the queue.
Queued ==
    /\ \A s \in Sessions :
          at(s) # "none" => \E i \in 1..Len(queue[providerOf[s]]) : queue[providerOf[s]][i] = s
    /\ \A p \in Providers : \A i \in 1..Len(queue[p]) :
          /\ providerOf[queue[p][i]] = p
          /\ at(queue[p][i]) # "none"
          /\ i > 1 => at(queue[p][i]) = "queued"
          /\ \A j \in 1..Len(queue[p]) : queue[p][i] = queue[p][j] => i = j

\* Who may have a transaction in flight: a call that waits for it, or a session
\* that was lost when its call gave up.
MayHaveSent(s) == at(s) = "sent" \/ (at(s) = "none" /\ doing[s] = "lost")

\* A transaction in flight is the only one of its session.
InFlight ==
    /\ \A tx \in pool : tx.by \in Sessions /\ MayHaveSent(tx.by)
    /\ \A t, u \in pool : t.by = u.by => t = u

\* Only a session that executes or is lost has a call.
Occupied == \A s \in Sessions : doing[s] \notin {"executing", "lost"} => at(s) = "none"

Busy == Shape /\ Queued /\ InFlight /\ Occupied

\* What a call that holds the provider proves with.
Witnessed(s, c, w) == w = privateState(s, c) \/ \E t \in Sessions : w = joinState(t)

Installed ==
    /\ \A s \in Sessions : at(s) \in {"installed", "checked"} =>
          Witnessed(s, call[s].command, installed[providerOf[s]])
    /\ \A tx \in pool : Witnessed(tx.by, tx.command, tx.witnesses)

\* The inputs of a button's fields.
ArgumentFits(c) ==
    /\ c.kind = "acceptReport" => c.arg[1] \in Uint8Inputs /\ c.arg[2] \in Decisions
    /\ c.kind = "rejectReport" => c.arg \in Decisions
    /\ c.kind = "anchorPatch" => c.arg \in PatchDigests
    /\ c.kind = "submitRetest" => c.arg[2] \in EvidenceDigests /\ c.arg[3] \in BOOLEAN
    /\ c.kind = "authorizePayout" => c.arg \in Uint8Inputs

\* A command of session s: a researcher's is about a report of the vault.
CommandOf(s, c) ==
    /\ c.kind \in kinds /\ roles[c.kind] = roleOf(s)
    /\ roleOf(s) = "researcher" => \E d \in Prepared[s] :
          /\ c.id = d.id /\ c.report = d.report
          /\ c.kind = "submitReport" => c.arg = d.cipher
    /\ ArgumentFits(c)

StoredEverywhere(cipher) == \A st \in Stores : cipher \in stored[st] \cup retired[st]

\* A command on its way, its report uploaded.
Ready(s, c) == CommandOf(s, c) /\ (c.kind = "submitReport" => StoredEverywhere(c.arg))

SessionCommanded(s) ==
    /\ roleOf(s) = "researcher" => vault[s] = Prepared[s]
    /\ doing[s] = "accepting" => roleOf(s) = "vendor"
    /\ view[s] # Nothing => view[s].disclosure \in vault[s]
    /\ doing[s] = "uploading" => job[s].after \in {"idle", "offline"}
    /\ doing[s] = "uploading" /\ job[s].then # Nothing =>
          /\ CommandOf(s, job[s].then) /\ job[s].then.kind = "submitReport"
          /\ job[s].cipher = job[s].then.arg
    /\ at(s) # "none" => Ready(s, call[s].command)

Commanded ==
    /\ \A s \in Sessions : SessionCommanded(s)
    /\ \A tx \in pool : Ready(tx.by, tx.command)

SessionInv ==
    /\ Busy /\ Installed /\ Commanded
    /\ ContractProofs!IInv
    /\ RecordsAreWhole /\ LedgerReportsAreStored

-----------------------------------------------------------------------------
(* The queue of a provider.                                                *)

\* What is left when the first has gone.
LEMMA TailOf ==
  ASSUME NEW S, NEW q \in Seq(S), q # <<>>
  PROVE  /\ Tail(q) \in Seq(S)
         /\ \A i \in 1..Len(Tail(q)) : i + 1 \in 1..Len(q) /\ Tail(q)[i] = q[i + 1]
         /\ \A i \in 1..Len(q) : i # 1 => i - 1 \in 1..Len(Tail(q)) /\ Tail(q)[i - 1] = q[i]
<1>1. PICK n : n = Len(q)
  OBVIOUS
<1>2. n \in Nat /\ n # 0 /\ Tail(q) \in Seq(S) /\ Len(Tail(q)) = n - 1
  BY <1>1
<1>3. \A i \in 1..(n - 1) : Tail(q)[i] = q[i + 1]
  BY <1>1, <1>2
<1>4. \A i \in 1..(n - 1) : i + 1 \in 1..n
  BY <1>2
<1>5. \A i \in 1..n : i # 1 => i - 1 \in 1..(n - 1) /\ (i - 1) + 1 = i
  BY <1>2
<1>6. QED
  BY <1>1, <1>2, <1>3, <1>4, <1>5

\* What is there when one more waits.
LEMMA AppendOf ==
  ASSUME NEW S, NEW q \in Seq(S), NEW x \in S
  PROVE  /\ Append(q, x) \in Seq(S)
         /\ Len(Append(q, x)) \in 1..Len(Append(q, x))
         /\ Append(q, x)[Len(Append(q, x))] = x
         /\ \A i \in 1..Len(q) : i \in 1..Len(Append(q, x)) /\ Append(q, x)[i] = q[i]
         /\ \A i \in 1..Len(Append(q, x)) : i \in 1..Len(q) \/ i = Len(Append(q, x))
         /\ Len(Append(q, x)) > 1 \/ Len(q) = 0
  OBVIOUS

\* A call that is past the queue is at its head.
LEMMA AtHead ==
  ASSUME Shape, Queued, NEW s \in Sessions, at(s) \in AtWork
  PROVE  /\ providerOf[s] \in Providers
         /\ queue[providerOf[s]] \in Seq(Sessions)
         /\ queue[providerOf[s]] # <<>>
         /\ 1 \in 1..Len(queue[providerOf[s]]) /\ queue[providerOf[s]][1] = s
<1>1. providerOf[s] \in Providers
  BY DEF Providers
<1>2. queue[providerOf[s]] \in Seq(Sessions)
  BY <1>1 DEF Shape
<1>3. PICK i \in 1..Len(queue[providerOf[s]]) : queue[providerOf[s]][i] = s
  BY DEF Queued, AtWork
<1>4. ~ (i > 1)
  BY <1>1, <1>3 DEF Queued, AtWork
<1>5. i = 1
  BY <1>2, <1>3, <1>4
<1>6. QED
  BY <1>1, <1>2, <1>3, <1>5

-----------------------------------------------------------------------------
(* Busy, by what a step does to calls: nothing, one more in the queue, one  *)
(* further, one over.                                                      *)

\* What is still at the network is of sessions that still may have sent it.
LEMMA StillInFlight ==
  ASSUME \A t, u \in pool' : t.by = u.by => t = u,
         \A tx \in pool' : tx.by \in Sessions,
         \A s \in Sessions : MayHaveSent(s)' \/ \A tx \in pool' : tx.by # s
  PROVE  InFlight'
<1>1. ASSUME NEW tx \in pool'
      PROVE  call'[tx.by].step = "sent" \/ (call'[tx.by].step = "none" /\ doing'[tx.by] = "lost")
  <2>1. PICK s \in Sessions : s = tx.by
    BY <1>1
  <2>2. MayHaveSent(s)'
    BY <1>1, <2>1
  <2>3. QED
    BY <2>1, <2>2 DEF MayHaveSent, at
<1>2. QED
  BY <1>1 DEF InFlight, MayHaveSent, at

\* A step that leaves the calls alone, and lost sessions lost, and makes no busy
\* session usable.
LEMMA CallsAlone ==
  ASSUME Busy, Shape', UNCHANGED <<call, queue, pool>>,
         \A s \in Sessions : doing'[s] \notin {"executing", "lost"} => doing[s] \notin {"executing", "lost"},
         \A s \in Sessions : doing[s] = "lost" => doing'[s] = "lost"
  PROVE  Busy'
<1>1. \A s \in Sessions : at(s)' = at(s)
  BY DEF at
<1>2. Queued'
  BY <1>1 DEF Busy, Queued, Shape, at
<1>3. InFlight'
  <2>1. \A s \in Sessions : MayHaveSent(s) => MayHaveSent(s)'
    BY <1>1 DEF MayHaveSent
  <2>2. QED
    BY <2>1, StillInFlight DEF Busy, InFlight
<1>4. Occupied'
  BY <1>1 DEF Busy, Occupied, at
<1>5. QED
  BY <1>2, <1>3, <1>4 DEF Busy

\* The steps of the calls after one of them has moved.
LEMMA CallMoved ==
  ASSUME Shape, NEW s \in Sessions, NEW c, NEW step \in Steps,
         call' = [call EXCEPT ![s] = [command |-> c, step |-> step]],
         step = "none" => c = Nothing
  PROVE  /\ DOMAIN call' = Sessions
         /\ at(s)' = step /\ call'[s].command = c
         /\ \A t \in Sessions : t # s => call'[t] = call[t] /\ at(t)' = at(t)
         /\ \A t \in Sessions :
               /\ at(t)' \in Steps
               /\ call'[t] = [command |-> call'[t].command, step |-> at(t)']
               /\ at(t)' = "none" => call'[t] = NoCall
<1>1. DOMAIN call' = Sessions /\ call'[s] = [command |-> c, step |-> step]
  BY DEF Shape
<1>2. at(s)' = step /\ call'[s].command = c
  BY <1>1 DEF at
<1>3. \A t \in Sessions : t # s => call'[t] = call[t] /\ at(t)' = at(t)
  BY DEF Shape, at
<1>4. step = "none" => call'[s] = NoCall
  BY <1>1 DEF NoCall
<1>5. QED
  BY <1>1, <1>2, <1>3, <1>4 DEF Shape, at

\* One more call waits, of a session that had none.
LEMMA CallEnqueued ==
  ASSUME Busy, Shape', NEW s \in Sessions, NEW c, at(s) = "none", doing[s] # "lost",
         enqueue(s, c), UNCHANGED pool,
         doing' = [doing EXCEPT ![s] = "executing"]
  PROVE  Busy'
<1> DEFINE p == providerOf[s]
<1>1. p \in Providers
  BY DEF Providers
<1>2. call' = [call EXCEPT ![s] = [command |-> c, step |-> "queued"]]
  BY DEF enqueue
<1>3. /\ at(s)' = "queued"
      /\ \A t \in Sessions : t # s => at(t)' = at(t)
  BY <1>2, CallMoved DEF Busy, Steps
<1>4. PICK q \in Seq(Sessions) : q = queue[p]
  BY <1>1 DEF Busy, Shape
<1>5. queue' = [queue EXCEPT ![p] = Append(q, s)]
  BY <1>4 DEF enqueue
<1>6. PICK r : r = Append(q, s)
  OBVIOUS
<1>7. /\ r \in Seq(Sessions) /\ Len(r) \in 1..Len(r) /\ r[Len(r)] = s
      /\ \A i \in 1..Len(q) : i \in 1..Len(r) /\ r[i] = q[i]
      /\ \A i \in 1..Len(r) : i \in 1..Len(q) \/ i = Len(r)
  BY <1>4, <1>6, AppendOf
<1>8. \A o \in Providers : queue'[o] = IF o = p THEN r ELSE queue[o]
  BY <1>1, <1>5, <1>6 DEF Busy, Shape
<1>9. \A i \in 1..Len(q) : q[i] # s
  BY <1>1, <1>4 DEF Busy, Queued
<1>10. Queued'
  <2> HIDE DEF p
  <2>1. ASSUME NEW t \in Sessions, at(t)' # "none"
        PROVE  \E i \in 1..Len(queue'[providerOf[t]]) : queue'[providerOf[t]][i] = t
    <3>1. CASE t = s
      BY <1>1, <1>7, <1>8, <3>1 DEF p
    <3>2. CASE t # s
      <4>1. PICK i \in 1..Len(queue[providerOf[t]]) : queue[providerOf[t]][i] = t
        BY <1>3, <2>1, <3>2 DEF Busy, Queued
      <4>2. providerOf[t] \in Providers
        BY DEF Providers
      <4>3. CASE providerOf[t] = p
        BY <1>4, <1>7, <1>8, <4>1, <4>2, <4>3
      <4>4. CASE providerOf[t] # p
        BY <1>8, <4>1, <4>2, <4>4
      <4>5. QED
        BY <4>3, <4>4
    <3>3. QED
      BY <3>1, <3>2
  <2>2. ASSUME NEW o \in Providers, NEW i \in 1..Len(queue'[o])
        PROVE  /\ providerOf[queue'[o][i]] = o
               /\ call'[queue'[o][i]].step # "none"
               /\ i > 1 => call'[queue'[o][i]].step = "queued"
               /\ \A j \in 1..Len(queue'[o]) : queue'[o][i] = queue'[o][j] => i = j
    <3>1. CASE o # p
      <4>1. queue'[o] = queue[o]
        BY <1>8, <3>1
      <4>2. \A j \in 1..Len(queue[o]) : queue[o][j] \in Sessions /\ queue[o][j] # s
        <5>1. queue[o] \in Seq(Sessions)
          BY DEF Busy, Shape
        <5>2. \A j \in 1..Len(queue[o]) : queue[o][j] \in Sessions
          BY <5>1
        <5>3. \A j \in 1..Len(queue[o]) : queue[o][j] # s
          BY DEF Busy, Queued
        <5>4. QED
          BY <5>2, <5>3
      <4>3. QED
        BY <1>3, <4>1, <4>2 DEF Busy, Queued, at
    <3>2. CASE o = p
      <4>1. \A j \in 1..Len(q) : /\ q[j] \in Sessions /\ q[j] # s /\ providerOf[q[j]] = p
                                 /\ at(q[j]) # "none"
                                 /\ j > 1 => at(q[j]) = "queued"
                                 /\ \A k \in 1..Len(q) : q[j] = q[k] => j = k
        <5>1. \A j \in 1..Len(q) : q[j] \in Sessions
          BY <1>4
        <5>2. QED
          BY <1>1, <1>4, <1>9, <5>1 DEF Busy, Queued
      <4>2. i \in 1..Len(r) /\ queue'[o] = r
        BY <1>8, <3>2
      <4>3. CASE i \in 1..Len(q)
        BY <1>3, <1>7, <4>1, <4>2, <4>3, <3>2 DEF at
      <4>4. CASE i = Len(r)
        BY <1>3, <1>7, <4>1, <4>2, <4>4, <3>2 DEF p, at
      <4>5. QED
        BY <1>7, <4>2, <4>3, <4>4
    <3>3. QED
      BY <3>1, <3>2
  <2>3. QED
    BY <2>1, <2>2 DEF Queued, at
<1>11. InFlight'
  <2>1. \A tx \in pool : tx.by # s
    BY DEF Busy, InFlight, MayHaveSent
  <2>2. \A t \in Sessions : t # s => (MayHaveSent(t) => MayHaveSent(t)')
    BY <1>3 DEF MayHaveSent, Busy, Shape
  <2>3. QED
    BY <2>1, <2>2, StillInFlight DEF Busy, InFlight
<1>12. Occupied'
  BY <1>3 DEF Busy, Occupied, Shape
<1>13. QED
  BY <1>10, <1>11, <1>12 DEF Busy

\* A call takes its turn or goes on.
LEMMA CallGoesOn ==
  ASSUME Busy, Shape', NEW s \in Sessions, NEW step \in AtWork,
         call' = [call EXCEPT ![s].step = step], UNCHANGED <<queue, doing>>,
         \/ at(s) \in AtWork
         \/ at(s) = "queued" /\ Head(queue[providerOf[s]]) = s,
         InFlight'
  PROVE  Busy'
<1>1. call' = [call EXCEPT ![s] = [command |-> call[s].command, step |-> step]]
  BY DEF Busy, Shape
<1>2. PICK c : c = call[s].command
  OBVIOUS
<1>3. /\ at(s)' = step
      /\ \A t \in Sessions : t # s => at(t)' = at(t)
  BY <1>1, <1>2, CallMoved DEF Busy, Steps, AtWork
<1>4. at(s) # "none" /\ step # "none"
  BY DEF AtWork
<1>5. queue[providerOf[s]][1] = s /\ providerOf[s] \in Providers
      /\ 1 \in 1..Len(queue[providerOf[s]])
  <2>1. CASE at(s) \in AtWork
    BY <2>1, AtHead DEF Busy
  <2>2. CASE at(s) = "queued" /\ Head(queue[providerOf[s]]) = s
    <3>1. providerOf[s] \in Providers
      BY DEF Providers
    <3>2. queue[providerOf[s]] \in Seq(Sessions)
      BY <3>1 DEF Busy, Shape
    <3>3. \E i \in 1..Len(queue[providerOf[s]]) : queue[providerOf[s]][i] = s
      BY <2>2 DEF Busy, Queued
    <3>4. QED
      BY <2>2, <3>1, <3>2, <3>3
  <2>3. QED
    BY <2>1, <2>2
<1>6. \A p \in Providers : \A i \in 1..Len(queue[p]) : queue[p][i] \in Sessions /\ (i > 1 => queue[p][i] # s)
  <2>1. ASSUME NEW p \in Providers, NEW i \in 1..Len(queue[p])
        PROVE  queue[p][i] \in Sessions /\ (i > 1 => queue[p][i] # s)
    <3>1. queue[p] \in Seq(Sessions)
      BY DEF Busy, Shape
    <3>2. queue[p][i] \in Sessions
      BY <3>1
    <3>3. ASSUME i > 1, queue[p][i] = s PROVE FALSE
      <4>1. p = providerOf[s]
        BY <3>3 DEF Busy, Queued
      <4>2. i = 1
        BY <1>5, <3>3, <4>1 DEF Busy, Queued
      <4>3. QED
        BY <3>1, <3>3, <4>2
    <3>4. QED
      BY <3>2, <3>3
  <2>2. QED
    BY <2>1
<1>7. Queued'
  <2>1. \A t \in Sessions : at(t)' # "none" =>
          \E i \in 1..Len(queue'[providerOf[t]]) : queue'[providerOf[t]][i] = t
    BY <1>3, <1>4 DEF Busy, Queued
  <2>2. ASSUME NEW p \in Providers, NEW i \in 1..Len(queue'[p])
        PROVE  /\ providerOf[queue'[p][i]] = p
               /\ call'[queue'[p][i]].step # "none"
               /\ i > 1 => call'[queue'[p][i]].step = "queued"
               /\ \A j \in 1..Len(queue'[p]) : queue'[p][i] = queue'[p][j] => i = j
    BY <1>3, <1>4, <1>6 DEF Busy, Queued, at
  <2>3. QED
    BY <2>1, <2>2 DEF Queued, at
<1>8. Occupied'
  BY <1>3, <1>4 DEF Busy, Occupied
<1>9. QED
  BY <1>7, <1>8 DEF Busy

\* A call is over: the next one has its turn.
LEMMA CallOver ==
  ASSUME Busy, Shape', NEW s \in Sessions, at(s) \in AtWork, release(s),
         \A tx \in pool' : tx \in pool /\ (tx.by = s => doing'[s] = "lost"),
         \A t \in Sessions : t # s => doing'[t] = doing[t]
  PROVE  Busy' /\ at(s)' = "none"
<1> DEFINE p == providerOf[s]
<1>1. /\ p \in Providers /\ queue[p] # <<>> /\ queue[p] \in Seq(Sessions)
      /\ 1 \in 1..Len(queue[p]) /\ queue[p][1] = s
  BY AtHead DEF Busy
<1>2. call' = [call EXCEPT ![s] = [command |-> Nothing, step |-> "none"]]
  BY DEF release, NoCall
<1>3. /\ at(s)' = "none"
      /\ \A t \in Sessions : t # s => at(t)' = at(t)
  BY <1>2, CallMoved DEF Busy, Steps
<1>4. PICK q \in Seq(Sessions) : q = queue[p]
  BY <1>1
<1>5. PICK r : r = Tail(q)
  OBVIOUS
<1>6. /\ r \in Seq(Sessions)
      /\ \A i \in 1..Len(r) : i + 1 \in 1..Len(q) /\ r[i] = q[i + 1]
      /\ \A i \in 1..Len(q) : i # 1 => i - 1 \in 1..Len(r) /\ r[i - 1] = q[i]
  BY <1>1, <1>4, <1>5, TailOf
<1>7. \A o \in Providers : queue'[o] = IF o = p THEN r ELSE queue[o]
  BY <1>1, <1>4, <1>5 DEF Busy, Shape, release
<1>8. \A i \in 1..Len(q) : /\ q[i] \in Sessions /\ providerOf[q[i]] = p
                           /\ at(q[i]) # "none" /\ (i > 1 => at(q[i]) = "queued")
                           /\ \A j \in 1..Len(q) : q[i] = q[j] => i = j
  <2>1. \A i \in 1..Len(q) : q[i] \in Sessions
    BY <1>4
  <2>2. QED
    BY <1>1, <1>4, <2>1 DEF Busy, Queued
<1>9. \A i \in 1..Len(r) : r[i] \in Sessions /\ r[i] # s
  <2>1. \A i \in 1..Len(r) : i + 1 # 1
    BY <1>6
  <2>2. q[1] = s /\ 1 \in 1..Len(q)
    BY <1>1, <1>4
  <2>3. QED
    BY <1>6, <1>8, <2>1, <2>2
<1>10. Queued'
  <2> HIDE DEF p
  <2>1. ASSUME NEW t \in Sessions, at(t)' # "none"
        PROVE  \E i \in 1..Len(queue'[providerOf[t]]) : queue'[providerOf[t]][i] = t
    <3>1. t # s
      BY <1>3, <2>1
    <3>2. PICK i \in 1..Len(queue[providerOf[t]]) : queue[providerOf[t]][i] = t
      BY <1>3, <2>1, <3>1 DEF Busy, Queued
    <3>3. providerOf[t] \in Providers
      BY DEF Providers
    <3>4. CASE providerOf[t] = p
      <4>1. i \in 1..Len(q) /\ q[i] = t /\ i # 1
        BY <1>1, <1>4, <3>1, <3>2, <3>4
      <4>2. QED
        BY <1>6, <1>7, <3>3, <3>4, <4>1
    <3>5. CASE providerOf[t] # p
      BY <1>7, <3>2, <3>3, <3>5
    <3>6. QED
      BY <3>4, <3>5
  <2>2. ASSUME NEW o \in Providers, NEW i \in 1..Len(queue'[o])
        PROVE  /\ providerOf[queue'[o][i]] = o
               /\ call'[queue'[o][i]].step # "none"
               /\ i > 1 => call'[queue'[o][i]].step = "queued"
               /\ \A j \in 1..Len(queue'[o]) : queue'[o][i] = queue'[o][j] => i = j
    <3>1. CASE o # p
      <4>1. queue'[o] = queue[o]
        BY <1>7, <3>1
      <4>2. \A j \in 1..Len(queue[o]) : queue[o][j] \in Sessions /\ queue[o][j] # s
        <5>1. queue[o] \in Seq(Sessions)
          BY DEF Busy, Shape
        <5>2. \A j \in 1..Len(queue[o]) : queue[o][j] \in Sessions
          BY <5>1
        <5>3. \A j \in 1..Len(queue[o]) : queue[o][j] # s
          BY <3>1 DEF Busy, Queued, p
        <5>4. QED
          BY <5>2, <5>3
      <4>3. QED
        BY <1>3, <4>1, <4>2 DEF Busy, Queued, at
    <3>2. CASE o = p
      <4>1. i \in 1..Len(r) /\ queue'[o] = r
        BY <1>7, <3>2
      <4>2. /\ i \in Nat /\ i + 1 > 1
            /\ \A j \in 1..Len(r) : j \in Nat /\ (i + 1 = j + 1 => i = j)
        BY <1>6, <4>1
      <4>3. call'[r[i]].step = "queued"
        <5>1. PICK t \in Sessions : t = r[i]
          BY <1>9, <4>1
        <5>2. t # s /\ i + 1 \in 1..Len(q) /\ q[i + 1] = t
          BY <1>6, <1>9, <4>1, <5>1
        <5>3. at(q[i + 1]) = "queued"
          BY <1>8, <4>2, <5>2
        <5>4. at(t) = "queued"
          BY <5>2, <5>3
        <5>5. QED
          BY <1>3, <5>1, <5>2, <5>4 DEF at
      <4>4. providerOf[r[i]] = p
        BY <1>6, <1>8, <4>1
      <4>5. \A j \in 1..Len(r) : r[i] = r[j] => i = j
        BY <1>6, <1>8, <4>1, <4>2
      <4>6. QED
        BY <3>2, <4>1, <4>3, <4>4, <4>5
    <3>3. QED
      BY <3>1, <3>2
  <2>3. QED
    BY <2>1, <2>2 DEF Queued, at
<1>11. InFlight'
  <2>1. \A t \in Sessions : t # s => (MayHaveSent(t) => MayHaveSent(t)')
    BY <1>3 DEF MayHaveSent
  <2>2. doing'[s] = "lost" => MayHaveSent(s)'
    BY <1>3 DEF MayHaveSent
  <2>3. \A t \in Sessions : MayHaveSent(t)' \/ \A tx \in pool' : tx.by # t
    BY <2>1, <2>2 DEF Busy, InFlight
  <2>4. QED
    BY <2>3, StillInFlight DEF Busy, InFlight
<1>12. Occupied'
  BY <1>3 DEF Busy, Occupied, at
<1>13. QED
  BY <1>3, <1>10, <1>11, <1>12 DEF Busy

-----------------------------------------------------------------------------
(* Busy, action by action.                                                 *)

\* Connecting, reading and taking over leave the calls alone.
LEMMA ReadingKeepsBusy ==
  ASSUME Busy, NEW s \in Sessions,
         \/ connectRole(s) \/ joinRoleVault(s) \/ load(s) \/ loaded(s)
         \/ disclosureVerified(s) \/ readFails(s)
         \/ \E package \in Packages : acceptDisclosure(s, package)
  PROVE  Busy'
<1>1. /\ UNCHANGED <<call, queue, pool, stored, retired>> /\ DOMAIN installed' = DOMAIN installed
      /\ DOMAIN doing' = Sessions /\ DOMAIN job' = Sessions
      /\ DOMAIN vault' = Sessions /\ DOMAIN view' = Sessions
      /\ doing[s] \in {"offline", "connecting", "idle", "loading", "accepting"}
      /\ \A t \in Sessions : t # s => doing'[t] = doing[t]
  BY DEF Busy, Shape, connectRole, joinRoleVault, load, loaded, disclosureVerified, readFails,
         acceptDisclosure, becomes, shows, join, install, chain, ledger, provider, storage
<1>2. Shape'
  BY <1>1 DEF Busy, Shape, at
<1>3. \A t \in Sessions :
         /\ doing'[t] \notin {"executing", "lost"} => doing[t] \notin {"executing", "lost"}
         /\ doing[t] = "lost" => doing'[t] = "lost"
  BY <1>1
<1>4. QED
  BY <1>1, <1>2, <1>3, CallsAlone

\* So do the retirement of a ciphertext, the deadline of a submission, and an
\* upload for its own sake.
LEMMA WaitingKeepsBusy ==
  ASSUME Busy,
         \/ \E st \in Stores : \E cipher \in stored[st] : retire(st, cipher)
         \/ \E s \in Sessions : expires(s)
         \/ \E s \in Sessions : \E d \in vault[s] : upload(s, d)
  PROVE  Busy'
<1>1. CASE \E st \in Stores : \E cipher \in stored[st] : retire(st, cipher)
  <2>1. Shape' /\ UNCHANGED <<call, queue, pool, doing>>
    BY <1>1 DEF retire, Busy, Shape, at, chain, ledger, provider
  <2>2. QED
    BY <2>1, CallsAlone
<1>2. ASSUME NEW s \in Sessions, expires(s)
      PROVE  Busy'
  <2>1. Shape' /\ UNCHANGED <<call, queue, pool>> /\ doing' = [doing EXCEPT ![s] = "lost"]
    BY <1>2 DEF expires, becomes, Busy, Shape, at, chain, ledger, provider, storage
  <2>2. \A t \in Sessions :
           /\ doing'[t] \notin {"executing", "lost"} => doing[t] \notin {"executing", "lost"}
           /\ doing[t] = "lost" => doing'[t] = "lost"
    BY <2>1 DEF Busy, Shape
  <2>3. QED
    BY <2>1, <2>2, CallsAlone
<1>3. ASSUME NEW s \in Sessions, NEW d \in vault[s], upload(s, d)
      PROVE  Busy'
  <2>1. /\ Shape' /\ UNCHANGED <<call, queue, pool>> /\ doing[s] \in {"idle", "offline"}
        /\ doing' = [doing EXCEPT ![s] = "uploading"]
    BY <1>3 DEF upload, startUpload, becomes, Busy, Shape, at, chain, ledger, provider, storage
  <2>2. \A t \in Sessions :
           /\ doing'[t] \notin {"executing", "lost"} => doing[t] \notin {"executing", "lost"}
           /\ doing[t] = "lost" => doing'[t] = "lost"
    BY <2>1 DEF Busy, Shape
  <2>3. QED
    BY <2>1, <2>2, CallsAlone
<1>4. QED
  BY <1>1, <1>2, <1>3

\* A session that takes its place in the queue.
LEMMA EnqueueKeepsBusy ==
  ASSUME Busy, NEW s \in Sessions, NEW c, at(s) = "none", doing[s] # "lost",
         enqueue(s, c), UNCHANGED <<pool, vault>>,
         becomes(s, "executing", Nothing), shows(s, Nothing),
         DOMAIN stored' = Stores, DOMAIN retired' = Stores
  PROVE  Busy'
<1>1. providerOf[s] \in Providers
  BY DEF Providers
<1>2. PICK q \in Seq(Sessions) : q = queue[providerOf[s]]
  BY <1>1 DEF Busy, Shape
<1>3. queue' = [queue EXCEPT ![providerOf[s]] = Append(q, s)]
  BY <1>2 DEF enqueue
<1>4. Append(q, s) \in Seq(Sessions)
  BY <1>2, AppendOf
<1>5. queue' \in [Providers -> Seq(Sessions)]
  BY <1>1, <1>3, <1>4 DEF Busy, Shape
<1>6. call' = [call EXCEPT ![s] = [command |-> c, step |-> "queued"]]
  BY DEF enqueue
<1>7. /\ DOMAIN call' = Sessions
      /\ \A t \in Sessions :
            /\ at(t)' \in Steps
            /\ call'[t] = [command |-> call'[t].command, step |-> at(t)']
            /\ at(t)' = "none" => call'[t] = NoCall
  BY <1>6, CallMoved DEF Busy, Steps
<1>8. /\ DOMAIN installed' = Providers
      /\ DOMAIN doing' = Sessions /\ DOMAIN job' = Sessions
      /\ DOMAIN vault' = Sessions /\ DOMAIN view' = Sessions
  BY DEF enqueue, becomes, shows, Busy, Shape
<1>9. Shape'
  BY <1>5, <1>7, <1>8 DEF Shape
<1>10. doing' = [doing EXCEPT ![s] = "executing"]
  BY DEF becomes
<1>11. QED
  BY <1>9, <1>10, CallEnqueued

\* A button pressed.
LEMMA WriteKeepsBusy ==
  ASSUME Busy, NEW s \in Sessions, NEW c, write(s, c)
  PROVE  Busy'
<1>1. at(s) = "none" /\ doing[s] = "idle" /\ UNCHANGED <<pool, vault, stored, retired>>
  BY DEF write, at, NoCall, chain, storage
<1>2. CASE c.kind = "submitReport"
  <2>1. /\ Shape' /\ UNCHANGED <<call, queue>>
        /\ doing' = [doing EXCEPT ![s] = "uploading"]
    BY <1>1, <1>2 DEF write, startUpload, becomes, Busy, Shape, at, provider
  <2>2. \A t \in Sessions :
           /\ doing'[t] \notin {"executing", "lost"} => doing[t] \notin {"executing", "lost"}
           /\ doing[t] = "lost" => doing'[t] = "lost"
    BY <1>1, <2>1 DEF Busy, Shape
  <2>3. QED
    BY <1>1, <2>1, <2>2, CallsAlone
<1>3. CASE c.kind # "submitReport"
  <2>1. /\ becomes(s, "executing", Nothing) /\ shows(s, Nothing) /\ enqueue(s, c)
        /\ DOMAIN stored' = Stores /\ DOMAIN retired' = Stores
    BY <1>1, <1>3 DEF write, Busy, Shape
  <2>2. QED
    BY <1>1, <2>1, EnqueueKeepsBusy
<1>4. QED
  BY <1>2, <1>3

\* The answers of the stores.
LEMMA SettlingKeepsBusy ==
  ASSUME Busy, NEW s \in Sessions, uploadSettles(s)
  PROVE  Busy'
<1>1. at(s) = "none" /\ doing[s] # "lost"
  BY DEF uploadSettles, Busy, Occupied
<1>2. PICK answer \in [Stores -> Answers] :
         /\ put(job[s].cipher, answer)
         /\ IF complete(answer) /\ job[s].then # Nothing
            THEN /\ becomes(s, "executing", Nothing)
                 /\ shows(s, Nothing)
                 /\ enqueue(s, job[s].then)
            ELSE becomes(s, job[s].after, Nothing) /\ UNCHANGED <<view, provider>>
  BY DEF uploadSettles
<1>3. UNCHANGED <<pool, vault>> /\ DOMAIN stored' = Stores /\ DOMAIN retired' = Stores
  BY <1>2 DEF uploadSettles, chain, put, Busy, Shape
<1>4. CASE complete(answer) /\ job[s].then # Nothing
  <2>1. PICK c : c = job[s].then
    OBVIOUS
  <2>2. becomes(s, "executing", Nothing) /\ shows(s, Nothing) /\ enqueue(s, c)
    BY <1>2, <1>4, <2>1
  <2>3. QED
    BY <1>1, <1>3, <2>2, EnqueueKeepsBusy
<1>5. CASE ~(complete(answer) /\ job[s].then # Nothing)
  <2>1. becomes(s, job[s].after, Nothing) /\ UNCHANGED <<view, provider>>
    BY <1>2, <1>5
  <2>2. Shape' /\ UNCHANGED <<call, queue>> /\ \A t \in Sessions : t # s => doing'[t] = doing[t]
    BY <1>3, <2>1 DEF becomes, provider, Busy, Shape, at
  <2>3. doing[s] = "uploading"
    BY DEF uploadSettles
  <2>4. QED
    BY <1>3, <2>2, <2>3, CallsAlone
<1>6. QED
  BY <1>4, <1>5

\* The shape of the state after a call has gone on.
LEMMA GoneOn ==
  ASSUME Busy, NEW s \in Sessions, NEW step \in AtWork,
         call' = [call EXCEPT ![s].step = step],
         UNCHANGED <<queue, doing, job, vault, view, stored, retired>>,
         DOMAIN installed' = DOMAIN installed
  PROVE  /\ Shape'
         /\ at(s)' = step
         /\ \A t \in Sessions : t # s => at(t)' = at(t) /\ call'[t] = call[t]
         /\ call'[s].command = call[s].command
<1>1. call' = [call EXCEPT ![s] = [command |-> call[s].command, step |-> step]]
  <2>1. call[s] = [command |-> call[s].command, step |-> at(s)]
    BY DEF Busy, Shape
  <2>2. [call[s] EXCEPT !.step = step] = [command |-> call[s].command, step |-> step]
    BY <2>1
  <2>3. QED
    BY <2>2
<1>2. PICK c : c = call[s].command
  OBVIOUS
<1>3. /\ DOMAIN call' = Sessions
      /\ at(s)' = step /\ call'[s].command = c
      /\ \A t \in Sessions : t # s => call'[t] = call[t] /\ at(t)' = at(t)
      /\ \A t \in Sessions :
            /\ at(t)' \in Steps
            /\ call'[t] = [command |-> call'[t].command, step |-> at(t)']
            /\ at(t)' = "none" => call'[t] = NoCall
  BY <1>1, <1>2, CallMoved DEF Busy, Steps, AtWork
<1>4. Shape'
  BY <1>3 DEF Busy, Shape
<1>5. QED
  BY <1>2, <1>3, <1>4

\* A turn, a check and a proof.
LEMMA ProvingKeepsBusy ==
  ASSUME Busy, NEW s \in Sessions,
         \/ usePrivateState(s)
         \/ submitTx(s)
         \/ checkStage(s) /\ verifyProgram(s) /\ stageAllows(s, call[s].command)
  PROVE  Busy'
<1>1. CASE usePrivateState(s)
  <2>1. /\ call' = [call EXCEPT ![s].step = "installed"]
        /\ UNCHANGED <<queue, doing, job, vault, view, stored, retired, pool>>
        /\ DOMAIN installed' = DOMAIN installed
        /\ at(s) = "queued" /\ Head(queue[providerOf[s]]) = s
    BY <1>1 DEF usePrivateState, install, chain, ledger, storage, at
  <2>2. Shape' /\ \A t \in Sessions : t # s => at(t)' = at(t)
    BY <2>1, GoneOn DEF AtWork
  <2>3. InFlight'
    <3>1. ~MayHaveSent(s) /\ \A t \in Sessions : t # s => (MayHaveSent(t) <=> MayHaveSent(t)')
      BY <2>1, <2>2 DEF MayHaveSent
    <3>2. QED
      BY <2>1, <3>1, StillInFlight DEF Busy, InFlight
  <2>4. QED
    BY <2>1, <2>2, <2>3, CallGoesOn DEF AtWork
<1>2. CASE checkStage(s) /\ verifyProgram(s) /\ stageAllows(s, call[s].command)
  <2>1. /\ call' = [call EXCEPT ![s].step = "checked"]
        /\ UNCHANGED <<queue, doing, job, vault, view, stored, retired, pool, installed>>
        /\ at(s) = "installed"
    BY <1>2 DEF checkStage, chain, ledger, storage, at
  <2>2. Shape' /\ \A t \in Sessions : t # s => at(t)' = at(t)
    BY <2>1, GoneOn DEF AtWork
  <2>3. InFlight'
    <3>1. ~MayHaveSent(s) /\ \A t \in Sessions : t # s => (MayHaveSent(t) <=> MayHaveSent(t)')
      BY <2>1, <2>2 DEF MayHaveSent
    <3>2. QED
      BY <2>1, <3>1, StillInFlight DEF Busy, InFlight
  <2>4. QED
    BY <2>1, <2>2, <2>3, CallGoesOn DEF AtWork
<1>3. CASE submitTx(s)
  <2>1. /\ call' = [call EXCEPT ![s].step = "sent"]
        /\ UNCHANGED <<queue, doing, job, vault, view, stored, retired, installed>>
        /\ at(s) = "checked"
        /\ pool' = pool \cup {[by |-> s, witnesses |-> installed[providerOf[s]],
                               command |-> call[s].command]}
    BY <1>3 DEF submitTx, storage, at
  <2>2. Shape' /\ at(s)' = "sent" /\ \A t \in Sessions : t # s => at(t)' = at(t)
    BY <2>1, GoneOn DEF AtWork
  <2>3. \A tx \in pool : tx.by # s
    BY <2>1 DEF Busy, InFlight, MayHaveSent
  <2>4. MayHaveSent(s)' /\ \A t \in Sessions : t # s => (MayHaveSent(t) => MayHaveSent(t)')
    BY <2>1, <2>2 DEF MayHaveSent
  <2>5. \A t, u \in pool' : t.by = u.by => t = u
    BY <2>1, <2>3 DEF Busy, InFlight
  <2>6. InFlight'
    BY <2>1, <2>4, <2>5, StillInFlight DEF Busy, InFlight
  <2>7. QED
    BY <2>1, <2>2, <2>6, CallGoesOn DEF AtWork
<1>4. QED
  BY <1>1, <1>2, <1>3

\* Every call is where it was.
CallsStand == DOMAIN call' = Sessions /\ \A t \in Sessions : call'[t] = call[t]

\* A transaction leaves the network, applied or dropped: a call that waits for
\* it gets its receipt, and otherwise no call hears of it.
LEMMA TransactionGone ==
  ASSUME Busy, NEW tx \in pool, applyTx(tx) \/ dropTx(tx)
  PROVE  /\ pool' = pool \ {tx}
         /\ UNCHANGED <<queue, doing, job, vault, view, stored, retired, installed>>
         /\ \/ CallsStand
            \/ \E s \in Sessions : /\ s = tx.by /\ at(s) = "sent"
                                  /\ call' = [call EXCEPT ![s].step = "final"]
<1>1. CASE dropTx(tx)
  BY <1>1 DEF dropTx, provider, storage, CallsStand, Busy, Shape
<1>2. CASE applyTx(tx)
  <2>1. tx.by \in Sessions
    BY DEF Busy, InFlight
  <2>2. PICK s \in Sessions : s = tx.by
    BY <2>1
  <2>3. /\ UNCHANGED <<queue, doing, job, vault, view, stored, retired, installed>>
        /\ pool' = pool \ {tx}
        /\ call' = [call EXCEPT ![s].step = IF at(s) = "sent" THEN "final" ELSE at(s)]
    BY <1>2, <2>2 DEF applyTx, storage, at
  <2>4. CASE at(s) = "sent"
    BY <2>2, <2>3, <2>4
  <2>5. CASE at(s) # "sent"
    <3>1. call[s] = [command |-> call[s].command, step |-> at(s)]
      BY DEF Busy, Shape
    <3>2. [call[s] EXCEPT !.step = at(s)] = call[s]
      BY <3>1
    <3>3. call' = [call EXCEPT ![s] = call[s]]
      BY <2>3, <2>5, <3>2
    <3>4. CallsStand
      BY <3>3 DEF CallsStand, Busy, Shape
    <3>5. QED
      BY <2>3, <3>4
  <2>6. QED
    BY <2>4, <2>5
<1>3. QED
  BY <1>1, <1>2

\* The ledger's answer, to a call that waits for it or to nobody, or none.
LEMMA ApplyingKeepsBusy ==
  ASSUME Busy, NEW tx \in pool, applyTx(tx) \/ dropTx(tx)
  PROVE  Busy'
<1>1. /\ UNCHANGED <<queue, doing, job, vault, view, stored, retired, installed>>
      /\ pool' = pool \ {tx}
  BY TransactionGone
<1>2. CASE CallsStand
  <2> USE DEF CallsStand
  <2>1. Shape'
    BY <1>1, <1>2 DEF Busy, Shape, at
  <2>2. Queued'
    <3>1. \A p \in Providers : \A i \in 1..Len(queue[p]) : queue[p][i] \in Sessions
      <4>1. \A p \in Providers : queue[p] \in Seq(Sessions)
        BY DEF Busy, Shape
      <4>2. QED
        BY <4>1
    <3>2. QED
      BY <1>1, <1>2, <3>1 DEF Busy, Queued, at
  <2>3. Occupied'
    BY <1>1, <1>2 DEF Busy, Occupied, at
  <2>4. \A t \in Sessions : MayHaveSent(t)' <=> MayHaveSent(t)
    BY <1>1, <1>2 DEF MayHaveSent, at
  <2>5. InFlight'
    BY <1>1, <2>4, StillInFlight DEF Busy, InFlight
  <2>6. QED
    BY <2>1, <2>2, <2>3, <2>5 DEF Busy
<1>3. ASSUME NEW s \in Sessions, s = tx.by, at(s) = "sent",
             call' = [call EXCEPT ![s].step = "final"]
      PROVE  Busy'
  <2>1. Shape' /\ \A t \in Sessions : t # s => at(t)' = at(t)
    BY <1>1, <1>3, GoneOn DEF AtWork
  <2>2. \A u \in pool' : u \in pool /\ u.by # s
    BY <1>1, <1>3 DEF Busy, InFlight
  <2>3. \A t \in Sessions : t # s => (MayHaveSent(t) <=> MayHaveSent(t)')
    BY <1>1, <2>1 DEF MayHaveSent
  <2>4. InFlight'
    BY <2>2, <2>3, StillInFlight DEF Busy, InFlight
  <2>5. QED
    BY <1>1, <1>3, <2>1, <2>4, CallGoesOn DEF AtWork
<1>4. QED
  BY <1>2, <1>3, TransactionGone

\* A call that is over, whatever its result.
LEMMA EndKeepsBusy ==
  ASSUME Busy, NEW s \in Sessions, at(s) \in AtWork, release(s),
         UNCHANGED <<vault, view, stored, retired>>,
         \A tx \in pool' : tx \in pool /\ (tx.by = s => doing'[s] = "lost"),
         \/ UNCHANGED <<doing, job>>
         \/ \E what, j : becomes(s, what, j)
  PROVE  Busy'
<1>1. /\ providerOf[s] \in Providers
      /\ queue[providerOf[s]] \in Seq(Sessions) /\ queue[providerOf[s]] # <<>>
  BY AtHead DEF Busy
<1>2. PICK q \in Seq(Sessions) : q = queue[providerOf[s]]
  BY <1>1
<1>3. Tail(q) \in Seq(Sessions)
  BY <1>1, <1>2, TailOf
<1>4. queue' \in [Providers -> Seq(Sessions)]
  BY <1>1, <1>2, <1>3 DEF release, Busy, Shape
<1>5. call' = [call EXCEPT ![s] = [command |-> Nothing, step |-> "none"]]
  BY DEF release, NoCall
<1>6. /\ DOMAIN call' = Sessions
      /\ \A t \in Sessions :
            /\ at(t)' \in Steps
            /\ call'[t] = [command |-> call'[t].command, step |-> at(t)']
            /\ at(t)' = "none" => call'[t] = NoCall
  BY <1>5, CallMoved DEF Busy, Steps
<1>7. /\ DOMAIN installed' = Providers
      /\ DOMAIN doing' = Sessions /\ DOMAIN job' = Sessions
      /\ DOMAIN vault' = Sessions /\ DOMAIN view' = Sessions
      /\ DOMAIN stored' = Stores /\ DOMAIN retired' = Stores
      /\ \A t \in Sessions : t # s => doing'[t] = doing[t]
  BY DEF release, becomes, Busy, Shape
<1>8. Shape'
  BY <1>4, <1>6, <1>7 DEF Shape
<1>9. QED
  BY <1>7, <1>8, CallOver

\* A call that fails before its transaction is sent.
LEMMA FailureKeepsBusy ==
  ASSUME Busy, NEW s \in Sessions, at(s) \in {"installed", "checked"}, fails(s)
  PROVE  Busy'
<1>1. /\ release(s) /\ UNCHANGED <<vault, view, stored, retired, pool>>
      /\ \/ UNCHANGED <<doing, job>>
         \/ \E what, j : becomes(s, what, j)
  BY DEF fails, chain, storage
<1>2. \A tx \in pool' : tx \in pool /\ tx.by # s
  BY <1>1 DEF Busy, InFlight, MayHaveSent
<1>3. QED
  BY <1>1, <1>2, EndKeepsBusy DEF AtWork

\* Failures, receipts and calls that give up: those leave a lost session, and
\* perhaps its transaction at the network.
LEMMA EndingKeepsBusy ==
  ASSUME Busy, NEW s \in Sessions,
         \/ callFails(s) \/ answered(s) \/ callRejects(s)
         \/ checkStage(s) /\ ~(verifyProgram(s) /\ stageAllows(s, call[s].command))
  PROVE  Busy'
<1>1. CASE \/ callFails(s)
           \/ checkStage(s) /\ ~(verifyProgram(s) /\ stageAllows(s, call[s].command))
  <2>1. at(s) \in {"installed", "checked"} /\ fails(s)
    BY <1>1 DEF callFails, checkStage, at
  <2>2. QED
    BY <2>1, FailureKeepsBusy
<1>2. CASE answered(s)
  <2>1. /\ release(s) /\ UNCHANGED <<vault, view, stored, retired, pool>> /\ at(s) = "final"
        /\ \/ UNCHANGED <<doing, job>>
           \/ \E what, j : becomes(s, what, j)
    BY <1>2 DEF answered, chain, storage, at
  <2>2. \A tx \in pool' : tx \in pool /\ tx.by # s
    BY <2>1 DEF Busy, InFlight, MayHaveSent
  <2>3. QED
    BY <2>1, <2>2, EndKeepsBusy DEF AtWork
<1>3. CASE callRejects(s)
  <2>1. /\ release(s) /\ UNCHANGED <<vault, view, stored, retired, pool>>
        /\ at(s) \in {"sent", "final"}
        /\ IF doing[s] = "executing" THEN becomes(s, "lost", Nothing) ELSE UNCHANGED <<doing, job>>
    BY <1>3 DEF callRejects, chain, storage, at
  <2>2. doing'[s] = "lost"
    <3>1. doing[s] \in {"executing", "lost"}
      BY <2>1 DEF Busy, Occupied
    <3>2. QED
      BY <2>1, <3>1 DEF becomes, Busy, Shape
  <2>3. QED
    BY <2>1, <2>2, EndKeepsBusy DEF AtWork
<1>4. QED
  BY <1>1, <1>2, <1>3

\* Every step keeps the calls in order.
LEMMA BusyStep == Busy /\ [Next]_vars => Busy'
<1> SUFFICES ASSUME Busy, [Next]_vars
             PROVE  Busy'
  OBVIOUS
<1>1. CASE UNCHANGED vars
  <2>1. Shape'
    BY <1>1 DEF vars, chain, provider, storage, Busy, Shape, at
  <2>2. QED
    BY <1>1, <2>1, CallsAlone DEF vars, chain, provider, storage
<1>2. ASSUME NEW s \in Sessions, checkStage(s)
      PROVE  Busy'
  BY <1>2, ProvingKeepsBusy, EndingKeepsBusy
<1>3. ASSUME NEW s \in Sessions, view[s] # Nothing, \E c \in offered(s) : write(s, c)
      PROVE  Busy'
  BY <1>3, WriteKeepsBusy
<1>4. QED
  BY <1>1, <1>2, <1>3, ReadingKeepsBusy, WaitingKeepsBusy, SettlingKeepsBusy, ProvingKeepsBusy,
     ApplyingKeepsBusy, EndingKeepsBusy DEF Next

\* No workspace has a call to begin with.
LEMMA BusyInitially == Init => Busy
<1> SUFFICES ASSUME Init
             PROVE  Busy
  OBVIOUS
<1>1. Shape
  <2>1. queue = [p \in Providers |-> <<>>]
    BY DEF Init, Providers
  <2>2. queue \in [Providers -> Seq(Sessions)]
    BY <2>1
  <2>3. QED
    BY <2>2, SessionConstants DEF Init, Shape, Providers, at, Steps, NoCall
<1>2. Queued
  BY DEF Init, Queued, Providers, at, NoCall
<1>3. InFlight /\ Occupied
  BY DEF Init, InFlight, Occupied, at, NoCall
<1>4. QED
  BY <1>1, <1>2, <1>3 DEF Busy

\* A workspace that can act has no call of its own left, in the provider's
\* queue or at the network, however late its earlier calls go on.
THEOREM UsableSafety == Spec => []UsableHasNoCallLeft
<1>1. Busy => UsableHasNoCallLeft
  <2> SUFFICES ASSUME Busy, NEW s \in Sessions, doing[s] \notin {"executing", "lost"}
               PROVE  /\ call[s] = NoCall
                      /\ s \notin ToSet(queue[providerOf[s]])
                      /\ \A tx \in pool : tx.by # s
    BY DEF UsableHasNoCallLeft
  <2>1. at(s) = "none"
    BY DEF Busy, Occupied
  <2>2. call[s] = NoCall
    BY <2>1 DEF Busy, Shape
  <2>3. s \notin ToSet(queue[providerOf[s]])
    <3>1. providerOf[s] \in Providers
      BY DEF Providers
    <3>2. queue[providerOf[s]] \in Seq(Sessions)
      BY <3>1 DEF Busy, Shape
    <3>3. DOMAIN queue[providerOf[s]] = 1..Len(queue[providerOf[s]])
      BY <3>2
    <3>4. \A i \in 1..Len(queue[providerOf[s]]) : queue[providerOf[s]][i] # s
      BY <2>1, <3>1 DEF Busy, Queued
    <3>5. QED
      BY <3>3, <3>4 DEF ToSet
  <2>4. \A tx \in pool : tx.by # s
    BY <2>1 DEF Busy, InFlight, MayHaveSent
  <2>5. QED
    BY <2>2, <2>3, <2>4
<1>2. QED
  BY <1>1, BusyInitially, BusyStep, PTL DEF Spec

-----------------------------------------------------------------------------
(* Commands, witnesses and the contract.                                   *)

\* The contract's theorems hold for these constants.
LEMMA ContractAssumed == ContractProofs!ContractConstants
  BY SessionConstants DEF ContractProofs!ContractConstants

\* A button of the workspace is a command of its session.
LEMMA OfferedFits ==
  ASSUME NEW s \in Sessions, SessionCommanded(s), view[s] # Nothing, NEW c \in offered(s)
  PROVE  /\ CommandOf(s, c)
         /\ c.kind = "submitReport" => c.arg = view[s].disclosure.cipher
<1> DEFINE d == view[s].disclosure
           args(kind) ==
             CASE kind = "acceptReport" -> (Contract!Tiers \cap Uint8Inputs) \X Decisions
               [] kind = "rejectReport" -> Decisions
               [] kind = "anchorPatch" -> PatchDigests
               [] kind = "submitRetest" -> {view[s].patch} \X EvidenceDigests \X BOOLEAN
               [] kind = "authorizePayout" -> Contract!Tiers \cap Uint8Inputs
               [] kind = "submitReport" -> {d.cipher}
               [] OTHER -> {Zero}
<1>1. PICK kind, arg : /\ kind \in kinds /\ arg \in args(kind)
                       /\ roles[kind] = roleOf(s) /\ c = command(kind, d, arg)
  BY DEF offered
<1>2. c.kind = kind /\ c.id = d.id /\ c.report = d.report /\ c.arg = arg
  BY <1>1 DEF command
<1>3. ArgumentFits(c) /\ (c.kind = "submitReport" => c.arg = d.cipher)
  <2>1. CASE kind = "acceptReport"
    BY <1>1, <1>2, <2>1 DEF ArgumentFits
  <2>2. CASE kind = "submitRetest"
    BY <1>1, <1>2, <2>2 DEF ArgumentFits
  <2>3. CASE kind = "authorizePayout"
    BY <1>1, <1>2, <2>3 DEF ArgumentFits
  <2>4. CASE kind \in {"rejectReport", "anchorPatch", "submitReport", "beginTriage", "closeReport"}
    BY <1>1, <1>2, <2>4 DEF ArgumentFits
  <2>5. QED
    BY <1>1, <2>1, <2>2, <2>3, <2>4 DEF kinds
<1>4. roleOf(s) = "researcher" => d \in Prepared[s]
  BY DEF SessionCommanded
<1>5. QED
  BY <1>1, <1>2, <1>3, <1>4 DEF CommandOf

\* What a researcher's command carries.
LEMMA ResearcherCommand ==
  ASSUME NEW s \in Sessions, NEW c, CommandOf(s, c), c.kind \in {"submitReport", "submitRetest"}
  PROVE  /\ roleOf(s) = "researcher"
         /\ c.report \in Contract!Preimages
         /\ c.id = Contract!deriveReportCommitment(c.report[1], c.report[2], c.report[3])
         /\ \E d \in Prepared[s] : d.id = c.id /\ (c.kind = "submitReport" => d.cipher = c.arg)
         /\ c.kind = "submitReport" => c.arg \in CiphertextDigests
<1>1. roleOf(s) = "researcher"
  BY DEF CommandOf, roles, kinds
<1>2. PICK d \in Prepared[s] : /\ c.id = d.id /\ c.report = d.report
                               /\ c.kind = "submitReport" => c.arg = d.cipher
  BY <1>1 DEF CommandOf
<1>3. /\ validateDisclosure(d)
      /\ d.report \in Contract!Preimages /\ d.cipher \in CiphertextDigests
  BY SessionConstants
<1>4. QED
  BY <1>1, <1>2, <1>3 DEF validateDisclosure

\* A call proves with its own witnesses, or with a join's, which have no evidence.
LEMMA Witnesses ==
  ASSUME NEW s \in Sessions, NEW c, NEW w, Witnessed(s, c, w)
  PROVE  /\ w.actorSecret \in Secrets
         /\ \/ w = privateState(s, c)
            \/ w.report = NoEvidence /\ w.patch = NoEvidence /\ w.retest = NoEvidence
  BY SessionConstants DEF Witnessed, privateState, joinState

\* The default value is neither the program nor the identity of a report.
LEMMA NoEvidenceIsNone ==
  NoEvidence[1] # Program /\ NoEvidence[1] \notin Contract!ReportIds
  BY SessionConstants
     DEF NoEvidence, Zero, Contract!Zero, Contract!ReportIds, Contract!deriveReportCommitment

\* submitReport enters the report of its command, with the key of its session.
LEMMA SubmissionEnters ==
  ASSUME NEW s \in Sessions, NEW c, NEW w, CommandOf(s, c), Witnessed(s, c, w),
         c.kind = "submitReport", circuit(w, c)
  PROVE  /\ w = privateState(s, c) /\ w.report = c.report
         /\ Contract!submitReport(w.actorSecret, w.report, c.arg)
         /\ DOMAIN reports' = DOMAIN reports \cup {c.id}
         /\ reports'[c.id].ciphertextDigest = c.arg
         /\ reports'[c.id].researcherKey =
               Contract!deriveResearcherKey(Program, c.id, identity[s].actorSecret)
<1>1. Contract!submitReport(w.actorSecret, w.report, c.arg)
  BY DEF circuit
<1>2. w.report[1] = Program
  BY <1>1 DEF Contract!submitReport
<1>3. w = privateState(s, c)
  BY <1>2, Witnesses, NoEvidenceIsNone
<1>4. w.report = c.report /\ w.actorSecret = identity[s].actorSecret
  BY <1>3 DEF privateState
<1>5. c.id = Contract!deriveReportCommitment(w.report[1], w.report[2], w.report[3])
  BY <1>4, ResearcherCommand
<1>6. QED
  BY <1>1, <1>3, <1>4, <1>5 DEF Contract!submitReport, Contract!insert

\* Every other circuit works on a report that is there.
LEMMA OtherCircuits ==
  ASSUME NEW c, NEW w, c.kind # "submitReport", circuit(w, c)
  PROVE  c.id \in DOMAIN reports /\ DOMAIN reports' = DOMAIN reports
<1> USE DEF circuit, Contract!loadReport, Contract!insert
<1>1. CASE c.kind \in {"beginTriage", "closeReport", "authorizePayout"}
  BY <1>1 DEF Contract!beginTriage, Contract!closeReport, Contract!authorizePayout
<1>2. CASE c.kind \in {"acceptReport", "rejectReport"}
  BY <1>2 DEF Contract!acceptReport, Contract!rejectReport
<1>3. CASE c.kind = "anchorPatch"
  BY <1>3 DEF Contract!anchorPatch
<1>4. CASE c.kind = "submitRetest"
  BY <1>4 DEF Contract!submitRetest
<1>5. QED
  BY <1>1, <1>2, <1>3, <1>4

\* A circuit called by a session is a call of the contract, with inputs that
\* the contract's theorems range over.
LEMMA CircuitIsNext ==
  ASSUME ContractProofs!IInv, NEW s \in Sessions, NEW c, NEW w,
         CommandOf(s, c), Witnessed(s, c, w), circuit(w, c)
  PROVE  ContractProofs!Next
<1> USE DEF Zero, Contract!Zero, ContractProofs!Zero,
            Contract!insert, ContractProofs!insert,
            Contract!ownerKey, ContractProofs!ownerKey,
            Contract!deriveVendorKey, ContractProofs!deriveVendorKey,
            Contract!deriveReportCommitment, ContractProofs!deriveReportCommitment,
            Contract!deriveResearcherKey, ContractProofs!deriveResearcherKey,
            Contract!loadReport, ContractProofs!loadReport,
            Contract!assertVendor, ContractProofs!assertVendor,
            Contract!Tiers, ContractProofs!Tiers
<1>1. /\ w.actorSecret \in Secrets
      /\ \/ w = privateState(s, c)
         \/ w.report = NoEvidence /\ w.patch = NoEvidence /\ w.retest = NoEvidence
  BY Witnesses
<1>2. PICK secret \in Secrets : secret = w.actorSecret
  BY <1>1
<1>3. DOMAIN reports \subseteq ContractProofs!ReportIds
  BY DEF ContractProofs!IInv, ContractProofs!TypeOK
<1>4. CASE c.kind = "submitReport"
  <2>1. /\ Contract!submitReport(secret, c.report, c.arg)
        /\ c.report \in Contract!Preimages /\ c.arg \in CiphertextDigests
    BY <1>2, <1>4, SubmissionEnters, ResearcherCommand
  <2>2. ContractProofs!submitReport(secret, c.report, c.arg)
    BY <2>1 DEF Contract!submitReport, ContractProofs!submitReport,
                Contract!deriveSubmissionReceipt, ContractProofs!deriveSubmissionReceipt
  <2>3. c.report \in ContractProofs!Preimages
    BY <2>1 DEF Contract!Preimages, ContractProofs!Preimages
  <2>4. QED
    BY <2>1, <2>2, <2>3 DEF ContractProofs!Next
<1>5. CASE c.kind # "submitReport"
  <2>1. c.id \in ContractProofs!ReportIds
    BY <1>3, <1>5, OtherCircuits
  <2>2. CASE c.kind = "beginTriage"
    <3>1. ContractProofs!beginTriage(secret, c.id)
      BY <1>2, <2>2 DEF circuit, Contract!beginTriage, ContractProofs!beginTriage
    <3>2. QED
      BY <2>1, <3>1 DEF ContractProofs!Next
  <2>3. CASE c.kind = "acceptReport"
    <3>1. ContractProofs!acceptReport(secret, c.id, c.arg[1], c.arg[2])
      BY <1>2, <2>3 DEF circuit, Contract!acceptReport, ContractProofs!acceptReport
    <3>2. c.arg[1] \in Uint8Inputs /\ c.arg[2] \in Decisions
      BY <2>3 DEF CommandOf, ArgumentFits
    <3>3. QED
      BY <2>1, <3>1, <3>2 DEF ContractProofs!Next
  <2>4. CASE c.kind = "rejectReport"
    <3>1. ContractProofs!rejectReport(secret, c.id, c.arg)
      BY <1>2, <2>4 DEF circuit, Contract!rejectReport, ContractProofs!rejectReport
    <3>2. c.arg \in Decisions
      BY <2>4 DEF CommandOf, ArgumentFits
    <3>3. QED
      BY <2>1, <3>1, <3>2 DEF ContractProofs!Next
  <2>5. CASE c.kind = "anchorPatch"
    <3>1. Contract!anchorPatch(secret, c.id, w.patch)
      BY <1>2, <2>5 DEF circuit
    <3>2. w.patch[1] = c.id
      BY <3>1 DEF Contract!anchorPatch
    <3>3. w = privateState(s, c)
      BY <1>1, <2>1, <3>2, NoEvidenceIsNone DEF Contract!ReportIds, ContractProofs!ReportIds
    <3>4. w.patch = <<c.id, c.arg>>
      BY <2>5, <3>3 DEF privateState
    <3>5. c.arg \in PatchDigests
      BY <2>5 DEF CommandOf, ArgumentFits
    <3>6. ContractProofs!anchorPatch(secret, c.id, w.patch)
      BY <3>1 DEF Contract!anchorPatch, ContractProofs!anchorPatch,
                  Contract!derivePatchCommitment, ContractProofs!derivePatchCommitment
    <3>7. w.patch \in ContractProofs!ReportIds \X PatchDigests
      BY <2>1, <3>4, <3>5
    <3>8. PICK evidence : evidence = w.patch
      OBVIOUS
    <3>9. QED
      BY <2>1, <3>6, <3>7, <3>8 DEF ContractProofs!Next
  <2>6. CASE c.kind = "submitRetest"
    <3>1. Contract!submitRetest(secret, w.report, c.id, c.arg[3], w.retest)
      BY <1>2, <2>6 DEF circuit
    <3>2. w.report[1] = Program
      BY <3>1 DEF Contract!submitRetest, Contract!assertResearcher
    <3>3. w = privateState(s, c)
      BY <1>1, <3>2, NoEvidenceIsNone
    <3>4. w.report = c.report /\ w.retest = <<c.id, c.arg[1], c.arg[2]>>
      BY <2>6, <3>3 DEF privateState
    <3>5. c.report \in ContractProofs!Preimages
      BY <2>6, ResearcherCommand DEF Contract!Preimages, ContractProofs!Preimages
    <3>6. c.arg[2] \in EvidenceDigests /\ c.arg[3] \in BOOLEAN
      BY <2>6 DEF CommandOf, ArgumentFits
    <3>7. c.arg[1] \in ContractProofs!PatchCommitments
      <4>1. /\ c.id \in DOMAIN reports /\ reports[c.id].status = "PATCH_READY"
            /\ c.arg[1] = reports[c.id].patchCommitment
        BY <3>1, <3>4 DEF Contract!submitRetest
      <4>2. QED
        BY <4>1 DEF ContractProofs!IInv, ContractProofs!RecordsFitStatus,
                    ContractProofs!RecordFitsStatus, ContractProofs!Patched
    <3>8. ContractProofs!submitRetest(secret, c.report, c.id, c.arg[3], w.retest)
      BY <3>1, <3>4 DEF Contract!submitRetest, ContractProofs!submitRetest,
                  Contract!assertResearcher, ContractProofs!assertResearcher,
                  Contract!deriveRetestCommitment, ContractProofs!deriveRetestCommitment
    <3>9. w.retest \in ContractProofs!ReportIds \X ContractProofs!PatchCommitments \X EvidenceDigests
      BY <2>1, <3>4, <3>6, <3>7
    <3>10. PICK evidence : evidence = w.retest
      OBVIOUS
    <3>11. QED
      BY <2>1, <3>5, <3>6, <3>8, <3>9, <3>10 DEF ContractProofs!Next
  <2>7. CASE c.kind = "authorizePayout"
    <3>1. ContractProofs!authorizePayout(secret, c.id, c.arg)
      BY <1>2, <2>7 DEF circuit, Contract!authorizePayout, ContractProofs!authorizePayout,
                  Contract!derivePayoutReceipt, ContractProofs!derivePayoutReceipt
    <3>2. c.arg \in Uint8Inputs
      BY <2>7 DEF CommandOf, ArgumentFits
    <3>3. QED
      BY <2>1, <3>1, <3>2 DEF ContractProofs!Next
  <2>8. CASE c.kind = "closeReport"
    <3>1. ContractProofs!closeReport(secret, c.id)
      BY <1>2, <2>8 DEF circuit, Contract!closeReport, ContractProofs!closeReport
    <3>2. QED
      BY <2>1, <3>1 DEF ContractProofs!Next
  <2>9. QED
    BY <1>5, <2>2, <2>3, <2>4, <2>5, <2>6, <2>7, <2>8 DEF CommandOf, kinds
<1>6. QED
  BY <1>4, <1>5

\* No call takes back a submission: what the ledger names as a report's
\* ciphertext and as its researcher stays.
LEMMA SubmissionsStay ==
  ASSUME ContractProofs!IInv, ContractProofs!Next, NEW id \in DOMAIN reports
  PROVE  /\ id \in DOMAIN reports'
         /\ reports'[id].ciphertextDigest = reports[id].ciphertextDigest
         /\ reports'[id].researcherKey = reports[id].researcherKey
<1>1. PICK i, record : ContractProofs!CallEffect(i, record)
  BY ContractAssumed, ContractProofs!NextIsACall DEF ContractProofs!ACall
<1>2. ContractProofs!insert(i, record) /\ ContractProofs!KeepsSubmission(i, record)
  BY <1>1 DEF ContractProofs!CallEffect
<1>3. QED
  BY <1>2 DEF ContractProofs!insert, ContractProofs!KeepsSubmission

-----------------------------------------------------------------------------
(* Commanded, action by action.                                            *)

\* What a store has held it holds or has retired.
LEMMA StorageGrows ==
  ASSUME Shape, [Next]_vars, NEW st \in Stores
  PROVE  stored[st] \cup retired[st] \subseteq stored'[st] \cup retired'[st]
<1>1. CASE UNCHANGED storage
  BY <1>1 DEF storage
<1>2. ASSUME NEW s \in Sessions, uploadSettles(s)
      PROVE  stored[st] \cup retired[st] \subseteq stored'[st] \cup retired'[st]
  BY <1>2 DEF uploadSettles, put
<1>3. ASSUME NEW o \in Stores, NEW cipher \in stored[o], retire(o, cipher)
      PROVE  stored[st] \cup retired[st] \subseteq stored'[st] \cup retired'[st]
  BY <1>3 DEF retire, Shape
<1>4. ASSUME NEW s \in Sessions,
             \/ connectRole(s) \/ joinRoleVault(s) \/ load(s) \/ loaded(s)
             \/ disclosureVerified(s) \/ readFails(s) \/ expires(s)
             \/ \E package \in Packages : acceptDisclosure(s, package)
             \/ \E d \in vault[s] : upload(s, d)
             \/ \E c \in offered(s) : write(s, c)
      PROVE  UNCHANGED storage
  BY <1>4 DEF connectRole, joinRoleVault, load, loaded, disclosureVerified, readFails, expires,
              acceptDisclosure, upload, write
<1>5. ASSUME NEW s \in Sessions,
             \/ usePrivateState(s) \/ checkStage(s) \/ callFails(s) \/ submitTx(s)
             \/ answered(s) \/ callRejects(s)
      PROVE  UNCHANGED storage
  BY <1>5 DEF usePrivateState, checkStage, callFails, fails, submitTx, answered, callRejects, storage
<1>6. ASSUME NEW tx \in pool, applyTx(tx) \/ dropTx(tx)
      PROVE  UNCHANGED storage
  BY <1>6 DEF applyTx, dropTx
<1>7. CASE UNCHANGED vars
  BY <1>1, <1>7 DEF vars
<1>8. QED
  BY <1>1, <1>2, <1>3, <1>4, <1>5, <1>6, <1>7 DEF Next

\* A command on its way stays ready.
LEMMA ReadyStays ==
  ASSUME Shape, [Next]_vars, NEW s \in Sessions, NEW c, Ready(s, c)
  PROVE  Ready(s, c)'
<1>1. \A st \in Stores : stored[st] \cup retired[st] \subseteq stored'[st] \cup retired'[st]
  BY StorageGrows
<1>2. QED
  BY <1>1 DEF Ready, StoredEverywhere

\* Only session s acts.
OnlyAt(s) ==
    \A t \in Sessions \ {s} :
        /\ doing'[t] = doing[t] /\ job'[t] = job[t]
        /\ vault'[t] = vault[t] /\ view'[t] = view[t] /\ call'[t] = call[t]

\* The others' commands are as they were, and so are the transactions in flight.
LEMMA ActorAlone ==
  ASSUME Busy, Commanded, [Next]_vars, NEW s \in Sessions, OnlyAt(s), SessionCommanded(s)',
         \A tx \in pool' : tx \in pool \/ Ready(tx.by, tx.command)'
  PROVE  Commanded'
<1>1. ASSUME NEW t \in Sessions, t # s
      PROVE  SessionCommanded(t)'
  <2>1. /\ doing'[t] = doing[t] /\ job'[t] = job[t]
        /\ vault'[t] = vault[t] /\ view'[t] = view[t] /\ call'[t] = call[t]
    BY <1>1 DEF OnlyAt
  <2>2. SessionCommanded(t)
    BY DEF Commanded
  <2>3. PICK c : c = call[t].command
    OBVIOUS
  <2>4. at(t) # "none" => Ready(t, c)'
    BY <2>2, <2>3, ReadyStays DEF Busy, SessionCommanded
  <2>5. at(t)' # "none" => Ready(t, call[t].command)'
    BY <2>1, <2>3, <2>4 DEF at, Ready, StoredEverywhere
  <2>6. QED
    BY <2>1, <2>2, <2>5 DEF SessionCommanded, Ready, StoredEverywhere
<1>2. ASSUME NEW tx \in pool'
      PROVE  Ready(tx.by, tx.command)'
  <2>1. CASE tx \in pool
    <3>1. tx.by \in Sessions /\ Ready(tx.by, tx.command)
      BY <2>1 DEF Busy, InFlight, Commanded
    <3>2. PICK t, c : t = tx.by /\ c = tx.command
      OBVIOUS
    <3>3. Ready(t, c)'
      BY <3>1, <3>2, ReadyStays DEF Busy
    <3>4. QED
      BY <3>2, <3>3
  <2>2. QED
    BY <1>2, <2>1
<1>3. QED
  BY <1>1, <1>2 DEF Commanded

\* A snapshot is of a disclosure that the vault holds.
LEMMA ReadingKeepsCommanded ==
  ASSUME Busy, Commanded, [Next]_vars, NEW s \in Sessions,
         \/ connectRole(s) \/ joinRoleVault(s) \/ load(s) \/ loaded(s)
         \/ disclosureVerified(s) \/ readFails(s)
         \/ \E package \in Packages : acceptDisclosure(s, package)
  PROVE  Commanded'
<1>1. UNCHANGED <<pool, call, stored, retired>> /\ OnlyAt(s)
  BY DEF OnlyAt, Busy, Shape, connectRole, joinRoleVault, load, loaded, disclosureVerified, readFails,
         acceptDisclosure, becomes, shows, join, install, chain, ledger, provider, storage
<1>2. SessionCommanded(s)
  BY DEF Commanded
<1>3. /\ doing'[s] \in {"offline", "connecting", "idle", "loading", "accepting"}
      /\ doing'[s] = "accepting" => roleOf(s) = "vendor"
      /\ vault'[s] = vault[s] \/ roleOf(s) = "vendor"
      /\ vault[s] \subseteq vault'[s]
      /\ \/ view'[s] \in {view[s], Nothing}
         \/ \E d \in vault'[s] : view'[s] = viewOf(d)
  <2>1. CASE connectRole(s) \/ load(s) \/ readFails(s)
    BY <2>1 DEF connectRole, load, readFails, becomes, shows, Busy, Shape
  <2>2. CASE joinRoleVault(s) \/ loaded(s)
    BY <2>2 DEF joinRoleVault, loaded, becomes, shows, Busy, Shape
  <2>3. CASE \E package \in Packages : acceptDisclosure(s, package)
    BY <2>3 DEF acceptDisclosure, becomes, Busy, Shape
  <2>4. CASE disclosureVerified(s)
    BY <1>2, <2>4 DEF disclosureVerified, becomes, shows, SessionCommanded, Busy, Shape
  <2>5. QED
    BY <2>1, <2>2, <2>3, <2>4
<1>4. view'[s] # Nothing => view'[s].disclosure \in vault'[s]
  <2>1. \A d : viewOf(d).disclosure = d
    BY DEF viewOf
  <2>2. CASE \E d \in vault'[s] : view'[s] = viewOf(d)
    BY <2>1, <2>2
  <2>3. CASE view'[s] \in {view[s], Nothing}
    BY <1>2, <1>3, <2>3 DEF SessionCommanded
  <2>4. QED
    BY <1>3, <2>2, <2>3
<1>5. SessionCommanded(s)'
  <2>1. roleOf(s) = "researcher" => vault'[s] = Prepared[s]
    BY <1>2, <1>3 DEF SessionCommanded
  <2>2. at(s)' # "none" => Ready(s, call[s].command)'
    BY <1>1, <1>2 DEF SessionCommanded, Ready, StoredEverywhere, at
  <2>3. QED
    BY <1>3, <1>4, <2>1, <2>2 DEF SessionCommanded
<1>6. QED
  BY <1>1, <1>5, ActorAlone

\* An upload, and the submission it may be for.
LEMMA UploadKeepsCommanded ==
  ASSUME Busy, Commanded, [Next]_vars, NEW s \in Sessions, NEW d, NEW then,
         doing[s] \in {"idle", "offline"}, startUpload(s, d, then), UNCHANGED <<pool, call, vault, view, stored, retired>>,
         then # Nothing => CommandOf(s, then) /\ then.kind = "submitReport" /\ d.cipher = then.arg
  PROVE  Commanded'
<1>1. /\ doing'[s] = "uploading" /\ job'[s].then = then /\ job'[s].cipher = d.cipher
      /\ job'[s].after = doing[s]
      /\ OnlyAt(s)
  BY DEF startUpload, becomes, OnlyAt, Busy, Shape
<1>2. SessionCommanded(s)'
  BY <1>1 DEF Commanded, SessionCommanded, Ready, StoredEverywhere, at
<1>3. QED
  BY <1>1, <1>2, ActorAlone

\* A command that joins the queue.
LEMMA EnqueueKeepsCommanded ==
  ASSUME Busy, Commanded, [Next]_vars, NEW s \in Sessions, NEW c, enqueue(s, c), Ready(s, c)',
         becomes(s, "executing", Nothing), shows(s, Nothing), UNCHANGED <<pool, vault>>
  PROVE  Commanded'
<1>1. /\ doing'[s] = "executing" /\ view'[s] = Nothing /\ call'[s].command = c
      /\ vault'[s] = vault[s] /\ OnlyAt(s)
  BY DEF enqueue, becomes, shows, OnlyAt, Busy, Shape
<1>2. SessionCommanded(s)'
  BY <1>1 DEF Commanded, SessionCommanded
<1>3. QED
  BY <1>1, <1>2, ActorAlone

\* A button pressed: a report is uploaded first, any other command queues.
LEMMA WriteKeepsCommanded ==
  ASSUME Busy, Commanded, [Next]_vars, NEW s \in Sessions, NEW c \in offered(s), write(s, c)
  PROVE  Commanded'
<1>1. view[s] # Nothing /\ doing[s] = "idle" /\ UNCHANGED <<pool, vault, stored, retired>>
  BY DEF write, chain, storage
<1>2. CommandOf(s, c) /\ (c.kind = "submitReport" => c.arg = view[s].disclosure.cipher)
  BY <1>1, OfferedFits DEF Commanded
<1>3. CASE c.kind = "submitReport"
  <2>1. PICK d : d = view[s].disclosure
    OBVIOUS
  <2>2. startUpload(s, d, c) /\ UNCHANGED <<call, view>>
    BY <1>3, <2>1 DEF write, provider
  <2>3. QED
    BY <1>1, <1>2, <1>3, <2>1, <2>2, UploadKeepsCommanded
<1>4. CASE c.kind # "submitReport"
  <2>1. becomes(s, "executing", Nothing) /\ shows(s, Nothing) /\ enqueue(s, c)
    BY <1>4 DEF write
  <2>2. Ready(s, c)'
    BY <1>2, <1>4 DEF Ready
  <2>3. QED
    BY <1>1, <2>1, <2>2, EnqueueKeepsCommanded
<1>5. QED
  BY <1>3, <1>4

\* A submission goes on only when every store has acknowledged its ciphertext.
LEMMA SettlingKeepsCommanded ==
  ASSUME Busy, Commanded, [Next]_vars, NEW s \in Sessions, uploadSettles(s)
  PROVE  Commanded'
<1>1. PICK answer \in [Stores -> Answers] :
         /\ put(job[s].cipher, answer)
         /\ IF complete(answer) /\ job[s].then # Nothing
            THEN /\ becomes(s, "executing", Nothing)
                 /\ shows(s, Nothing)
                 /\ enqueue(s, job[s].then)
            ELSE becomes(s, job[s].after, Nothing) /\ UNCHANGED <<view, provider>>
  BY DEF uploadSettles
<1>2. UNCHANGED <<pool, vault>> /\ doing[s] = "uploading"
  BY DEF uploadSettles, chain
<1>3. SessionCommanded(s)
  BY DEF Commanded
<1>4. CASE complete(answer) /\ job[s].then # Nothing
  <2>1. PICK c : c = job[s].then
    OBVIOUS
  <2>2. becomes(s, "executing", Nothing) /\ shows(s, Nothing) /\ enqueue(s, c)
    BY <1>1, <1>4, <2>1
  <2>3. CommandOf(s, c) /\ job[s].cipher = c.arg
    BY <1>2, <1>3, <1>4, <2>1 DEF SessionCommanded
  <2>4. \A st \in Stores : c.arg \in stored'[st]
    BY <1>1, <1>4, <2>3 DEF put, complete
  <2>5. Ready(s, c)'
    BY <2>3, <2>4 DEF Ready, StoredEverywhere
  <2>6. QED
    BY <1>2, <2>2, <2>5, EnqueueKeepsCommanded
<1>5. CASE ~(complete(answer) /\ job[s].then # Nothing)
  <2>1. becomes(s, job[s].after, Nothing) /\ UNCHANGED <<view, call>>
    BY <1>1, <1>5 DEF provider
  <2>2. OnlyAt(s) /\ doing'[s] = job[s].after /\ at(s) = "none" /\ at(s)' = "none"
    BY <1>2, <2>1 DEF becomes, OnlyAt, Busy, Shape, Occupied, at
  <2>3. job[s].after \in {"idle", "offline"}
    BY <1>2, <1>3 DEF SessionCommanded
  <2>4. SessionCommanded(s)'
    BY <1>2, <1>3, <2>1, <2>2, <2>3 DEF SessionCommanded
  <2>5. QED
    BY <1>2, <2>2, <2>4, ActorAlone
<1>6. QED
  BY <1>4, <1>5

\* An upload for its own sake, a deadline, a retirement.
LEMMA WaitingKeepsCommanded ==
  ASSUME Busy, Commanded, [Next]_vars,
         \/ \E st \in Stores : \E cipher \in stored[st] : retire(st, cipher)
         \/ \E s \in Sessions : expires(s)
         \/ \E s \in Sessions : \E d \in vault[s] : upload(s, d)
         \/ UNCHANGED vars
  PROVE  Commanded'
<1>1. CASE \/ \E st \in Stores : \E cipher \in stored[st] : retire(st, cipher)
           \/ UNCHANGED vars
  <2>1. UNCHANGED <<pool, call, doing, job, vault, view>>
    BY <1>1 DEF retire, vars, chain, ledger, provider
  <2>2. ASSUME NEW s \in Sessions
        PROVE  SessionCommanded(s)'
    <3>1. OnlyAt(s) /\ SessionCommanded(s)
      BY <2>1 DEF OnlyAt, Commanded
    <3>2. PICK c : c = call[s].command
      OBVIOUS
    <3>3. at(s) # "none" => Ready(s, c)'
      BY <3>1, <3>2, ReadyStays DEF Busy, SessionCommanded
    <3>4. at(s)' # "none" => Ready(s, call[s].command)'
      BY <2>1, <3>2, <3>3 DEF at, Ready, StoredEverywhere
    <3>5. QED
      BY <2>1, <3>1, <3>4 DEF SessionCommanded
  <2>3. ASSUME NEW tx \in pool
        PROVE  Ready(tx.by, tx.command)'
    <3>1. tx.by \in Sessions /\ Ready(tx.by, tx.command)
      BY DEF Busy, InFlight, Commanded
    <3>2. PICK t, c : t = tx.by /\ c = tx.command
      OBVIOUS
    <3>3. Ready(t, c)'
      BY <3>1, <3>2, ReadyStays DEF Busy
    <3>4. QED
      BY <3>2, <3>3
  <2>4. QED
    BY <2>1, <2>2, <2>3 DEF Commanded
<1>2. ASSUME NEW s \in Sessions, expires(s)
      PROVE  Commanded'
  <2>1. /\ UNCHANGED <<pool, call, vault, view, stored, retired>>
        /\ doing'[s] = "lost" /\ OnlyAt(s)
    BY <1>2 DEF expires, becomes, OnlyAt, Busy, Shape, chain, ledger, provider, storage
  <2>2. SessionCommanded(s)'
    BY <2>1 DEF Commanded, SessionCommanded, Ready, StoredEverywhere, at
  <2>3. QED
    BY <2>1, <2>2, ActorAlone
<1>3. ASSUME NEW s \in Sessions, NEW d \in vault[s], upload(s, d)
      PROVE  Commanded'
  <2>1. PICK then : then = Nothing
    OBVIOUS
  <2>2. /\ startUpload(s, d, then) /\ doing[s] \in {"idle", "offline"}
        /\ UNCHANGED <<pool, call, vault, view, stored, retired>>
    BY <1>3, <2>1 DEF upload, chain, ledger, provider, storage
  <2>3. QED
    BY <2>1, <2>2, UploadKeepsCommanded
<1>4. QED
  BY <1>1, <1>2, <1>3

\* A call that goes on takes its command along.
LEMMA ProvingKeepsCommanded ==
  ASSUME Busy, Commanded, [Next]_vars, NEW s \in Sessions,
         at(s) # "none", NEW step \in AtWork, call' = [call EXCEPT ![s].step = step],
         UNCHANGED <<queue, doing, job, vault, view, stored, retired>>,
         DOMAIN installed' = DOMAIN installed,
         \A tx \in pool' : tx \in pool \/ (tx.by = s /\ tx.command = call[s].command)
  PROVE  Commanded'
<1>1. PICK c : c = call[s].command
  OBVIOUS
<1>2. at(s)' = step /\ call'[s].command = c /\ \A t \in Sessions : t # s => call'[t] = call[t]
  BY <1>1, GoneOn
<1>3. SessionCommanded(s) /\ Ready(s, c)
  BY <1>1 DEF Commanded, SessionCommanded
<1>4. Ready(s, c)'
  BY <1>3, ReadyStays DEF Busy
<1>5. SessionCommanded(s)'
  <2>1. Ready(s, call[s].command)'
    BY <1>2, <1>4 DEF Ready, StoredEverywhere
  <2>2. QED
    BY <1>3, <2>1 DEF SessionCommanded
<1>6. OnlyAt(s)
  BY <1>2 DEF OnlyAt
<1>7. \A tx \in pool' : tx \in pool \/ Ready(tx.by, tx.command)'
  BY <1>1, <1>4 DEF Ready, StoredEverywhere
<1>8. QED
  BY <1>5, <1>6, <1>7, ActorAlone

\* A call that is over has no command left.
LEMMA EndKeepsCommanded ==
  ASSUME Busy, Commanded, [Next]_vars, NEW s \in Sessions, release(s),
         UNCHANGED <<vault, view>>, pool' \subseteq pool,
         \/ UNCHANGED <<doing, job>>
         \/ \E what \in {"idle", "loading", "lost"} : \E j : becomes(s, what, j)
  PROVE  Commanded'
<1>1. /\ at(s)' = "none" /\ vault'[s] = vault[s] /\ view'[s] = view[s] /\ OnlyAt(s)
      /\ \/ doing'[s] = doing[s] /\ job'[s] = job[s]
         \/ doing'[s] \in {"idle", "loading", "lost"}
  BY DEF release, NoCall, becomes, OnlyAt, Busy, Shape, at
<1>2. SessionCommanded(s)'
  BY <1>1 DEF Commanded, SessionCommanded
<1>3. QED
  BY <1>1, <1>2, ActorAlone

\* Every step keeps the commands.
LEMMA CommandedStep == Busy /\ Commanded /\ [Next]_vars => Commanded'
<1> SUFFICES ASSUME Busy, Commanded, [Next]_vars
             PROVE  Commanded'
  OBVIOUS
<1>1. ASSUME NEW s \in Sessions, usePrivateState(s)
      PROVE  Commanded'
  <2>1. /\ at(s) # "none" /\ call' = [call EXCEPT ![s].step = "installed"]
        /\ UNCHANGED <<pool, queue, doing, job, vault, view, stored, retired>>
        /\ DOMAIN installed' = DOMAIN installed
    BY <1>1 DEF usePrivateState, install, at, chain, ledger, storage
  <2>2. QED
    BY <2>1, ProvingKeepsCommanded DEF AtWork
<1>2. ASSUME NEW s \in Sessions, submitTx(s)
      PROVE  Commanded'
  <2>1. /\ at(s) # "none" /\ call' = [call EXCEPT ![s].step = "sent"]
        /\ UNCHANGED <<queue, doing, job, vault, view, stored, retired, installed>>
        /\ \A tx \in pool' : tx \in pool \/ (tx.by = s /\ tx.command = call[s].command)
    BY <1>2 DEF submitTx, at, storage
  <2>2. QED
    BY <2>1, ProvingKeepsCommanded DEF AtWork
<1>3. ASSUME NEW s \in Sessions, checkStage(s), verifyProgram(s), stageAllows(s, call[s].command)
      PROVE  Commanded'
  <2>1. /\ at(s) # "none" /\ call' = [call EXCEPT ![s].step = "checked"]
        /\ UNCHANGED <<pool, queue, doing, job, vault, view, stored, retired, installed>>
    BY <1>3 DEF checkStage, at, chain, ledger, storage
  <2>2. QED
    BY <2>1, ProvingKeepsCommanded DEF AtWork
<1>4. ASSUME NEW tx \in pool, applyTx(tx) \/ dropTx(tx)
      PROVE  Commanded'
  <2>1. /\ UNCHANGED <<queue, doing, job, vault, view, stored, retired, installed>>
        /\ pool' \subseteq pool
    BY <1>4, TransactionGone
  <2>2. CASE CallsStand
    <3>1. \A s \in Sessions : SessionCommanded(s)'
      BY <2>1, <2>2 DEF CallsStand, Commanded, SessionCommanded, Ready, StoredEverywhere, at
    <3>2. \A u \in pool' : Ready(u.by, u.command)'
      BY <2>1 DEF Commanded, Ready, StoredEverywhere
    <3>3. QED
      BY <3>1, <3>2 DEF Commanded
  <2>3. ASSUME NEW s \in Sessions, at(s) = "sent", call' = [call EXCEPT ![s].step = "final"]
        PROVE  Commanded'
    BY <2>1, <2>3, ProvingKeepsCommanded DEF AtWork
  <2>4. QED
    BY <1>4, <2>2, <2>3, TransactionGone
<1>5. ASSUME NEW s \in Sessions, fails(s) \/ answered(s) \/ callRejects(s)
      PROVE  Commanded'
  <2>1. /\ release(s) /\ UNCHANGED <<vault, view>> /\ pool' \subseteq pool
        /\ \/ UNCHANGED <<doing, job>>
           \/ \E what \in {"idle", "loading", "lost"} : \E j : becomes(s, what, j)
    <3>1. CASE fails(s)
      BY <3>1 DEF fails, chain
    <3>2. CASE answered(s)
      BY <3>2 DEF answered, chain
    <3>3. CASE callRejects(s)
      BY <3>3 DEF callRejects, chain
    <3>4. QED
      BY <1>5, <3>1, <3>2, <3>3
  <2>2. QED
    BY <2>1, EndKeepsCommanded
<1>6. ASSUME NEW s \in Sessions, checkStage(s) \/ callFails(s)
      PROVE  Commanded'
  BY <1>3, <1>5, <1>6 DEF checkStage, callFails
<1>7. ASSUME NEW s \in Sessions, view[s] # Nothing, \E c \in offered(s) : write(s, c)
      PROVE  Commanded'
  BY <1>7, WriteKeepsCommanded
<1>8. QED
  BY <1>1, <1>2, <1>4, <1>5, <1>6, <1>7, ReadingKeepsCommanded, WaitingKeepsCommanded,
     SettlingKeepsCommanded DEF Next

-----------------------------------------------------------------------------
(* What a provider holds.                                                  *)

\* Only one call of a provider is past its queue.
LEMMA OneAtWork ==
  ASSUME Busy, NEW s \in Sessions, NEW t \in Sessions, providerOf[s] = providerOf[t],
         at(s) \in AtWork,
         \/ at(t) \in AtWork
         \/ at(t) = "queued" /\ Head(queue[providerOf[t]]) = t
  PROVE  s = t
<1>1. /\ queue[providerOf[s]] \in Seq(Sessions) /\ queue[providerOf[s]] # <<>>
      /\ queue[providerOf[s]][1] = s
  BY AtHead DEF Busy
<1>2. queue[providerOf[t]][1] = t
  <2>1. CASE at(t) \in AtWork
    BY <2>1, AtHead DEF Busy
  <2>2. CASE Head(queue[providerOf[t]]) = t
    BY <1>1, <2>2
  <2>3. QED
    BY <2>1, <2>2
<1>3. QED
  BY <1>1, <1>2

\* Steps that install nothing and let no call go on.
LEMMA InstalledAlone ==
  ASSUME Busy, Installed, pool' \subseteq pool,
         \A s \in Sessions : at(s)' \in {"installed", "checked"} =>
            /\ at(s) \in {"installed", "checked"} /\ call'[s].command = call[s].command
            /\ \/ installed'[providerOf[s]] = installed[providerOf[s]]
               \/ \E t \in Sessions : installed'[providerOf[s]] = joinState(t)
  PROVE  Installed'
<1>1. ASSUME NEW s \in Sessions, at(s)' \in {"installed", "checked"}
      PROVE  Witnessed(s, call'[s].command, installed'[providerOf[s]])
  BY <1>1 DEF Installed, Witnessed
<1>2. \A tx \in pool' : Witnessed(tx.by, tx.command, tx.witnesses)
  BY DEF Installed
<1>3. QED
  BY <1>1, <1>2 DEF Installed, Witnessed, privateState, joinState

\* A call that has its turn finds its own state, and only a join replaces it.
LEMMA InstalledStep == Busy /\ Installed /\ [Next]_vars => Installed'
<1> SUFFICES ASSUME Busy, Installed, [Next]_vars
             PROVE  Installed'
  OBVIOUS
<1>1. CASE UNCHANGED <<pool, installed, call>>
  BY <1>1, InstalledAlone DEF at
<1>2. ASSUME NEW s \in Sessions, joinRoleVault(s)
      PROVE  Installed'
  <2>1. UNCHANGED <<pool, call>> /\ installed' = [installed EXCEPT ![providerOf[s]] = joinState(s)]
    BY <1>2 DEF joinRoleVault, join, install, chain
  <2>2. \A t \in Sessions : \/ installed'[providerOf[t]] = installed[providerOf[t]]
                            \/ installed'[providerOf[t]] = joinState(s)
    <3>1. \A t \in Sessions : providerOf[t] \in DOMAIN installed
      BY DEF Busy, Shape, Providers
    <3>2. QED
      BY <2>1, <3>1
  <2>3. QED
    BY <2>1, <2>2, InstalledAlone DEF at
<1>3. ASSUME NEW s \in Sessions, NEW c, enqueue(s, c), UNCHANGED pool
      PROVE  Installed'
  <2>1. call' = [call EXCEPT ![s] = [command |-> c, step |-> "queued"]]
    BY <1>3 DEF enqueue
  <2>2. at(s)' = "queued" /\ \A t \in Sessions : t # s => at(t)' = at(t) /\ call'[t] = call[t]
    BY <2>1, CallMoved DEF Busy, Steps
  <2>3. installed' = installed
    BY <1>3 DEF enqueue
  <2>4. QED
    BY <1>3, <2>2, <2>3, InstalledAlone
<1>4. ASSUME NEW s \in Sessions, release(s), pool' \subseteq pool
      PROVE  Installed'
  <2>1. call' = [call EXCEPT ![s] = [command |-> Nothing, step |-> "none"]]
    BY <1>4 DEF release, NoCall
  <2>2. at(s)' = "none" /\ \A t \in Sessions : t # s => at(t)' = at(t) /\ call'[t] = call[t]
    BY <2>1, CallMoved DEF Busy, Steps
  <2>3. installed' = installed
    BY <1>4 DEF release
  <2>4. QED
    BY <1>4, <2>2, <2>3, InstalledAlone
<1>5. ASSUME NEW s \in Sessions, checkStage(s)
      PROVE  Installed'
  <2>1. CASE fails(s)
    BY <1>4, <2>1 DEF fails, chain
  <2>2. CASE verifyProgram(s) /\ stageAllows(s, call[s].command)
    <3>1. /\ call' = [call EXCEPT ![s].step = "checked"]
          /\ UNCHANGED <<queue, doing, job, vault, view, stored, retired, installed, pool>>
          /\ at(s) = "installed"
      BY <1>5, <2>2 DEF checkStage, chain, storage, at
    <3>2. /\ call'[s].command = call[s].command
          /\ \A t \in Sessions : t # s => at(t)' = at(t) /\ call'[t] = call[t]
      BY <3>1, GoneOn DEF AtWork
    <3>3. QED
      BY <3>1, <3>2, InstalledAlone
  <2>3. QED
    BY <1>5, <2>1, <2>2 DEF checkStage
<1>6. ASSUME NEW s \in Sessions, usePrivateState(s)
      PROVE  Installed'
  <2>1. /\ call' = [call EXCEPT ![s].step = "installed"]
        /\ UNCHANGED <<queue, doing, job, vault, view, stored, retired, pool>>
        /\ installed' = [installed EXCEPT ![providerOf[s]] = privateState(s, call[s].command)]
        /\ at(s) = "queued" /\ Head(queue[providerOf[s]]) = s
    BY <1>6 DEF usePrivateState, install, chain, storage, at
  <2>2. PICK c : c = call[s].command
    OBVIOUS
  <2>3. /\ call'[s].command = c
        /\ \A t \in Sessions : t # s => at(t)' = at(t) /\ call'[t] = call[t]
    BY <2>1, <2>2, GoneOn DEF AtWork
  <2>4. \A t \in Sessions : providerOf[t] \in DOMAIN installed
    BY DEF Busy, Shape, Providers
  <2>5. installed'[providerOf[s]] = privateState(s, c)
    BY <2>1, <2>2, <2>4
  <2>6. ASSUME NEW t \in Sessions, at(t)' \in {"installed", "checked"}
        PROVE  Witnessed(t, call'[t].command, installed'[providerOf[t]])
    <3>1. CASE t = s
      BY <2>3, <2>5, <3>1 DEF Witnessed
    <3>2. CASE t # s
      <4>1. at(t) \in {"installed", "checked"} /\ call'[t] = call[t]
        BY <2>3, <2>6, <3>2
      <4>2. providerOf[t] # providerOf[s]
        BY <2>1, <3>2, <4>1, OneAtWork DEF AtWork
      <4>3. installed'[providerOf[t]] = installed[providerOf[t]]
        BY <2>1, <2>4, <4>2
      <4>4. QED
        BY <4>1, <4>3 DEF Installed
    <3>3. QED
      BY <3>1, <3>2
  <2>7. \A tx \in pool' : Witnessed(tx.by, tx.command, tx.witnesses)
    BY <2>1 DEF Installed
  <2>8. QED
    BY <2>6, <2>7 DEF Installed, Witnessed, privateState, joinState
<1>7. ASSUME NEW s \in Sessions, submitTx(s)
      PROVE  Installed'
  <2>1. /\ call' = [call EXCEPT ![s].step = "sent"]
        /\ UNCHANGED <<queue, doing, job, vault, view, stored, retired, installed>>
        /\ at(s) = "checked"
        /\ pool' = pool \cup {[by |-> s, witnesses |-> installed[providerOf[s]],
                               command |-> call[s].command]}
    BY <1>7 DEF submitTx, storage, at
  <2>2. at(s)' = "sent" /\ \A t \in Sessions : t # s => at(t)' = at(t) /\ call'[t] = call[t]
    BY <2>1, GoneOn DEF AtWork
  <2>3. Witnessed(s, call[s].command, installed[providerOf[s]])
    BY <2>1 DEF Installed
  <2>4. \A tx \in pool' : Witnessed(tx.by, tx.command, tx.witnesses)
    BY <2>1, <2>3 DEF Installed
  <2>5. \A t \in Sessions : at(t)' \in {"installed", "checked"} =>
           Witnessed(t, call'[t].command, installed'[providerOf[t]])
    BY <2>1, <2>2 DEF Installed
  <2>6. QED
    BY <2>4, <2>5 DEF Installed, Witnessed, privateState, joinState
<1>8. ASSUME NEW tx \in pool, applyTx(tx) \/ dropTx(tx)
      PROVE  Installed'
  <2>1. /\ UNCHANGED <<queue, doing, job, vault, view, stored, retired, installed>>
        /\ pool' \subseteq pool
    BY <1>8, TransactionGone
  <2>2. CASE CallsStand
    BY <2>1, <2>2, InstalledAlone DEF CallsStand, at
  <2>3. ASSUME NEW s \in Sessions, at(s) = "sent", call' = [call EXCEPT ![s].step = "final"]
        PROVE  Installed'
    <3>1. at(s)' = "final" /\ \A t \in Sessions : t # s => at(t)' = at(t) /\ call'[t] = call[t]
      BY <2>1, <2>3, GoneOn DEF AtWork
    <3>2. QED
      BY <2>1, <3>1, InstalledAlone
  <2>4. QED
    BY <1>8, <2>2, <2>3, TransactionGone
<1>9. ASSUME NEW s \in Sessions,
             \/ connectRole(s) \/ load(s) \/ loaded(s) \/ disclosureVerified(s) \/ readFails(s)
             \/ expires(s) \/ \E package \in Packages : acceptDisclosure(s, package)
             \/ \E d \in vault[s] : upload(s, d)
      PROVE  Installed'
  BY <1>1, <1>9 DEF connectRole, load, loaded, disclosureVerified, readFails, expires,
                    acceptDisclosure, upload, chain, provider
<1>10. ASSUME NEW s \in Sessions, uploadSettles(s) \/ \E c \in offered(s) : write(s, c)
       PROVE  Installed'
  <2>1. UNCHANGED pool /\ (UNCHANGED <<installed, call>> \/ \E c : enqueue(s, c))
    BY <1>10 DEF uploadSettles, write, chain, provider
  <2>2. QED
    BY <1>1, <1>3, <2>1
<1>11. ASSUME NEW s \in Sessions, callFails(s) \/ answered(s) \/ callRejects(s)
       PROVE  Installed'
  BY <1>4, <1>11 DEF callFails, fails, answered, callRejects, chain
<1>12. CASE \/ UNCHANGED vars
            \/ \E st \in Stores : \E cipher \in stored[st] : retire(st, cipher)
  BY <1>1, <1>12 DEF vars, chain, provider, retire
<1>13. QED
  BY <1>2, <1>5, <1>6, <1>7, <1>8, <1>9, <1>10, <1>11, <1>12 DEF Next

-----------------------------------------------------------------------------
(* The ledger.                                                             *)

\* Only a transaction that is applied changes the ledger, and it is a call of
\* the contract.
LEMMA LedgerStep ==
  ASSUME Busy, Installed, Commanded, ContractProofs!IInv, [Next]_vars
  PROVE  \/ UNCHANGED ledger
         \/ /\ ContractProofs!Next
            /\ \E tx \in pool : applyTx(tx)
<1>1. ASSUME NEW tx \in pool, applyTx(tx)
      PROVE  ContractProofs!Next
  <2>1. PICK s, c, w : s = tx.by /\ c = tx.command /\ w = tx.witnesses
    OBVIOUS
  <2>2. s \in Sessions /\ CommandOf(s, c) /\ Witnessed(s, c, w)
    BY <2>1 DEF Busy, InFlight, Commanded, Ready, Installed
  <2>3. circuit(w, c)
    BY <1>1, <2>1 DEF applyTx
  <2>4. QED
    BY <2>2, <2>3, CircuitIsNext
<1>2. ASSUME NEW s \in Sessions,
             \/ connectRole(s) \/ joinRoleVault(s) \/ load(s) \/ loaded(s)
             \/ disclosureVerified(s) \/ readFails(s) \/ expires(s) \/ uploadSettles(s)
             \/ \E package \in Packages : acceptDisclosure(s, package)
             \/ \E d \in vault[s] : upload(s, d)
             \/ \E c \in offered(s) : write(s, c)
      PROVE  UNCHANGED ledger
  BY <1>2 DEF connectRole, joinRoleVault, load, loaded, disclosureVerified, readFails, expires,
              uploadSettles, acceptDisclosure, upload, write, chain, ledger
<1>3. ASSUME NEW s \in Sessions,
             \/ usePrivateState(s) \/ checkStage(s) \/ callFails(s) \/ submitTx(s)
             \/ answered(s) \/ callRejects(s)
      PROVE  UNCHANGED ledger
  BY <1>3 DEF usePrivateState, checkStage, callFails, fails, submitTx, answered, callRejects, chain, ledger
<1>4. ASSUME NEW st \in Stores, NEW cipher \in stored[st], retire(st, cipher)
      PROVE  UNCHANGED ledger
  BY <1>4 DEF retire, chain, ledger
<1>5. ASSUME NEW tx \in pool, dropTx(tx)
      PROVE  UNCHANGED ledger
  BY <1>5 DEF dropTx
<1>6. CASE UNCHANGED vars
  BY <1>6 DEF vars, chain, ledger
<1>7. QED
  BY <1>1, <1>2, <1>3, <1>4, <1>5, <1>6 DEF Next

\* A circuit accepts only what the session would still allow at that moment.
LEMMA CircuitChecksStage ==
  ASSUME NEW s \in Sessions, NEW c, NEW w, CommandOf(s, c), Witnessed(s, c, w), circuit(w, c)
  PROVE  stageAllows(s, c)
<1> USE DEF stageAllows, stages, circuit, Contract!loadReport
<1>1. CASE c.kind = "submitReport"
  <2>1. Contract!submitReport(w.actorSecret, w.report, c.arg) /\ w.report = c.report
    BY <1>1, SubmissionEnters
  <2>2. c.id = Contract!deriveReportCommitment(c.report[1], c.report[2], c.report[3])
    BY <1>1, ResearcherCommand
  <2>3. QED
    BY <1>1, <2>1, <2>2 DEF Contract!submitReport
<1>2. CASE c.kind \in {"beginTriage", "closeReport", "authorizePayout"}
  BY <1>2 DEF Contract!beginTriage, Contract!closeReport, Contract!authorizePayout
<1>3. CASE c.kind \in {"acceptReport", "rejectReport", "anchorPatch"}
  BY <1>3 DEF Contract!acceptReport, Contract!rejectReport, Contract!anchorPatch
<1>4. CASE c.kind = "submitRetest"
  <2>1. Contract!submitRetest(w.actorSecret, w.report, c.id, c.arg[3], w.retest)
    BY <1>4
  <2>2. w.report[1] = Program
    BY <2>1 DEF Contract!submitRetest, Contract!assertResearcher
  <2>3. w = privateState(s, c)
    BY <2>2, Witnesses, NoEvidenceIsNone
  <2>4. w.actorSecret = identity[s].actorSecret /\ w.retest = <<c.id, c.arg[1], c.arg[2]>>
    BY <1>4, <2>3 DEF privateState
  <2>5. QED
    BY <1>4, <2>1, <2>4 DEF Contract!submitRetest, Contract!assertResearcher
<1>5. QED
  BY <1>1, <1>2, <1>3, <1>4 DEF CommandOf, kinds

\* A report that is new on the ledger is the one of the command that a session
\* called, and its ciphertext is at every store.
LEMMA NewReport ==
  ASSUME Busy, Installed, Commanded, NEW tx \in pool, applyTx(tx),
         NEW id \in DOMAIN reports' \ DOMAIN reports
  PROVE  /\ \E s \in Sessions : \E d \in Prepared[s] :
               /\ roleOf(s) = "researcher"
               /\ d.id = id /\ d.cipher = reports'[id].ciphertextDigest
               /\ reports'[id].researcherKey =
                     Contract!deriveResearcherKey(Program, id, identity[s].actorSecret)
         /\ StoredEverywhere(reports'[id].ciphertextDigest)
<1>1. PICK s, c, w : s = tx.by /\ c = tx.command /\ w = tx.witnesses
  OBVIOUS
<1>2. s \in Sessions /\ Ready(s, c) /\ CommandOf(s, c) /\ Witnessed(s, c, w)
  BY <1>1 DEF Busy, InFlight, Commanded, Ready, Installed
<1>3. circuit(w, c)
  BY <1>1 DEF applyTx
<1>4. c.kind = "submitReport"
  BY <1>3, OtherCircuits
<1>5. /\ DOMAIN reports' = DOMAIN reports \cup {c.id}
      /\ reports'[c.id].ciphertextDigest = c.arg
      /\ reports'[c.id].researcherKey =
            Contract!deriveResearcherKey(Program, c.id, identity[s].actorSecret)
  BY <1>2, <1>3, <1>4, SubmissionEnters
<1>6. id = c.id
  BY <1>5
<1>7. /\ roleOf(s) = "researcher"
      /\ \E d \in Prepared[s] : d.id = c.id /\ d.cipher = c.arg
  BY <1>2, <1>4, ResearcherCommand
<1>8. StoredEverywhere(c.arg)
  BY <1>2, <1>4 DEF Ready
<1>9. QED
  BY <1>2, <1>5, <1>6, <1>7, <1>8

\* What the ledger says of a report's submission stays.
LEMMA ReportsStay ==
  ASSUME SessionInv, [Next]_vars, NEW id \in DOMAIN reports
  PROVE  /\ id \in DOMAIN reports'
         /\ reports'[id].ciphertextDigest = reports[id].ciphertextDigest
         /\ reports'[id].researcherKey = reports[id].researcherKey
<1>1. CASE UNCHANGED ledger
  BY <1>1 DEF ledger
<1>2. CASE ContractProofs!Next
  BY <1>2, SubmissionsStay DEF SessionInv
<1>3. QED
  BY <1>1, <1>2, LedgerStep DEF SessionInv

\* Every step keeps every record's ciphertext stored.
LEMMA StoredStep == SessionInv /\ [Next]_vars => LedgerReportsAreStored'
<1> SUFFICES ASSUME SessionInv, [Next]_vars, NEW id \in DOMAIN reports', NEW st \in Stores
             PROVE  reports'[id].ciphertextDigest \in stored'[st] \cup retired'[st]
  BY DEF LedgerReportsAreStored
<1>1. stored[st] \cup retired[st] \subseteq stored'[st] \cup retired'[st]
  BY StorageGrows DEF SessionInv, Busy
<1>2. CASE id \in DOMAIN reports
  BY <1>1, <1>2, ReportsStay DEF SessionInv, LedgerReportsAreStored
<1>3. CASE id \notin DOMAIN reports
  <2>1. PICK tx \in pool : applyTx(tx)
    BY <1>3, LedgerStep DEF SessionInv, ledger
  <2>2. StoredEverywhere(reports'[id].ciphertextDigest)
    BY <1>3, <2>1, NewReport DEF SessionInv
  <2>3. QED
    BY <1>1, <2>2 DEF StoredEverywhere
<1>4. QED
  BY <1>2, <1>3

\* What a vendor holds the ledger knows.
LEMMA VendorVaultStep ==
  ASSUME SessionInv, [Next]_vars, NEW s \in Sessions, roleOf(s) = "vendor", NEW d \in vault'[s]
  PROVE  d.id \in DOMAIN reports' /\ reports'[d.id].ciphertextDigest = d.cipher
<1>1. CASE d \in vault[s]
  <2>1. d.id \in DOMAIN reports /\ reports[d.id].ciphertextDigest = d.cipher
    BY <1>1 DEF SessionInv, RecordsAreWhole
  <2>2. QED
    BY <2>1, ReportsStay
<1>2. ASSUME d \notin vault[s], NEW t \in Sessions, disclosureVerified(t)
      PROVE  d.id \in DOMAIN reports' /\ reports'[d.id].ciphertextDigest = d.cipher
  <2>1. d.id \in DOMAIN reports /\ reports[d.id].ciphertextDigest = d.cipher
    BY <1>2 DEF disclosureVerified, SessionInv, Busy, Shape
  <2>2. UNCHANGED reports
    BY <1>2 DEF disclosureVerified, chain, ledger
  <2>3. QED
    BY <2>1, <2>2
<1>3. UNCHANGED vault \/ \E t \in Sessions : disclosureVerified(t)
  <2>1. ASSUME NEW t \in Sessions,
               \/ connectRole(t) \/ joinRoleVault(t) \/ load(t) \/ loaded(t)
               \/ readFails(t) \/ expires(t) \/ uploadSettles(t)
               \/ \E package \in Packages : acceptDisclosure(t, package)
               \/ \E e \in vault[t] : upload(t, e)
               \/ \E c \in offered(t) : write(t, c)
        PROVE  UNCHANGED vault
    BY <2>1 DEF connectRole, joinRoleVault, load, loaded, readFails, expires,
                uploadSettles, acceptDisclosure, upload, write
  <2>2. ASSUME NEW t \in Sessions,
               \/ usePrivateState(t) \/ checkStage(t) \/ callFails(t) \/ submitTx(t)
               \/ answered(t) \/ callRejects(t)
        PROVE  UNCHANGED vault
    BY <2>2 DEF usePrivateState, checkStage, callFails, fails, submitTx, answered, callRejects
  <2>3. ASSUME NEW st \in Stores, NEW cipher \in stored[st], retire(st, cipher)
        PROVE  UNCHANGED vault
    BY <2>3 DEF retire
  <2>4. ASSUME NEW tx \in pool, applyTx(tx) \/ dropTx(tx)
        PROVE  UNCHANGED vault
    BY <2>4 DEF applyTx, dropTx
  <2>5. QED
    BY <2>1, <2>2, <2>3, <2>4 DEF Next, vars
<1>4. QED
  BY <1>1, <1>2, <1>3

\* Every step keeps the records whole.
LEMMA WholeStep == SessionInv /\ [Next]_vars => RecordsAreWhole'
<1> SUFFICES ASSUME SessionInv, [Next]_vars
             PROVE  RecordsAreWhole'
  OBVIOUS
<1>1. ASSUME NEW id \in DOMAIN reports'
      PROVE  \E s \in Sessions : \E d \in Prepared[s] :
                /\ roleOf(s) = "researcher"
                /\ d.id = id /\ d.cipher = reports'[id].ciphertextDigest
                /\ reports'[id].researcherKey =
                      Contract!deriveResearcherKey(Program, id, identity[s].actorSecret)
  <2>1. CASE id \in DOMAIN reports
    BY <2>1, ReportsStay DEF SessionInv, RecordsAreWhole
  <2>2. CASE id \notin DOMAIN reports
    <3>1. PICK tx \in pool : applyTx(tx)
      BY <1>1, <2>2, LedgerStep DEF SessionInv, ledger
    <3>2. QED
      BY <1>1, <2>2, <3>1, NewReport DEF SessionInv
  <2>3. QED
    BY <2>1, <2>2
<1>2. \A s \in Sessions : roleOf(s) = "vendor" =>
         \A d \in vault'[s] : d.id \in DOMAIN reports' /\ reports'[d.id].ciphertextDigest = d.cipher
  BY VendorVaultStep
<1>3. QED
  BY <1>1, <1>2 DEF RecordsAreWhole, roleOf, Contract!deriveResearcherKey

-----------------------------------------------------------------------------
(* Results.                                                                *)

\* The contract has just been constructed, and nobody has connected.
LEMMA SessionInitially == Init => SessionInv
<1> SUFFICES ASSUME Init
             PROVE  SessionInv
  OBVIOUS
<1>1. Busy
  BY BusyInitially
<1>2. Installed
  BY DEF Init, Installed, at, NoCall
<1>3. Commanded
  BY DEF Init, Commanded, SessionCommanded, at, NoCall
<1>4. DOMAIN reports = {}
  BY DEF Init, Contract!Init
<1>5. ContractProofs!IInv
  <2>1. ContractProofs!Init
    BY DEF Init, Contract!Init, ContractProofs!Init, Contract!Zero, ContractProofs!Zero
  <2>2. QED
    BY <2>1, ContractAssumed, ContractProofs!InitInvariant
<1>6. \A s \in Sessions : roleOf(s) = "vendor" => vault[s] = {}
  BY SessionConstants DEF Init
<1>7. RecordsAreWhole /\ LedgerReportsAreStored
  BY <1>4, <1>6 DEF RecordsAreWhole, LedgerReportsAreStored
<1>8. QED
  BY <1>1, <1>2, <1>3, <1>5, <1>7 DEF SessionInv

\* Every step keeps the invariant.
LEMMA SessionStep == SessionInv /\ [Next]_vars => SessionInv'
<1> SUFFICES ASSUME SessionInv, [Next]_vars
             PROVE  SessionInv'
  OBVIOUS
<1>1. ContractProofs!IInv'
  <2>1. ContractProofs!Next \/ UNCHANGED ContractProofs!vars
    BY LedgerStep DEF SessionInv, ledger, ContractProofs!vars
  <2>2. QED
    BY <2>1, ContractAssumed, ContractProofs!StepInvariant DEF SessionInv
<1>2. QED
  BY <1>1, BusyStep, InstalledStep, CommandedStep, StoredStep, WholeStep DEF SessionInv

\* The inductive invariant of role sessions.
THEOREM SessionInvariance == Spec => []SessionInv
<1>1. QED
  BY SessionInitially, SessionStep, PTL DEF Spec

\* However sessions, providers, uploads and the network interleave, the ledger
\* behaves as the contract alone: what is proved of VulnSealContract holds of
\* the ledger under the role sessions.
THEOREM SessionsFollowContract == Spec => ContractProofs!Spec
<1>1. Init => ContractProofs!Init
  BY DEF Init, Contract!Init, ContractProofs!Init, Contract!Zero, ContractProofs!Zero
<1>2. SessionInv /\ [Next]_vars => [ContractProofs!Next]_(ContractProofs!vars)
  BY LedgerStep DEF SessionInv, ledger, ContractProofs!vars
<1>3. QED
  BY <1>1, <1>2, SessionInvariance, PTL DEF Spec, ContractProofs!Spec

\* What the ledger applies, it applies at a stage at which the session would
\* still allow it, however long ago the session checked.
THEOREM StageSafety == Spec => StageHoldsWhenApplied
<1>1. ASSUME SessionInv, Next
      PROVE  \A tx \in pool \ pool' : UNCHANGED ledger \/ stageAllows(tx.by, tx.command)
  <2> SUFFICES ASSUME NEW tx \in pool, tx \notin pool', ~UNCHANGED ledger
               PROVE  stageAllows(tx.by, tx.command)
    OBVIOUS
  <2>1. PICK t \in pool : applyTx(t)
    BY <1>1, LedgerStep DEF SessionInv
  <2>2. t = tx
    BY <2>1 DEF applyTx
  <2>3. PICK s, c, w : s = tx.by /\ c = tx.command /\ w = tx.witnesses
    OBVIOUS
  <2>4. s \in Sessions /\ CommandOf(s, c) /\ Witnessed(s, c, w)
    BY <1>1, <2>3 DEF SessionInv, Busy, InFlight, Commanded, Ready, Installed
  <2>5. circuit(w, c)
    BY <2>1, <2>2, <2>3 DEF applyTx
  <2>6. QED
    BY <2>3, <2>4, <2>5, CircuitChecksStage
<1>2. SessionInv /\ [Next]_vars =>
         [\A tx \in pool \ pool' : UNCHANGED ledger \/ stageAllows(tx.by, tx.command)]_vars
  BY <1>1
<1>3. QED
  BY <1>2, SessionInvariance, PTL DEF Spec, StageHoldsWhenApplied

\* A record on the ledger is one researcher's report, with that researcher's
\* key and that report's own ciphertext, whatever calls shared the provider;
\* and what a vendor took over is what the ledger names.
THEOREM RecordSafety == Spec => []RecordsAreWhole
<1>1. SessionInv => RecordsAreWhole
  BY DEF SessionInv
<1>2. QED
  BY <1>1, SessionInvariance, PTL

\* The ciphertext of a report on the ledger is at every configured store,
\* except where that store's operator has retired it.
THEOREM UploadSafety == Spec => []LedgerReportsAreStored
<1>1. SessionInv => LedgerReportsAreStored
  BY DEF SessionInv
<1>2. QED
  BY <1>1, SessionInvariance, PTL

\* So every payout that role sessions bring about is backed by a passing retest
\* of the patch that the record carries.
THEOREM SessionPayoutSafety == Spec => []ContractProofs!PayoutFollowsVerifiedPatch
<1>1. QED
  BY SessionsFollowContract, ContractAssumed, ContractProofs!PayoutSafety, PTL
=============================================================================
