----------------------- MODULE ChainObservationProofs -----------------------
(***************************************************************************)
(* Theorems about the observation of the chain, for any forks, transactions *)
(* and subjects.                                                           *)
(*                                                                         *)
(* What an indexer tells of a transaction depends on the chain that ends    *)
(* with its block and on nothing else.  So what was read before and after   *)
(* a reorganization is about one history as soon as the block is known to   *)
(* be final, and stays true; ObservationInv says so of the worker, of the   *)
(* answers on their way and of what is shown.                               *)
(***************************************************************************)
EXTENDS ChainObservation, TLAPS

\* The chains; what is finalized is on the best chain.
Chained == {best, finalized, indexed} \subseteq Chains /\ IsPrefix(finalized, best)

\* A block and a transaction of the finalized chain f.
Final(c, f) == c \in Chains /\ IsPrefix(c, f)
FinalAction(a, f) == a \in Executed /\ Final(a.hash, f)

Replaying == {"target", "scan", "prior", "previousBlock", "targetBlock", "replay"}

\* What a worker on subject s has read at each stage, when f is finalized.
Reading(w, s, f) ==
    /\ w.pc = "transaction" => s.check # "lookup"
    /\ w.pc = "contract" => s.check = "lookup"
    /\ w.pc \in {"head", "canonical"} =>
           /\ w.seen \in Executed
           /\ IF s.check = "lookup" THEN w.seen \in latest(w.seen.hash) ELSE w.seen.tx = s.tx
    /\ w.pc = "canonical" => w.head =< Len(f)
    /\ w.pc = "deployment" => s.check = "policy"
    /\ w.pc \in Replaying => s.check \notin {"lookup", "status", "policy"}
    /\ w.pc \in {"deployment"} \cup Replaying =>
           FinalAction(w.seen, f) /\ w.seen.tx = s.tx /\ w.seen.status = "SUCCESS"
    /\ w.pc \in Replaying \ {"target"} => ~isDeploy(s.tx) /\ raw[s.tx].circuit = s.circuit
    /\ w.pc \in Replaying \ {"target", "scan"} => w.target.hash = w.seen.hash

\* The report's record right before and right after the k-th transaction of c's
\* last block is what x says.
Reconciled(x, c, k) ==
    /\ Action(c, k).tx = x.subject.tx /\ Action(c, k).status = "SUCCESS"
    /\ stateBefore(c, k) # None
    /\ stateBefore(c, k).reports[x.subject.report] = x.before
    /\ Action(c, k).state.reports[x.subject.report] = x.after

\* What x says of the transaction that it is about is true of a.
Confirms(x, a) ==
    /\ a.tx = x.subject.tx /\ a.hash = x.hash
    /\ a.status = IF x.subject.check = "status" THEN x.status ELSE "SUCCESS"
    /\ (x.subject.check = "policy" /\ canChoose(x)) =>
           a.state.policy = x.subject.saved /\ a.state.keys = Release

\* What a result x says when f is finalized.
Holds(x, f) ==
    /\ x.kind = "finalized" =>
           /\ Final(x.hash, f)
           /\ IF x.subject.check = "lookup"
              THEN \E a \in latest(x.hash) : a.hash = x.hash /\ a.state = x.state
              ELSE \E a \in Executed : Confirms(x, a)
    /\ x.subject.check = "effect" =>
           /\ raw[x.subject.tx].circuit = x.subject.circuit
           /\ \E c \in Chains \ {<<>>} : \E k \in DOMAIN Last(c) : Final(c, f) /\ Reconciled(x, c, k)

Compared ==
    /\ compared \in BOOLEAN \cup {None}
    /\ compared = TRUE =>
           /\ shown # None /\ selected.check = "effect"
           /\ \/ selected.circuit = "submitReport" /\ SavedCiphertextCheck
              \/ selected.circuit = "acceptReport" /\ SavedDecisionCheck

Shown ==
    /\ shown # None => Holds(shown, finalized) /\ shown.subject = selected /\ ~working
    /\ Compared

Working ==
    /\ started \in Nat
    /\ working \in BOOLEAN /\ (working <=> worker # None)
    /\ worker # None => worker \in Runs /\ worker.id = started /\ Reading(worker, selected, finalized)

\* An answer is true whenever it arrives, and the current worker's is about what
\* is selected.
Answered ==
    \A m \in posted :
        /\ m.run \in Nat /\ m.run =< started
        /\ m.result # None => Holds(m.result, finalized)
        /\ (worker # None /\ worker.id = m.run /\ m.result # None) => m.result.subject = selected

ObservationInv == Chained /\ Working /\ Answered /\ Shown

-----------------------------------------------------------------------------
(* Chains and what is executed on them.                                    *)

\* A chain is a sequence of blocks, and a part of a fork.
LEMMA ChainForm ==
    ASSUME NEW c \in Chains
    PROVE  /\ c \in Seq(Seq(DOMAIN raw))
           /\ \E f \in Forks : Len(c) =< Len(f) /\ c = SubSeq(f, 1, Len(c))
<1>1. PICK f \in Forks : \E n \in 0 .. Len(f) : c = SubSeq(f, 1, n)
  BY DEF Chains
<1> PICK n \in 0 .. Len(f) : c = SubSeq(f, 1, n)
  BY <1>1
<1>2. f \in Seq(Seq(DOMAIN raw))
  BY ObservationConstants
<1>3. c \in Seq(Seq(DOMAIN raw)) /\ Len(c) = n
  BY <1>1, <1>2
<1>4. QED
  BY <1>1, <1>2, <1>3

\* The first blocks of a chain are a chain.
LEMMA FirstBlocks ==
    ASSUME NEW c \in Chains, NEW n \in 0 .. Len(c)
    PROVE  /\ SubSeq(c, 1, n) \in Chains /\ Len(SubSeq(c, 1, n)) = n
           /\ IsPrefix(SubSeq(c, 1, n), c)
           /\ \A i \in 1 .. n : SubSeq(c, 1, n)[i] = c[i]
<1> DEFINE p == SubSeq(c, 1, n)
<1>1. c \in Seq(Seq(DOMAIN raw))
  BY ChainForm
<1>2. PICK f \in Forks : Len(c) =< Len(f) /\ c = SubSeq(f, 1, Len(c))
  BY ChainForm
<1>3. f \in Seq(Seq(DOMAIN raw))
  BY <1>2, ObservationConstants
<1>4. p \in Seq(Seq(DOMAIN raw)) /\ Len(p) = n /\ \A i \in 1 .. n : p[i] = c[i]
  BY <1>1
<1>5. p = SubSeq(f, 1, n)
  BY <1>1, <1>2, <1>3, <1>4
<1>6. n \in 0 .. Len(f)
  BY <1>1, <1>2, <1>3
<1>7. p \in Chains
  <2>1. p \in {SubSeq(f, 1, i) : i \in 0 .. Len(f)}
    BY <1>5, <1>6
  <2>2. QED
    BY <1>2, <2>1, Zenon DEF Chains
<1>8. SubSeq(p, 1, Len(p)) = SubSeq(c, 1, Len(p)) /\ Len(p) =< Len(c)
  BY <1>1, <1>4
<1>9. QED
  BY <1>4, <1>7, <1>8 DEF IsPrefix

\* What a chain begins with, said with its own blocks.
LEMMA PrefixForm ==
    ASSUME NEW c \in Chains, NEW d \in Chains
    PROVE  IsPrefix(c, d) <=> Len(c) =< Len(d) /\ c = SubSeq(d, 1, Len(c))
<1>1. c \in Seq(Seq(DOMAIN raw)) /\ d \in Seq(Seq(DOMAIN raw))
  BY ChainForm
<1>2. SubSeq(c, 1, Len(c)) = c
  BY <1>1
<1>3. QED
  BY <1>2 DEF IsPrefix

\* A prefix of a prefix.
LEMMA PrefixTransitive ==
    ASSUME NEW b \in Chains, NEW c \in Chains, NEW d \in Chains, IsPrefix(b, c), IsPrefix(c, d)
    PROVE  IsPrefix(b, d)
<1>1. b \in Seq(Seq(DOMAIN raw)) /\ c \in Seq(Seq(DOMAIN raw)) /\ d \in Seq(Seq(DOMAIN raw))
  BY ChainForm
<1>2. /\ Len(b) =< Len(c) /\ b = SubSeq(c, 1, Len(b))
      /\ Len(c) =< Len(d) /\ c = SubSeq(d, 1, Len(c))
  BY PrefixForm
<1>3. \A i \in 1 .. Len(b) : b[i] = d[i]
  BY <1>1, <1>2
<1>4. b = SubSeq(d, 1, Len(b)) /\ Len(b) =< Len(d)
  BY <1>1, <1>2, <1>3
<1>5. QED
  BY <1>4, PrefixForm

\* Of two beginnings of a chain, the shorter begins the longer.
LEMMA PrefixesOrdered ==
    ASSUME NEW b \in Chains, NEW c \in Chains, NEW d \in Chains,
           IsPrefix(b, d), IsPrefix(c, d), Len(b) =< Len(c)
    PROVE  IsPrefix(b, c)
<1>1. b \in Seq(Seq(DOMAIN raw)) /\ c \in Seq(Seq(DOMAIN raw)) /\ d \in Seq(Seq(DOMAIN raw))
  BY ChainForm
<1>2. /\ Len(b) =< Len(d) /\ b = SubSeq(d, 1, Len(b))
      /\ Len(c) =< Len(d) /\ c = SubSeq(d, 1, Len(c))
  BY PrefixForm
<1>3. \A i \in 1 .. Len(b) : b[i] = c[i]
  <2>1. Len(b) \in 0 .. Len(d) /\ Len(c) \in 0 .. Len(d)
    BY <1>1, <1>2
  <2>2. \A i \in 1 .. Len(b) : SubSeq(d, 1, Len(b))[i] = d[i]
    BY <2>1, FirstBlocks
  <2>3. \A i \in 1 .. Len(c) : SubSeq(d, 1, Len(c))[i] = d[i]
    BY <2>1, FirstBlocks
  <2>4. \A i \in 1 .. Len(b) : i \in 1 .. Len(c)
    BY <1>1
  <2>5. QED
    BY <1>2, <2>2, <2>3, <2>4, Zenon
<1>4. b = SubSeq(c, 1, Len(b))
  <2>1. Len(b) \in 0 .. Len(c)
    BY <1>1
  <2>2. /\ SubSeq(c, 1, Len(b)) \in Chains /\ Len(SubSeq(c, 1, Len(b))) = Len(b)
        /\ \A i \in 1 .. Len(b) : SubSeq(c, 1, Len(b))[i] = c[i]
    BY <2>1, FirstBlocks
  <2>3. SubSeq(c, 1, Len(b)) \in Seq(Seq(DOMAIN raw))
    BY <2>2, ChainForm
  <2>4. QED
    BY <1>1, <1>3, <2>2, <2>3
<1>5. QED
  BY <1>4, PrefixForm

\* Every transaction of a block is executed with it.
LEMMA BlockExecuted ==
    ASSUME NEW c \in Chains \ {<<>>}, NEW k \in DOMAIN Last(c)
    PROVE  Action(c, k) \in Executed /\ Action(c, k).hash = c
<1>1. Action(c, k) \in {Action(c, i) : i \in DOMAIN Last(c)}
  OBVIOUS
<1>2. Action(c, k) \in Executed
  BY <1>1, Zenon DEF Executed
<1>3. Action(c, k).hash = c
  BY DEF Action
<1>4. QED
  BY <1>2, <1>3

\* An executed transaction is one of the last block of its hash.
LEMMA ExecutedPlace ==
    ASSUME NEW a \in Executed
    PROVE  \E c \in Chains \ {<<>>} : \E k \in DOMAIN Last(c) :
               a = Action(c, k) /\ a.hash = c /\ a.tx = Last(c)[k] /\ a.tx \in DOMAIN raw
<1>1. PICK c \in Chains \ {<<>>} : \E k \in DOMAIN Last(c) : a = Action(c, k)
  BY DEF Executed
<1>2. PICK k \in DOMAIN Last(c) : a = Action(c, k)
  BY <1>1
<1>3. a.hash = c /\ a.tx = Last(c)[k]
  BY <1>2 DEF Action
<1>4. c \in Seq(Seq(DOMAIN raw)) /\ c # <<>>
  BY ChainForm
<1>5. Last(c) \in Seq(DOMAIN raw)
  BY <1>4 DEF Last
<1>6. QED
  BY <1>2, <1>3, <1>5

\* What is known of a chain was executed on it.
LEMMA ActionsExecuted ==
    ASSUME NEW d \in Chains, NEW a \in Actions[d]
    PROVE  a \in Executed /\ a.hash \in Chains /\ IsPrefix(a.hash, d)
<1>1. PICK h \in DOMAIN d : \E k \in DOMAIN d[h] : a = Action(SubSeq(d, 1, h), k)
  BY DEF Actions
<1>2. PICK k \in DOMAIN d[h] : a = Action(SubSeq(d, 1, h), k)
  BY <1>1
<1> DEFINE c == SubSeq(d, 1, h)
<1>3. d \in Seq(Seq(DOMAIN raw)) /\ h \in 1 .. Len(d)
  BY ChainForm
<1>4. c \in Chains /\ Len(c) = h /\ IsPrefix(c, d) /\ c[h] = d[h]
  BY <1>3, FirstBlocks
<1>5. c # <<>> /\ Last(c) = d[h]
  BY <1>3, <1>4 DEF Last
<1>6. k \in DOMAIN Last(c) /\ c \in Chains \ {<<>>}
  BY <1>4, <1>5
<1> HIDE DEF c
<1>7. a \in Executed /\ a.hash = c
  BY <1>2, <1>6, BlockExecuted DEF c
<1>8. QED
  BY <1>4, <1>7

\* What was executed in a block is known of every chain that has the block.
LEMMA ExecutedOnChain ==
    ASSUME NEW d \in Chains, NEW c \in Chains \ {<<>>}, NEW k \in DOMAIN Last(c), IsPrefix(c, d)
    PROVE  /\ Len(c) \in DOMAIN d /\ SubSeq(d, 1, Len(c)) = c /\ d[Len(c)] = Last(c)
           /\ Action(c, k) \in Actions[d]
<1>1. c \in Seq(Seq(DOMAIN raw)) /\ d \in Seq(Seq(DOMAIN raw)) /\ c # <<>> /\ c \in Chains
  <2>1. c \in Chains /\ c # <<>>
    OBVIOUS
  <2>2. QED
    BY <2>1, ChainForm
<1>2. Len(c) =< Len(d) /\ c = SubSeq(d, 1, Len(c))
  BY <1>1, PrefixForm
<1>3. Len(c) \in 1 .. Len(d) /\ d[Len(c)] = Last(c)
  <2>1. Len(c) \in 1 .. Len(d)
    BY <1>1, <1>2
  <2>2. c[Len(c)] = d[Len(c)]
    BY <1>1, <1>2, <2>1
  <2>3. QED
    BY <2>1, <2>2 DEF Last
<1>. Len(c) \in DOMAIN d
  BY <1>1, <1>3
<1>4. Action(c, k) \in Actions[d]
  <2>1. Action(SubSeq(d, 1, Len(c)), k) \in {Action(SubSeq(d, 1, Len(c)), i) : i \in DOMAIN d[Len(c)]}
    BY <1>3
  <2>2. Action(SubSeq(d, 1, Len(c)), k) \in Actions[d]
    BY <1>3, <2>1, Zenon DEF Actions
  <2>3. QED
    BY <1>2, <2>2
<1>5. QED
  BY <1>2, <1>3, <1>4

\* The contract's latest transaction is the latest of its own block too.
LEMMA LatestExecuted ==
    ASSUME NEW d \in Chains, NEW a \in latest(d)
    PROVE  a \in Executed /\ a \in latest(a.hash)
<1>1. PICK h \in DOMAIN d : d[h] # <<>> /\ a = Action(SubSeq(d, 1, h), Len(d[h]))
  BY DEF latest
<1> DEFINE c == SubSeq(d, 1, h)
<1>2. d \in Seq(Seq(DOMAIN raw)) /\ h \in 1 .. Len(d)
  BY ChainForm
<1>3. c \in Chains /\ Len(c) = h /\ c[h] = d[h]
  BY <1>2, FirstBlocks
<1>4. c \in Seq(Seq(DOMAIN raw)) /\ c # <<>> /\ Last(c) = d[h] /\ c = SubSeq(c, 1, h)
  BY <1>2, <1>3, ChainForm DEF Last
<1>5. Len(d[h]) \in DOMAIN d[h]
  BY <1>1, <1>2
<1>6. a \in Executed /\ a.hash = c
  <2>1. c \in Chains \ {<<>>} /\ Len(d[h]) \in DOMAIN Last(c)
    BY <1>3, <1>4, <1>5
  <2> HIDE DEF c
  <2>2. QED
    BY <1>1, <2>1, BlockExecuted DEF c
<1>7. h \in DOMAIN c /\ \A j \in h + 1 .. Len(c) : c[j] = <<>>
  BY <1>2, <1>3, <1>4
<1>8. a \in latest(c)
  <2>1. c[h] # <<>> /\ a = Action(SubSeq(c, 1, h), Len(c[h]))
    BY <1>1, <1>3, <1>4
  <2>2. QED
    BY <1>7, <2>1 DEF latest
<1>9. QED
  BY <1>6, <1>8

-----------------------------------------------------------------------------
(* What stays true while the chain grows.                                  *)

\* A finalized block stays finalized.
LEMMA FinalStays ==
    ASSUME NEW f \in Chains, NEW g \in Chains, IsPrefix(f, g), NEW c, Final(c, f)
    PROVE  Final(c, g)
  BY PrefixTransitive DEF Final

\* What a result says stays true.
LEMMA HoldsStays ==
    ASSUME NEW f \in Chains, NEW g \in Chains, IsPrefix(f, g), NEW x, Holds(x, f)
    PROVE  Holds(x, g)
<1>1. ASSUME NEW c, Final(c, f) PROVE Final(c, g)
  BY <1>1, FinalStays
<1>2. QED
  BY <1>1 DEF Holds

\* What a worker has read stays so.
LEMMA ReadingStays ==
    ASSUME NEW f \in Chains, NEW g \in Chains, IsPrefix(f, g), NEW w, NEW s,
           w \in Runs, Reading(w, s, f)
    PROVE  Reading(w, s, g)
<1>1. ASSUME NEW a, FinalAction(a, f) PROVE FinalAction(a, g)
  BY <1>1, FinalStays DEF FinalAction
<1>2. w.pc = "canonical" => w.head =< Len(g)
  <2>1. f \in Seq(Seq(DOMAIN raw)) /\ g \in Seq(Seq(DOMAIN raw)) /\ Len(f) =< Len(g)
    BY ChainForm, PrefixForm
  <2>2. w.head \in Nat
    BY DEF Runs
  <2>3. QED
    BY <2>1, <2>2 DEF Reading
<1>3. QED
  BY <1>1, <1>2 DEF Reading

\* Blocks are added to the best chain, never taken from the finalized one, and
\* the indexer stays on some chain.
LEMMA ChainMoves ==
    Chained /\ (extend \/ finalize \/ index) => Chained' /\ IsPrefix(finalized, finalized')
<1> SUFFICES ASSUME Chained, extend \/ finalize \/ index
             PROVE  Chained' /\ IsPrefix(finalized, finalized')
  OBVIOUS
<1>1. /\ best \in Chains /\ finalized \in Chains /\ indexed \in Chains
      /\ IsPrefix(finalized, best)
  BY DEF Chained
<1>2. IsPrefix(finalized, finalized)
  <2>1. finalized \in Seq(Seq(DOMAIN raw))
    BY <1>1, ChainForm
  <2>2. QED
    BY <2>1 DEF IsPrefix
<1>3. best \in Seq(Seq(DOMAIN raw)) /\ finalized \in Seq(Seq(DOMAIN raw))
  BY <1>1, ChainForm
<1>4. CASE extend
  BY <1>1, <1>2, <1>4 DEF extend, Chained
<1>5. CASE finalize
  <2>1. PICK n \in Len(finalized) + 1 .. Len(best) : finalized' = SubSeq(best, 1, n)
    BY <1>5 DEF finalize
  <2>2. n \in 0 .. Len(best)
    BY <1>3
  <2>3. SubSeq(best, 1, n) \in Chains /\ Len(SubSeq(best, 1, n)) = n /\ IsPrefix(SubSeq(best, 1, n), best)
    BY <1>1, <2>2, FirstBlocks
  <2>4. finalized' \in Chains /\ Len(finalized') = n /\ IsPrefix(finalized', best)
    BY <2>1, <2>3
  <2>5. IsPrefix(finalized, finalized')
    <3>1. Len(finalized) =< Len(best) /\ finalized = SubSeq(best, 1, Len(finalized))
      BY <1>1, PrefixForm
    <3>2. finalized = SubSeq(finalized', 1, Len(finalized)) /\ Len(finalized) =< Len(finalized')
      BY <1>3, <2>1, <2>2, <2>4, <3>1
    <3>3. QED
      BY <1>1, <2>4, <3>2, PrefixForm
  <2>6. QED
    BY <1>1, <1>5, <2>4, <2>5 DEF finalize, Chained
<1>6. CASE index
  <2>1. PICK n \in 0 .. Len(best) : indexed' = SubSeq(best, 1, n)
    BY <1>6 DEF index
  <2>2. indexed' \in Chains
    BY <1>1, <2>1, FirstBlocks
  <2>3. QED
    BY <1>1, <1>2, <1>6, <2>2 DEF index, Chained
<1>7. QED
  BY <1>4, <1>5, <1>6

\* The chain's steps leave the page what it has, and it stays true.
LEMMA ChainKeeps == ObservationInv /\ (extend \/ finalize \/ index) => ObservationInv'
<1> SUFFICES ASSUME ObservationInv, extend \/ finalize \/ index PROVE ObservationInv'
  OBVIOUS
<1>1. Chained' /\ IsPrefix(finalized, finalized')
  BY ChainMoves DEF ObservationInv
<1>2. finalized \in Chains /\ finalized' \in Chains
  BY <1>1 DEF ObservationInv, Chained
<1>3. /\ UNCHANGED <<selected, working, shown, compared, started>>
      /\ UNCHANGED worker /\ UNCHANGED posted
  BY DEF extend, finalize, index, panel
<1>4. \A x : Holds(x, finalized) => Holds(x, finalized')
  BY <1>1, <1>2, HoldsStays
<1>5. worker # None => Reading(worker, selected, finalized')
  BY <1>1, <1>2, ReadingStays DEF ObservationInv, Working
<1>6. Working'
  BY <1>3, <1>5 DEF ObservationInv, Working
<1>7. Answered'
  BY <1>3, <1>4 DEF ObservationInv, Answered
<1>8. Shown'
  BY <1>3, <1>4 DEF ObservationInv, Shown, Compared, SavedCiphertextCheck, SavedDecisionCheck
<1>9. QED
  BY <1>1, <1>6, <1>7, <1>8 DEF ObservationInv

-----------------------------------------------------------------------------
(* The panel.                                                              *)

\* What a worker is when it begins.
LEMMA RunForm ==
    ASSUME NEW i \in 1 .. MaxRuns, NEW p \in {"transaction", "contract", "done"}
    PROVE  Run(i, p) \in Runs /\ Run(i, p) # None /\ Run(i, p).id = i /\ Run(i, p).pc = p
<1>1. Run(i, p) \in Runs
  BY DEF Run, Runs, Read, States
<1>2. QED
  BY <1>1, NoneIsNoRun DEF Run

\* At first nothing is known and nothing shown.
LEMMA ObservationInitially == Init => ObservationInv
<1> SUFFICES ASSUME Init PROVE ObservationInv
  OBVIOUS
<1>1. Chained
  <2>1. PICK f \in Forks : f \in Seq(Seq(DOMAIN raw))
    BY ObservationConstants
  <2>2. 0 \in 0 .. Len(f) /\ SubSeq(f, 1, 0) = <<>>
    BY <2>1
  <2>3. <<>> \in Chains
    <3>1. <<>> \in {SubSeq(f, 1, i) : i \in 0 .. Len(f)}
      BY <2>2
    <3>2. QED
      BY <3>1, Zenon DEF Chains
  <2>4. IsPrefix(<<>>, <<>>)
    BY DEF IsPrefix
  <2>5. QED
    BY <2>3, <2>4 DEF Init, Chained
<1>2. QED
  BY <1>1, NoneIsNoRun DEF Init, ObservationInv, Working, Answered, Shown, Compared

\* A check makes a worker whose number no answer has.
LEMMA CheckKeeps == ObservationInv /\ check => ObservationInv'
<1> SUFFICES ASSUME ObservationInv, check PROVE ObservationInv'
  OBVIOUS
<1> DEFINE p == IF selected.check = "lookup" THEN "contract" ELSE "transaction"
<1>1. /\ started \in Nat /\ MaxRuns \in Nat /\ started < MaxRuns /\ started' = started + 1
      /\ worker' = Run(started', p)
      /\ working' = TRUE /\ shown' = None /\ compared' = None
      /\ UNCHANGED chain /\ UNCHANGED selected /\ UNCHANGED posted
  BY ObservationConstants DEF check, ObservationInv, Working
<1>2. p \in {"transaction", "contract"} /\ started' \in 1 .. MaxRuns
  BY <1>1
<1>3. /\ worker' \in Runs /\ worker' # None /\ worker'.id = started' /\ worker'.pc = p
  <2> HIDE DEF p
  <2>1. QED
    BY <1>1, <1>2, RunForm
<1>4. Reading(worker, selected, finalized)'
  BY <1>1, <1>3 DEF Reading, Replaying
<1>5. Working'
  BY <1>1, <1>3, <1>4 DEF Working
<1>6. Answered'
  BY <1>1, <1>3 DEF ObservationInv, Answered, chain
<1>7. Shown'
  BY <1>1, NoneIsNoRun DEF Shown, Compared
<1>8. Chained'
  BY <1>1 DEF ObservationInv, Chained, chain
<1>9. QED
  BY <1>5, <1>6, <1>7, <1>8 DEF ObservationInv

\* A worker that is stopped, by the user or at its deadline.
LEMMA StopKeeps == ObservationInv /\ (cancel \/ timeout) => ObservationInv'
<1> SUFFICES ASSUME ObservationInv, cancel \/ timeout PROVE ObservationInv'
  OBVIOUS
<1>1. /\ worker' = None /\ working' = FALSE
      /\ UNCHANGED chain /\ UNCHANGED <<selected, shown, compared, started, posted>>
  BY DEF cancel, timeout, stop
<1>2. Working'
  BY <1>1 DEF ObservationInv, Working
<1>3. Answered'
  BY <1>1 DEF ObservationInv, Answered, chain
<1>4. Shown'
  BY <1>1 DEF ObservationInv, Shown, Compared, SavedCiphertextCheck, SavedDecisionCheck, chain
<1>5. QED
  BY <1>1, <1>2, <1>3, <1>4 DEF ObservationInv, Chained, chain

\* Another subject: what was shown and found out about the last one is dropped.
LEMMA SelectKeeps ==
    ASSUME NEW s \in Subjects PROVE ObservationInv /\ select(s) => ObservationInv'
<1> SUFFICES ASSUME ObservationInv, select(s) PROVE ObservationInv'
  OBVIOUS
<1>1. /\ worker' = None /\ working' = FALSE /\ shown' = None /\ compared' = None
      /\ UNCHANGED chain /\ UNCHANGED <<started, posted>>
  BY DEF select, stop
<1>2. Working'
  BY <1>1 DEF ObservationInv, Working
<1>3. Answered'
  BY <1>1 DEF ObservationInv, Answered, chain
<1>4. QED
  BY <1>1, <1>2, <1>3, NoneIsNoRun DEF ObservationInv, Chained, Shown, Compared, chain

\* An answer of the current worker is shown, any other is dropped.
LEMMA ReceiveKeeps ==
    ASSUME NEW m PROVE ObservationInv /\ m \in posted /\ receive(m) => ObservationInv'
<1> SUFFICES ASSUME ObservationInv, m \in posted, receive(m) PROVE ObservationInv'
  OBVIOUS
<1>1. UNCHANGED chain /\ UNCHANGED <<selected, started>> /\ posted' \subseteq posted
  BY DEF receive
<1>2. CASE isCurrent(m)
  <2>1. worker' = None /\ working' = FALSE /\ shown' = m.result /\ compared' = None
    BY <1>2 DEF receive, stop
  <2>2. m.result # None => Holds(m.result, finalized) /\ m.result.subject = selected
    BY <1>2 DEF ObservationInv, Answered, isCurrent
  <2>3. Working'
    BY <1>1, <2>1 DEF ObservationInv, Working
  <2>4. Answered'
    BY <1>1, <2>1 DEF ObservationInv, Answered, chain
  <2>5. QED
    BY <1>1, <2>1, <2>2, <2>3, <2>4, NoneIsNoRun DEF ObservationInv, Chained, Shown, Compared, chain
<1>3. CASE ~isCurrent(m)
  <2>1. UNCHANGED <<worker, working, shown, compared>>
    BY <1>3 DEF receive
  <2>2. Working'
    BY <1>1, <2>1 DEF ObservationInv, Working, chain
  <2>3. Answered'
    BY <1>1, <2>1 DEF ObservationInv, Answered, chain
  <2>4. Shown'
    BY <1>1, <2>1 DEF ObservationInv, Shown, Compared, SavedCiphertextCheck, SavedDecisionCheck, chain
  <2>5. QED
    BY <1>1, <2>2, <2>3, <2>4 DEF ObservationInv, Chained, chain
<1>4. QED
  BY <1>2, <1>3

\* The saved notes are compared with what is shown.
LEMMA CompareKeeps == ObservationInv /\ compareSaved => ObservationInv'
<1> SUFFICES ASSUME ObservationInv, compareSaved PROVE ObservationInv'
  OBVIOUS
<1>1. /\ UNCHANGED chain /\ UNCHANGED <<selected, working, shown, started, worker, posted>>
      /\ shown # None /\ selected.check = "effect"
      /\ \/ selected.circuit = "submitReport" /\ compared' = SavedCiphertextCheck
         \/ selected.circuit = "acceptReport" /\ compared' = SavedDecisionCheck
  BY DEF compareSaved
<1>2. Compared'
  BY <1>1 DEF Compared, SavedCiphertextCheck, SavedDecisionCheck
<1>3. Working' /\ Answered'
  BY <1>1 DEF ObservationInv, Working, Answered, chain
<1>4. QED
  BY <1>1, <1>2, <1>3 DEF ObservationInv, Chained, Shown, chain

-----------------------------------------------------------------------------
(* The worker's requests: it reads on, or it answers.                      *)

\* A worker that has read something true reads on.
LEMMA GoKeeps ==
    ASSUME NEW w
    PROVE  /\ ObservationInv /\ worker # None /\ go(w)
           /\ w \in Runs /\ w.id = worker.id /\ Reading(w, selected, finalized)
           => ObservationInv'
<1> SUFFICES ASSUME ObservationInv, worker # None, go(w), w \in Runs, w.id = worker.id,
                    Reading(w, selected, finalized)
             PROVE  ObservationInv'
  OBVIOUS
<1>1. worker' = w /\ w # None /\ UNCHANGED chain /\ UNCHANGED panel /\ UNCHANGED posted
  BY NoneIsNoRun DEF go
<1>2. Working'
  BY <1>1 DEF ObservationInv, Working, chain, panel
<1>3. Answered'
  BY <1>1 DEF ObservationInv, Answered, chain, panel
<1>4. QED
  BY <1>1, <1>2, <1>3
     DEF ObservationInv, Chained, Shown, Compared, SavedCiphertextCheck, SavedDecisionCheck, chain, panel

\* A worker that answers what is true, or that it failed.
LEMMA AnswerKeeps ==
    ASSUME NEW x
    PROVE  /\ ObservationInv /\ worker # None /\ answer(x)
           /\ x # None => Holds(x, finalized) /\ x.subject = selected
           => ObservationInv'
<1> SUFFICES ASSUME ObservationInv, worker # None, answer(x),
                    x # None => Holds(x, finalized) /\ x.subject = selected
             PROVE  ObservationInv'
  OBVIOUS
<1>1. /\ posted' = posted \cup {[run |-> worker.id, result |-> x]}
      /\ worker' = Run(worker.id, "done")
      /\ UNCHANGED chain /\ UNCHANGED panel
  BY DEF answer
<1>2. worker \in Runs /\ worker.id = started /\ started \in 1 .. MaxRuns
  BY DEF ObservationInv, Working, Runs
<1>3. worker' \in Runs /\ worker' # None /\ worker'.id = started /\ worker'.pc = "done"
  BY <1>1, <1>2, RunForm
<1>4. Working'
  <2>1. Reading(worker, selected, finalized)'
    BY <1>3 DEF Reading, Replaying
  <2>2. QED
    BY <1>1, <1>3, <2>1 DEF ObservationInv, Working, panel
<1>5. Answered'
  <2>1. ASSUME NEW m \in posted'
        PROVE  /\ m.run \in Nat /\ m.run =< started
               /\ m.result # None => Holds(m.result, finalized)
               /\ (m.run = started /\ m.result # None) => m.result.subject = selected
    <3>1. CASE m \in posted
      BY <1>2, <3>1 DEF ObservationInv, Answered
    <3>2. CASE m = [run |-> worker.id, result |-> x]
      BY <1>2, <3>2 DEF ObservationInv, Working
    <3>3. QED
      BY <1>1, <2>1, <3>1, <3>2
  <2>2. QED
    BY <1>1, <1>3, <2>1 DEF Answered, chain, panel
<1>6. QED
  BY <1>1, <1>4, <1>5
     DEF ObservationInv, Chained, Shown, Compared, SavedCiphertextCheck, SavedDecisionCheck, chain, panel

\* A failure says nothing.
LEMMA RefuseKeeps == ObservationInv /\ worker # None /\ refuse => ObservationInv'
<1>1. refuse => answer(None)
  BY DEF refuse
<1>2. QED
  BY <1>1, AnswerKeeps

\* A block at which the node agrees, below a head that was finalized, is final.
LEMMA AgreedIsFinal ==
    ASSUME NEW a \in Executed, NEW h \in Nat
    PROVE  Chained /\ agrees(a) /\ h =< Len(finalized) /\ h >= height(a) => FinalAction(a, finalized)
<1> SUFFICES ASSUME Chained, agrees(a), h =< Len(finalized), h >= height(a)
             PROVE  FinalAction(a, finalized)
  OBVIOUS
<1>1. a.hash \in Chains
  BY ExecutedPlace
<1>2. best \in Chains /\ finalized \in Chains /\ IsPrefix(finalized, best)
  BY DEF Chained
<1>3. best \in Seq(Seq(DOMAIN raw)) /\ finalized \in Seq(Seq(DOMAIN raw)) /\ a.hash \in Seq(Seq(DOMAIN raw))
  BY <1>1, <1>2, ChainForm
<1>4. Len(finalized) =< Len(best) /\ finalized = SubSeq(best, 1, Len(finalized))
  BY <1>2, PrefixForm
<1>5. height(a) = Len(a.hash) /\ Len(a.hash) =< Len(finalized)
  BY <1>3 DEF height
<1>6. a.hash = SubSeq(best, 1, Len(a.hash))
  <2>1. Len(a.hash) =< Len(best)
    BY <1>3, <1>4, <1>5
  <2>2. chain_getBlockHash(height(a)) = SubSeq(best, 1, Len(a.hash))
    BY <1>5, <2>1 DEF chain_getBlockHash
  <2>3. QED
    BY <2>2 DEF agrees
<1>7. IsPrefix(a.hash, best)
  <2>1. Len(a.hash) =< Len(best)
    BY <1>3, <1>4, <1>5
  <2>2. QED
    BY <1>1, <1>2, <1>6, <2>1, PrefixForm
<1>8. IsPrefix(a.hash, finalized)
  BY <1>1, <1>2, <1>5, <1>7, PrefixesOrdered
<1>9. QED
  BY <1>1, <1>8 DEF FinalAction, Final

\* A request that fails is refused.
LEMMA FailsKeeps == ObservationInv /\ fails => ObservationInv'
  BY RefuseKeeps DEF fails

\* The transaction, found on the chain that the indexer is on.
LEMMA TransactionKeeps == ObservationInv /\ queryTransaction => ObservationInv'
<1> SUFFICES ASSUME ObservationInv, queryTransaction PROVE ObservationInv'
  OBVIOUS
<1>1. /\ worker # None /\ worker.pc = "transaction" /\ worker \in Runs
      /\ selected.check # "lookup" /\ indexed \in Chains
  BY DEF queryTransaction, at, ObservationInv, Working, Reading, Chained
<1>2. ASSUME NEW a \in found(indexed, selected.tx), go([worker EXCEPT !.pc = "head", !.seen = a])
      PROVE  ObservationInv'
  <2>1. a \in Executed /\ a.tx = selected.tx
    BY <1>1, ActionsExecuted DEF found
  <2>2. PICK w : w = [worker EXCEPT !.pc = "head", !.seen = a]
    OBVIOUS
  <2>3. w \in Runs /\ w.id = worker.id /\ w.pc = "head" /\ w.seen = a
    BY <1>1, <2>1, <2>2 DEF Runs, Read
  <2>4. Reading(w, selected, finalized)
    BY <1>1, <2>1, <2>3 DEF Reading, Replaying
  <2>5. QED
    BY <1>1, <1>2, <2>2, <2>3, <2>4, GoKeeps
<1>3. ASSUME selected.check = "status", answer([subject |-> selected, kind |-> "not-found"])
      PROVE  ObservationInv'
  <2>1. PICK x : x = [subject |-> selected, kind |-> "not-found"]
    OBVIOUS
  <2>2. Holds(x, finalized) /\ x.subject = selected
    BY <1>3, <2>1 DEF Holds
  <2>3. QED
    BY <1>1, <1>3, <2>1, <2>2, AnswerKeeps
<1>4. QED
  BY <1>1, <1>2, <1>3, RefuseKeeps DEF queryTransaction

\* The contract's latest transaction, with the state after it.
LEMMA ContractKeeps == ObservationInv /\ queryContract => ObservationInv'
<1> SUFFICES ASSUME ObservationInv, queryContract PROVE ObservationInv'
  OBVIOUS
<1>1. /\ worker # None /\ worker.pc = "contract" /\ worker \in Runs
      /\ selected.check = "lookup" /\ indexed \in Chains
  BY DEF queryContract, at, ObservationInv, Working, Reading, Chained
<1>2. ASSUME NEW a \in latest(indexed), go([worker EXCEPT !.pc = "head", !.seen = a])
      PROVE  ObservationInv'
  <2>1. a \in Executed /\ a \in latest(a.hash)
    BY <1>1, LatestExecuted
  <2>2. PICK w : w = [worker EXCEPT !.pc = "head", !.seen = a]
    OBVIOUS
  <2>3. w \in Runs /\ w.id = worker.id /\ w.pc = "head" /\ w.seen = a
    BY <1>1, <2>1, <2>2 DEF Runs, Read
  <2>4. Reading(w, selected, finalized)
    BY <1>1, <2>1, <2>3 DEF Reading, Replaying
  <2>5. QED
    BY <1>1, <1>2, <2>2, <2>3, <2>4, GoKeeps
<1>3. QED
  BY <1>1, <1>2, RefuseKeeps DEF queryContract

\* The finalized head, which only rises.
LEMMA HeadKeeps == ObservationInv /\ chain_getFinalizedHead => ObservationInv'
<1> SUFFICES ASSUME ObservationInv, chain_getFinalizedHead PROVE ObservationInv'
  OBVIOUS
<1>1. /\ worker # None /\ worker.pc = "head" /\ worker \in Runs
      /\ Reading(worker, selected, finalized) /\ finalized \in Chains
  BY DEF chain_getFinalizedHead, at, ObservationInv, Working, Chained
<1>2. Len(finalized) \in Nat
  BY <1>1, ChainForm
<1>3. PICK w : w = [worker EXCEPT !.pc = "canonical", !.head = Len(finalized)]
  OBVIOUS
<1>4. /\ w \in Runs /\ w.id = worker.id /\ w.pc = "canonical" /\ w.seen = worker.seen
      /\ w.head = Len(finalized)
  BY <1>1, <1>2, <1>3 DEF Runs
<1>5. Reading(w, selected, finalized)
  BY <1>1, <1>2, <1>4 DEF Reading, Replaying
<1>6. QED
  BY <1>1, <1>3, <1>4, <1>5, GoKeeps DEF chain_getFinalizedHead

\* What the worker has read, once the node has agreed.
LEMMA SeenIsFinal ==
    /\ ObservationInv /\ worker # None /\ worker.pc = "canonical"
    /\ agrees(worker.seen) /\ kindOf(worker.seen) = "finalized"
    => FinalAction(worker.seen, finalized)
<1> SUFFICES ASSUME ObservationInv, worker # None, worker.pc = "canonical",
                    agrees(worker.seen), kindOf(worker.seen) = "finalized"
             PROVE  FinalAction(worker.seen, finalized)
  OBVIOUS
<1>1. Chained /\ worker.seen \in Executed /\ worker.head \in Nat /\ worker.head =< Len(finalized)
  BY DEF ObservationInv, Working, Reading, Runs
<1>2. PICK h \in Nat : h = worker.head
  BY <1>1
<1>3. PICK a \in Executed : a = worker.seen
  BY <1>1
<1>4. h >= height(a)
  BY <1>2, <1>3 DEF kindOf
<1>5. QED
  BY <1>1, <1>2, <1>3, <1>4, AgreedIsFinal

\* The node's hash at the transaction's height: what is answered as finalized is.
LEMMA ObserveKeeps == ObservationInv /\ observeTransaction => ObservationInv'
<1> SUFFICES ASSUME ObservationInv, observeTransaction PROVE ObservationInv'
  OBVIOUS
<1> DEFINE a == worker.seen
<1>1. /\ worker # None /\ worker.pc = "canonical" /\ worker \in Runs /\ worker.head \in Nat
      /\ selected.check # "lookup" /\ Chained
      /\ a \in Executed /\ a.tx = selected.tx /\ worker.head =< Len(finalized)
  BY DEF observeTransaction, at, ObservationInv, Working, Reading, Runs
<1>2. agrees(a) /\ kindOf(a) = "finalized" => FinalAction(a, finalized)
  BY <1>1, SeenIsFinal
<1> DEFINE result == [subject |-> selected, kind |-> kindOf(a), status |-> a.status, hash |-> a.hash,
                      intent |-> compareTransactionIntent(a.tx)]
<1>3. ASSUME agrees(a), selected.check = "status", answer(result)
      PROVE  ObservationInv'
  <2>1. PICK x : x = result
    OBVIOUS
  <2>2. /\ x.subject = selected /\ x.kind = kindOf(a) /\ x.status = a.status /\ x.hash = a.hash
    BY <2>1
  <2>3. x.kind = "finalized" => Final(x.hash, finalized) /\ a \in Executed /\ Confirms(x, a)
    BY <1>1, <1>2, <1>3, <2>2 DEF FinalAction, Confirms
  <2>4. Holds(x, finalized)
    BY <1>3, <2>2, <2>3 DEF Holds
  <2>5. QED
    BY <1>1, <1>3, <2>1, <2>2, <2>4, AnswerKeeps
<1> DEFINE next == IF selected.check = "policy" THEN "deployment" ELSE "target"
<1>4. ASSUME agrees(a), kindOf(a) = "finalized", a.status = "SUCCESS", selected.check # "status",
             go([worker EXCEPT !.pc = next])
      PROVE  ObservationInv'
  <2>1. PICK w : w = [worker EXCEPT !.pc = next]
    OBVIOUS
  <2>2. w \in Runs /\ w.id = worker.id /\ w.pc = next /\ w.seen = a
    BY <1>1, <2>1 DEF Runs
  <2>3. Reading(w, selected, finalized)
    BY <1>1, <1>2, <1>4, <2>2 DEF Reading, Replaying
  <2>4. QED
    BY <1>1, <1>4, <2>1, <2>2, <2>3, GoKeeps
<1>5. QED
  BY <1>1, <1>3, <1>4, RefuseKeeps DEF observeTransaction

\* The lookup answers with a block that is final, and the state after it.
LEMMA PublicKeeps == ObservationInv /\ verifyPublicContract => ObservationInv'
<1> SUFFICES ASSUME ObservationInv, verifyPublicContract PROVE ObservationInv'
  OBVIOUS
<1> DEFINE a == worker.seen
<1>1. /\ worker # None /\ worker.pc = "canonical" /\ worker \in Runs /\ worker.head \in Nat
      /\ selected.check = "lookup" /\ Chained
      /\ a \in Executed /\ a \in latest(a.hash) /\ worker.head =< Len(finalized)
  BY DEF verifyPublicContract, at, ObservationInv, Working, Reading, Runs
<1>2. agrees(a) /\ kindOf(a) = "finalized" => FinalAction(a, finalized)
  BY <1>1, SeenIsFinal
<1> DEFINE result == [subject |-> selected, kind |-> "finalized", hash |-> a.hash, state |-> a.state]
<1>3. ASSUME agrees(a), kindOf(a) = "finalized", answer(result)
      PROVE  ObservationInv'
  <2>1. PICK x : x = result
    OBVIOUS
  <2>2. x.subject = selected /\ x.kind = "finalized" /\ x.state = a.state /\ x.hash = a.hash
    BY <2>1
  <2>3. Holds(x, finalized)
    BY <1>1, <1>2, <1>3, <2>2 DEF Holds, FinalAction
  <2>4. QED
    BY <1>1, <1>3, <2>1, <2>2, <2>3, AnswerKeeps
<1>4. QED
  BY <1>1, <1>3, RefuseKeeps DEF verifyPublicContract

\* A deployment is offered with what its transaction put on the chain.
LEMMA PolicyKeeps == ObservationInv /\ compareDeploymentPolicy => ObservationInv'
<1> SUFFICES ASSUME ObservationInv, compareDeploymentPolicy PROVE ObservationInv'
  OBVIOUS
<1>1. /\ worker # None /\ worker \in Runs /\ selected.check = "policy"
      /\ FinalAction(worker.seen, finalized) /\ indexed \in Chains
  BY DEF compareDeploymentPolicy, at, ObservationInv, Working, Reading, Chained
<1>2. ASSUME NEW a \in found(indexed, selected.tx), a.hash = worker.seen.hash, a.status = "SUCCESS",
             answer([subject |-> selected, kind |-> "finalized", hash |-> a.hash,
                     matches |-> a.state.policy = selected.saved,
                     verifiers |-> compareDeploymentVerifiers(a.state)])
      PROVE  ObservationInv'
  <2>1. a \in Executed /\ a.tx = selected.tx
    BY <1>1, ActionsExecuted DEF found
  <2>2. PICK x : x = [subject |-> selected, kind |-> "finalized", hash |-> a.hash,
                      matches |-> a.state.policy = selected.saved,
                      verifiers |-> compareDeploymentVerifiers(a.state)]
    OBVIOUS
  <2>3. x.subject = selected /\ x.kind = "finalized" /\ x.hash = a.hash
    BY <2>2
  <2>4. canChoose(x) => a.state.policy = selected.saved /\ a.state.keys = Release
    BY <2>2 DEF canChoose, compareDeploymentVerifiers
  <2>5. Confirms(x, a)
    BY <1>1, <1>2, <2>1, <2>3, <2>4 DEF Confirms
  <2>6. Holds(x, finalized)
    BY <1>1, <1>2, <2>1, <2>3, <2>5 DEF Holds, FinalAction
  <2>7. QED
    BY <1>1, <1>2, <2>2, <2>3, <2>6, AnswerKeeps
<1>3. QED
  BY <1>1, <1>2, RefuseKeeps DEF compareDeploymentPolicy

\* The target's content, and the state after it, on whatever chain that is.
LEMMA TargetKeeps == ObservationInv /\ queryTarget => ObservationInv'
<1> SUFFICES ASSUME ObservationInv, queryTarget PROVE ObservationInv'
  OBVIOUS
<1>1. /\ worker # None /\ worker.pc = "target" /\ worker \in Runs
      /\ Reading(worker, selected, finalized) /\ indexed \in Chains
  BY DEF queryTarget, at, ObservationInv, Working, Chained
<1>2. ASSUME NEW a \in found(indexed, selected.tx), NEW d \in Actions[indexed],
             ~isDeploy(a.tx), raw[a.tx].circuit = selected.circuit,
             go([worker EXCEPT !.pc = "scan", !.after = a.state, !.target = d])
      PROVE  ObservationInv'
  <2>1. a \in Executed /\ a.tx = selected.tx /\ d \in Executed
    BY <1>1, ActionsExecuted DEF found
  <2>2. a.state \in States /\ d \in Read
    BY <2>1 DEF States, Read
  <2>3. PICK w : w = [worker EXCEPT !.pc = "scan", !.after = a.state, !.target = d]
    OBVIOUS
  <2>4. w \in Runs /\ w.id = worker.id /\ w.pc = "scan" /\ w.seen = worker.seen
    BY <1>1, <2>2, <2>3 DEF Runs
  <2>5. Reading(w, selected, finalized)
    BY <1>1, <1>2, <2>1, <2>4 DEF Reading, Replaying
  <2>6. QED
    BY <1>1, <1>2, <2>3, <2>4, <2>5, GoKeeps
<1>3. QED
  BY <1>1, <1>2, RefuseKeeps DEF queryTarget

\* A message of the history; the target's has the block that is final.
LEMMA ScanKeeps == ObservationInv /\ findPreviousContractAction => ObservationInv'
<1> SUFFICES ASSUME ObservationInv, findPreviousContractAction PROVE ObservationInv'
  OBVIOUS
<1>1. /\ worker # None /\ worker.pc = "scan" /\ worker \in Runs
      /\ Reading(worker, selected, finalized) /\ indexed \in Chains
  BY DEF findPreviousContractAction, at, ObservationInv, Working, Chained
<1>2. PICK a \in Actions[indexed] : historyMessage(a)
  BY DEF findPreviousContractAction
<1>3. a \in Executed /\ a \in Read
  BY <1>1, ActionsExecuted DEF Read
<1>4. CASE go([worker EXCEPT !.previous = a, !.count = @ + 1])
  <2>1. PICK w : w = [worker EXCEPT !.previous = a, !.count = @ + 1]
    OBVIOUS
  <2>2. w \in Runs /\ w.id = worker.id /\ w.pc = "scan" /\ w.seen = worker.seen
    <3>1. PICK v : v = [worker EXCEPT !.previous = a]
      OBVIOUS
    <3>2. v \in Runs /\ v.id = worker.id /\ v.pc = "scan" /\ v.seen = worker.seen
          /\ v.count = worker.count /\ v.count \in Nat
      BY <1>1, <1>3, <3>1 DEF Runs
    <3>3. w = [v EXCEPT !.count = v.count + 1]
      BY <1>1, <2>1, <3>1, <3>2 DEF Runs
    <3>4. v.count + 1 \in Nat
      BY <3>2
    <3>5. QED
      BY <3>2, <3>3, <3>4 DEF Runs
  <2>3. Reading(w, selected, finalized)
    BY <1>1, <2>2 DEF Reading, Replaying
  <2>4. QED
    BY <1>1, <1>4, <2>1, <2>2, <2>3, GoKeeps
<1>5. CASE a.hash = worker.seen.hash /\ go([worker EXCEPT !.pc = "prior", !.target = a, !.count = 0])
  <2>1. PICK w : w = [worker EXCEPT !.pc = "prior", !.target = a, !.count = 0]
    OBVIOUS
  <2>2. /\ w \in Runs /\ w.id = worker.id /\ w.pc = "prior" /\ w.seen = worker.seen
        /\ w.target = a
    BY <1>1, <1>3, <2>1 DEF Runs
  <2>3. Reading(w, selected, finalized)
    BY <1>1, <1>5, <2>2 DEF Reading, Replaying
  <2>4. QED
    BY <1>1, <1>5, <2>1, <2>2, <2>3, GoKeeps
<1>6. QED
  BY <1>1, <1>2, <1>4, <1>5, RefuseKeeps DEF historyMessage

\* The state before the target, from the previous action of the history.
LEMMA PriorKeeps == ObservationInv /\ queryPrior => ObservationInv'
<1> SUFFICES ASSUME ObservationInv, queryPrior PROVE ObservationInv'
  OBVIOUS
<1>1. /\ worker # None /\ worker.pc = "prior" /\ worker \in Runs
      /\ Reading(worker, selected, finalized) /\ indexed \in Chains
  BY DEF queryPrior, at, ObservationInv, Working, Chained
<1>2. ASSUME NEW a \in found(indexed, worker.previous.tx),
             go([worker EXCEPT !.pc = "previousBlock", !.prior = a.state])
      PROVE  ObservationInv'
  <2>1. a.state \in States
    BY <1>1, ActionsExecuted DEF found, States
  <2>2. PICK w : w = [worker EXCEPT !.pc = "previousBlock", !.prior = a.state]
    OBVIOUS
  <2>3. /\ w \in Runs /\ w.id = worker.id /\ w.pc = "previousBlock" /\ w.seen = worker.seen
        /\ w.target = worker.target
    BY <1>1, <2>1, <2>2 DEF Runs
  <2>4. Reading(w, selected, finalized)
    BY <1>1, <2>3 DEF Reading, Replaying
  <2>5. QED
    BY <1>1, <1>2, <2>2, <2>3, <2>4, GoKeeps
<1>3. QED
  BY <1>1, <1>2, RefuseKeeps DEF queryPrior

\* The node's hashes of the two blocks.
LEMMA BlocksKeep == ObservationInv /\ (checkPreviousBlock \/ checkTargetBlock) => ObservationInv'
<1> SUFFICES ASSUME ObservationInv, checkPreviousBlock \/ checkTargetBlock PROVE ObservationInv'
  OBVIOUS
<1>1. /\ worker # None /\ worker.pc \in {"previousBlock", "targetBlock"} /\ worker \in Runs
      /\ Reading(worker, selected, finalized)
  BY DEF checkPreviousBlock, checkTargetBlock, at, ObservationInv, Working
<1>2. ASSUME NEW p \in {"targetBlock", "replay"}, go([worker EXCEPT !.pc = p])
      PROVE  ObservationInv'
  <2>1. PICK w : w = [worker EXCEPT !.pc = p]
    OBVIOUS
  <2>2. /\ w \in Runs /\ w.id = worker.id /\ w.pc = p /\ w.seen = worker.seen
        /\ w.target = worker.target
    BY <1>1, <2>1 DEF Runs
  <2>3. Reading(w, selected, finalized)
    BY <1>1, <2>2 DEF Reading, Replaying
  <2>4. QED
    BY <1>1, <1>2, <2>1, <2>2, <2>3, GoKeeps
<1>3. QED
  BY <1>1, <1>2, RefuseKeeps DEF checkPreviousBlock, checkTargetBlock

\* The transcript fixes what it read of the report and what it wrote, so a replay
\* on any state says of the report what happened on the chain.
LEMMA ReplayTells ==
    ASSUME NEW t, NEW before, NEW after, NEW r, ~isDeploy(t), replays(before, t, after),
           {q \in Reports : before.reports[q] # after.reports[q]} = {r}
    PROVE  /\ r \in Reports /\ r = raw[t].report
           /\ before.reports[r] = raw[t].from /\ after.reports[r] = raw[t].to
<1>1. r \in Reports /\ before.reports[r] # after.reports[r]
  OBVIOUS
<1>2. \A q \in Reports :
          after.reports[q] = IF q = raw[t].report THEN raw[t].to ELSE before.reports[q]
  BY DEF replays, runTranscript
<1>3. r = raw[t].report
  BY <1>1, <1>2
<1>4. before.reports[raw[t].report] = raw[t].from
  BY DEF replays, runsOn
<1>5. QED
  BY <1>1, <1>2, <1>3, <1>4

\* What is shown of a report is what its transaction did on the finalized chain.
LEMMA ReconcileKeeps == ObservationInv /\ reconcileReport => ObservationInv'
<1> SUFFICES ASSUME ObservationInv, reconcileReport PROVE ObservationInv'
  OBVIOUS
<1> DEFINE t == selected.tx
           r == selected.report
           before == worker.prior
           after == worker.after
<1>1. /\ worker # None /\ worker \in Runs /\ ~isDeploy(t) /\ raw[t].circuit = selected.circuit
      /\ selected.check # "lookup" /\ selected.check # "status" /\ selected.check # "policy"
      /\ FinalAction(worker.seen, finalized) /\ worker.seen.tx = t /\ worker.seen.status = "SUCCESS"
      /\ worker.target.hash = worker.seen.hash
  BY DEF reconcileReport, at, ObservationInv, Working, Reading, Replaying
<1> DEFINE result == [subject |-> selected, kind |-> "finalized", hash |-> worker.target.hash,
                      previous |-> worker.previous.hash,
                      before |-> before.reports[r], after |-> after.reports[r]]
<1>2. ASSUME replays(before, t, after), answer(result),
             {q \in Reports : before.reports[q] # after.reports[q]} = {r}
      PROVE  ObservationInv'
  <2>1. r \in Reports /\ r = raw[t].report /\ before.reports[r] = raw[t].from /\ after.reports[r] = raw[t].to
    <3>1. PICK s : s = t
      OBVIOUS
    <3>2. PICK p : p = r
      OBVIOUS
    <3>3. PICK b : b = before
      OBVIOUS
    <3>4. PICK n : n = after
      OBVIOUS
    <3>5. ~isDeploy(s) /\ replays(b, s, n) /\ {q \in Reports : b.reports[q] # n.reports[q]} = {p}
      BY <1>1, <1>2, <3>1, <3>2, <3>3, <3>4
    <3>6. p \in Reports /\ p = raw[s].report /\ b.reports[p] = raw[s].from /\ n.reports[p] = raw[s].to
      BY <3>5, ReplayTells
    <3>7. QED
      BY <3>1, <3>2, <3>3, <3>4, <3>6
  <2>2. PICK x : x = result
    OBVIOUS
  <2>3. /\ x.subject = selected /\ x.kind = "finalized" /\ x.hash = worker.target.hash
        /\ x.before = raw[t].from /\ x.after = raw[t].to
    BY <2>1, <2>2
  <2>4. Confirms(x, worker.seen)
    BY <1>1, <2>3 DEF Confirms
  <2>5. PICK a \in Executed : a = worker.seen
    BY <1>1 DEF FinalAction
  <2>6. PICK c \in Chains \ {<<>>} : \E k \in DOMAIN Last(c) :
            a = Action(c, k) /\ a.hash = c /\ a.tx = Last(c)[k]
    BY ExecutedPlace
  <2>7. PICK k \in DOMAIN Last(c) : a = Action(c, k) /\ a.hash = c /\ a.tx = Last(c)[k]
    BY <2>6
  <2>8. Final(c, finalized) /\ Last(c)[k] = t /\ Action(c, k).tx = t /\ Action(c, k).status = "SUCCESS"
    BY <1>1, <2>5, <2>7 DEF FinalAction
  <2>9. runsOn(stateBefore(c, k), t) /\ Action(c, k).state = runTranscript(stateBefore(c, k), t)
    BY <2>8 DEF Action
  <2>10. /\ stateBefore(c, k) # None /\ stateBefore(c, k).reports[r] = raw[t].from
         /\ Action(c, k).state.reports[r] = raw[t].to
    BY <1>1, <2>1, <2>9 DEF runsOn, runTranscript
  <2>11. Reconciled(x, c, k)
    BY <2>3, <2>8, <2>10 DEF Reconciled
  <2>12. Holds(x, finalized)
    BY <1>1, <2>3, <2>4, <2>8, <2>11 DEF Holds, FinalAction
  <2>13. QED
    BY <1>1, <1>2, <2>2, <2>3, <2>12, AnswerKeeps
<1>3. QED
  BY <1>1, <1>2, RefuseKeeps DEF reconcileReport

-----------------------------------------------------------------------------
(* Every step keeps the invariant.                                         *)

\* One case for each action.
LEMMA ObservationNext == ObservationInv /\ [Next]_vars => ObservationInv'
<1>1. ObservationInv /\ UNCHANGED vars => ObservationInv'
  BY DEF vars, chain, panel, ObservationInv, Chained, Working, Answered, Shown, Compared,
         SavedCiphertextCheck, SavedDecisionCheck
<1>2. QED
  BY <1>1, ChainKeeps, CheckKeeps, StopKeeps, CompareKeeps, SelectKeeps, ReceiveKeeps, FailsKeeps,
     TransactionKeeps, ContractKeeps, HeadKeeps, ObserveKeeps, PublicKeeps, PolicyKeeps, TargetKeeps,
     ScanKeeps, PriorKeeps, BlocksKeep, ReconcileKeeps DEF Next

\* The invariant of the observation.
THEOREM ObservationInvariance == Spec => []ObservationInv
  BY ObservationInitially, ObservationNext, PTL DEF Spec

\* What a panel shows as finalized is on the finalized chain and stays true.
THEOREM FinalizedSafety == Spec => []FinalizedStaysTrue
<1>1. ObservationInv => FinalizedStaysTrue
  <2> SUFFICES ASSUME ObservationInv, shown # None, shown.kind = "finalized"
               PROVE  /\ IsPrefix(shown.hash, finalized)
                      /\ selected.check = "lookup" =>
                             \E a \in latest(shown.hash) : a.hash = shown.hash /\ a.state = shown.state
                      /\ selected.check # "lookup" => \E a \in found(finalized, shown.subject.tx) :
                             /\ a.hash = shown.hash
                             /\ a.status = IF selected.check = "status" THEN shown.status ELSE "SUCCESS"
                             /\ (selected.check = "policy" /\ canChoose(shown)) =>
                                    a.state.policy = shown.subject.saved /\ a.state.keys = Release
    BY DEF FinalizedStaysTrue
  <2>1. Holds(shown, finalized) /\ shown.subject = selected /\ finalized \in Chains
    BY DEF ObservationInv, Shown, Chained
  <2>2. Final(shown.hash, finalized)
    BY <2>1 DEF Holds
  <2>3. ASSUME NEW a \in Executed, Confirms(shown, a)
        PROVE  a \in found(finalized, shown.subject.tx)
    <3>1. PICK c \in Chains \ {<<>>} : \E k \in DOMAIN Last(c) : a = Action(c, k) /\ a.hash = c
      BY ExecutedPlace
    <3>2. PICK k \in DOMAIN Last(c) : a = Action(c, k) /\ a.hash = c
      BY <3>1
    <3>3. IsPrefix(c, finalized)
      BY <2>2, <2>3, <3>2 DEF Confirms, Final
    <3>4. PICK d \in Chains : d = finalized
      BY <2>1
    <3>5. Action(c, k) \in Actions[d]
      BY <3>3, <3>4, ExecutedOnChain
    <3>6. QED
      BY <2>3, <3>2, <3>4, <3>5 DEF found, Confirms
  <2>4. QED
    BY <2>1, <2>2, <2>3 DEF Holds, Final, Confirms
<1>2. QED
  BY <1>1, ObservationInvariance, PTL

\* "Before -> after" is what the transaction did on the finalized chain.
THEOREM ReconciliationSafety == Spec => []ReconciledIsTrue
<1>1. ObservationInv => ReconciledIsTrue
  <2> SUFFICES ASSUME ObservationInv, shown # None, selected.check = "effect"
               PROVE  \E h \in DOMAIN finalized : \E k \in DOMAIN finalized[h] :
                          LET c == SubSeq(finalized, 1, h)  a == Action(c, k)  before == stateBefore(c, k)
                              r == shown.subject.report IN
                          /\ a.tx = shown.subject.tx /\ a.status = "SUCCESS"
                          /\ before # None /\ before.reports[r] = shown.before
                          /\ a.state.reports[r] = shown.after
                          /\ compared = TRUE => selected.saved = IF raw[a.tx].circuit = "submitReport"
                                                                 THEN a.state.reports[r].ciphertext
                                                                 ELSE a.state.reports[r].decision
    BY DEF ReconciledIsTrue
  <2>1. Holds(shown, finalized) /\ shown.subject = selected /\ finalized \in Chains /\ Compared
    BY DEF ObservationInv, Shown, Chained
  <2>2. raw[shown.subject.tx].circuit = selected.circuit
    BY <2>1 DEF Holds
  <2>3. PICK c \in Chains \ {<<>>} : \E k \in DOMAIN Last(c) : Final(c, finalized) /\ Reconciled(shown, c, k)
    BY <2>1 DEF Holds
  <2>4. PICK k \in DOMAIN Last(c) : Final(c, finalized) /\ Reconciled(shown, c, k)
    BY <2>3
  <2>5. /\ Len(c) \in DOMAIN finalized /\ SubSeq(finalized, 1, Len(c)) = c
        /\ finalized[Len(c)] = Last(c)
    <3>1. PICK d \in Chains : d = finalized
      BY <2>1
    <3>2. IsPrefix(c, d)
      BY <2>4, <3>1 DEF Final
    <3>3. QED
      BY <3>1, <3>2, ExecutedOnChain
  <2>6. compared = TRUE => selected.saved = IF selected.circuit = "submitReport"
                                            THEN shown.after.ciphertext ELSE shown.after.decision
    BY <2>1 DEF Compared, SavedCiphertextCheck, SavedDecisionCheck
  <2>7. QED
    BY <2>2, <2>4, <2>5, <2>6 DEF Reconciled
<1>2. QED
  BY <1>1, ObservationInvariance, PTL

\* The panel shows and awaits only what is about its subject.
THEOREM SelectionSafety == Spec => []ShownIsForSelected
<1>1. ObservationInv => ShownIsForSelected
  BY DEF ObservationInv, Working, Shown, ShownIsForSelected
<1>2. QED
  BY <1>1, ObservationInvariance, PTL
=============================================================================
