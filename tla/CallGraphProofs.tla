---------------------------- MODULE CallGraphProofs ----------------------------
(***************************************************************************)
(* The call graph lane's theorems, for any callers, packages and workers:  *)
(* one caller computes the graph, its failure is its own, what it shares   *)
(* leaves nothing out on account of the caller it was computed for, and    *)
(* what it links is within the cap.                                        *)
(***************************************************************************)
EXTENDS CallGraphLane, FiniteSetTheorems, FunctionTheorems, WellFoundedInduction,
        TLAPS

-----------------------------------------------------------------------------
(* The memo.                                                               *)

Asker == [pc : {"idle", "fill", "run", "failing", "wait", "back"},
          on : Caller \cup {NoCall}, out : Outcome]

\* Inductive: the map names the caller that runs or ran to an answer.
MemoInv ==
  /\ MemoTypeOK
  /\ \A k \in Key : calls[k] # NoCall => KeyOf[calls[k]] = k
  /\ \A c \in Caller : asker[c].pc = "run" \/ c \in good => calls[KeyOf[c]] = c
  /\ \A c \in good : asker[c].pc = "back"

\* A step of the memo is one of these; every other step leaves it alone.
MemoMove(c) ==
  \/ Ask(c) \/ Cancel(c) \/ Create(c) \/ Find(c) \/ Return(c) \/ Fail(c)
  \/ Release(c) \/ Wake(c) \/ Leave(c)

LEMMA MemoSteps ==
  ASSUME [Next]_laneVars
  PROVE  (\E c \in Caller : MemoMove(c)) \/ UNCHANGED memoVars
BY DEF Next, MemoMove, BeginRun, EndRun, Panic, Wait, Operation, laneVars

\* The record of one caller is replaced.
LEMMA AskerMove ==
  ASSUME MemoTypeOK, NEW c \in Caller, MemoMove(c)
  PROVE  /\ asker' \in [Caller -> Asker]
         /\ \A d \in Caller \ {c} : asker'[d] = asker[d]
<1>0. asker \in [Caller -> Asker] /\ asker[c] \in Asker
      /\ calls[KeyOf[c]] \in Caller \cup {NoCall}
  BY MemoAssumption DEF MemoTypeOK, Asker
<1>1. ASSUME NEW pc \in {"fill", "run", "failing"}, Become(c, pc)
      PROVE  asker' \in [Caller -> Asker] /\ \A d \in Caller \ {c} : asker'[d] = asker[d]
  <2>1. [asker[c] EXCEPT !.pc = pc] \in Asker
    BY <1>0 DEF Asker
  <2>2. QED
    BY <1>0, <1>1, <2>1 DEF Become
<1>2. ASSUME NEW o \in Outcome, Back(c, o)
      PROVE  asker' \in [Caller -> Asker] /\ \A d \in Caller \ {c} : asker'[d] = asker[d]
  <2>1. [pc |-> "back", on |-> NoCall, out |-> o] \in Asker
    BY DEF Asker
  <2>2. QED
    BY <1>0, <1>2, <2>1 DEF Back
<1>3. CASE Find(c)
  <2>1. [asker[c] EXCEPT !.pc = "wait", !.on = calls[KeyOf[c]]] \in Asker
    <3> DEFINE of == calls[KeyOf[c]]
    <3>1. of \in Caller \cup {NoCall}
      BY <1>0
    <3> HIDE DEF of
    <3>2. [asker[c] EXCEPT !.pc = "wait", !.on = of] \in Asker
      BY <1>0, <3>1 DEF Asker
    <3>3. QED
      BY <3>2 DEF of
  <2>2. asker' = [asker EXCEPT ![c] = [asker[c] EXCEPT !.pc = "wait", !.on = calls[KeyOf[c]]]]
    BY <1>0, <1>3 DEF Find
  <2>3. QED
    BY <1>0, <2>1, <2>2
<1>4. CASE Wake(c)
  <2>1. CASE asker[c].on \in good
    BY <1>2, <1>4, <2>1 DEF Wake, Outcome
  <2>2. CASE asker[c].on \notin good
    <3>1. [asker[c] EXCEPT !.pc = "fill", !.on = NoCall] \in Asker
      BY <1>0 DEF Asker
    <3>2. asker' = [asker EXCEPT ![c] = [asker[c] EXCEPT !.pc = "fill", !.on = NoCall]]
      BY <1>0, <1>4, <2>2 DEF Wake
    <3>3. QED
      BY <1>0, <3>1, <3>2
  <2>3. QED
    BY <2>1, <2>2
<1>5. CASE Return(c) \/ Release(c) \/ Leave(c)
  BY <1>2, <1>5 DEF Return, Release, Leave, Outcome
<1>6. CASE Ask(c) \/ Create(c) \/ Fail(c)
  BY <1>1, <1>6 DEF Ask, Create, Fail
<1>7. CASE Cancel(c)
  BY <1>0, <1>7 DEF Cancel
<1>8. QED
  BY <1>3, <1>4, <1>5, <1>6, <1>7 DEF MemoMove

\* Where the caller that moved comes from and goes to.
LEMMA AskerPlace ==
  ASSUME MemoTypeOK, NEW c \in Caller, MemoMove(c)
  PROVE  /\ Create(c) => asker[c].pc = "fill" /\ asker'[c].pc = "run"
         /\ Return(c) => asker[c].pc = "run" /\ asker'[c].pc = "back"
         /\ Fail(c) => asker[c].pc = "run" /\ asker'[c].pc = "failing"
         /\ Cancel(c) => asker' = asker
         /\ ~(Create(c) \/ Return(c) \/ Fail(c) \/ Cancel(c)) =>
              asker[c].pc \notin {"run", "back"} /\ asker'[c].pc # "run"
BY DEF MemoTypeOK, MemoMove, Ask, Cancel, Create, Find, Return, Fail, Release, Wake, Leave,
       Become, Back

LEMMA MemoStep == MemoInv /\ [Next]_laneVars => MemoInv'
<1> SUFFICES ASSUME MemoInv, [Next]_laneVars PROVE MemoInv'
  OBVIOUS
<1>0. /\ MemoTypeOK /\ calls \in [Key -> Caller \cup {NoCall}] /\ good \subseteq done
      /\ done \subseteq Caller /\ good \subseteq Caller /\ cancelled \subseteq Caller
      /\ NoCall \notin Caller /\ KeyOf \in [Caller -> Key]
  BY MemoAssumption DEF MemoInv, MemoTypeOK
<1>1. CASE UNCHANGED memoVars
  BY <1>1 DEF memoVars, MemoInv, MemoTypeOK
<1>2. ASSUME NEW c \in Caller, MemoMove(c) PROVE MemoInv'
  <2>0. asker' \in [Caller -> Asker] /\ \A d \in Caller \ {c} : asker'[d] = asker[d]
    BY <1>0, <1>2, AskerMove
  <2>1. CASE Create(c)
    <3>1. /\ calls' = [calls EXCEPT ![KeyOf[c]] = c] /\ calls[KeyOf[c]] = NoCall
          /\ asker'[c].pc = "run" /\ asker[c].pc = "fill" /\ UNCHANGED <<done, good, cancelled>>
      BY <1>0, <1>2, <2>1, AskerPlace DEF Create
    <3>2. QED
      BY <1>0, <2>0, <3>1 DEF MemoInv, MemoTypeOK, Asker
  <2>2. CASE Return(c)
    <3>1. /\ good' = good \cup {c} /\ done' = done \cup {c} /\ UNCHANGED <<calls, cancelled>>
          /\ asker[c].pc = "run" /\ asker'[c].pc = "back"
      BY <1>0, <1>2, <2>2, AskerPlace DEF Return
    <3>2. QED
      BY <1>0, <2>0, <3>1 DEF MemoInv, MemoTypeOK, Asker
  <2>3. CASE Fail(c)
    <3>1. /\ calls' = [calls EXCEPT ![KeyOf[c]] = NoCall] /\ UNCHANGED <<done, good, cancelled>>
          /\ asker[c].pc = "run" /\ asker'[c].pc = "failing"
      BY <1>0, <1>2, <2>3, AskerPlace DEF Fail
    <3>2. QED
      BY <1>0, <2>0, <3>1 DEF MemoInv, MemoTypeOK, Asker
  <2>4. CASE Cancel(c)
    <3>1. asker' = asker /\ cancelled' \subseteq Caller /\ UNCHANGED <<calls, done, good>>
      BY <1>0, <2>4 DEF Cancel
    <3>2. QED
      BY <3>1 DEF MemoInv, MemoTypeOK
  <2>5. CASE ~(Create(c) \/ Return(c) \/ Fail(c) \/ Cancel(c))
    <3>1. asker[c].pc \notin {"run", "back"} /\ asker'[c].pc # "run"
      BY <1>0, <1>2, <2>5, AskerPlace
    <3>2. UNCHANGED <<calls, good, cancelled>> /\ done' \subseteq Caller /\ done \subseteq done'
      BY <1>0, <1>2, <2>5 DEF MemoMove, Ask, Find, Release, Wake, Leave
    <3>3. QED
      BY <1>0, <2>0, <3>1, <3>2 DEF MemoInv, MemoTypeOK, Asker
  <2>6. QED
    BY <2>1, <2>2, <2>3, <2>4, <2>5
<1>3. QED
  BY <1>1, <1>2, MemoSteps

LEMMA MemoStarts == Init => MemoInv
BY MemoAssumption DEF Init, MemoInit, MemoInv, MemoTypeOK, Outcome

THEOREM MemoCorrect == Spec => []MemoInv
BY MemoStarts, MemoStep, PTL DEF Spec

\* "runs once per request" (memo.go), for any number of callers and requests:
\* one request is never run by two callers at once, nor again once a run of it
\* has succeeded.
THEOREM RunsOnce == Spec => []RunOnce
<1>1. MemoInv => RunOnce
  BY DEF MemoInv, RunOnce
<1>2. QED
  BY <1>1, MemoCorrect, PTL

\* A waiter of a run that failed starts over: a caller that did not run the
\* operation is never told that it failed.
THEOREM FailureIsOwn == Spec => FailureNotInherited
<1> DEFINE Told(c) == asker'[c].out = "failed" /\ asker[c].out # "failed"
<1>1. ASSUME MemoInv, [Next]_laneVars, NEW c \in Caller, Told(c) PROVE asker[c].pc = "failing"
  <2>0. asker \in [Caller -> Asker] /\ asker[c] \in Asker
    BY <1>1 DEF MemoInv, MemoTypeOK, Asker
  <2>1. MemoMove(c)
    BY <1>1, MemoSteps, AskerMove DEF MemoInv, memoVars
  <2>2. ASSUME NEW o, Back(c, o) PROVE o = "failed"
    BY <1>1, <2>0, <2>2 DEF Back
  <2>3. ASSUME NEW pc, Become(c, pc) PROVE FALSE
    BY <1>1, <2>0, <2>3 DEF Become, Asker
  <2>4. CASE Find(c) \/ Wake(c)
    BY <1>1, <2>0, <2>2, <2>4 DEF Find, Wake, Asker
  <2>5. CASE Return(c) \/ Leave(c) \/ Ask(c) \/ Create(c) \/ Fail(c) \/ Cancel(c)
    BY <1>1, <2>2, <2>3, <2>5 DEF Return, Leave, Ask, Create, Fail, Cancel
  <2>6. CASE Release(c)
    BY <2>6 DEF Release
  <2>7. QED
    BY <2>1, <2>4, <2>5, <2>6 DEF MemoMove
<1>2. MemoInv /\ [Next]_laneVars =>
        [\A c \in Caller : Told(c) => asker[c].pc = "failing"]_laneVars
  BY <1>1
<1>3. QED
  BY <1>2, MemoCorrect, PTL DEF Spec, FailureNotInherited

-----------------------------------------------------------------------------
(* What is shared.                                                         *)

Ended == Running \cap cancelled # {}

\* Inductive: a package is left out on account of the budget, or of a caller
\* whose run then ends in an error.
LeftInv ==
  /\ run = "read" => \A e \in Entry : sent[e] = "left" \/ out[e] = "left" => budget \/ Ended
  /\ run \in {"link", "graph", "bare"} => \A e \in Entry : out[e] = "left" => budget
  /\ run = "bare" => budget
  /\ good # {} => run \in {"graph", "bare"}
  /\ sent \in [Entry -> {"parsed", "unread", "left", "capped", "overran", "none"}]

LEMMA OneKey == \A c, d \in Caller : KeyOf[c] = KeyOf[d]
BY ReadersAssumption

\* With an answer in the map nothing runs and nothing is begun.
LEMMA GoodEnds ==
  ASSUME MemoInv, good # {}, NEW c \in Caller
  PROVE  asker[c].pc # "run" /\ ~Create(c)
<1>1. PICK d \in good : d \in Caller /\ asker[d].pc = "back" /\ calls[KeyOf[d]] = d
  BY DEF MemoInv, MemoTypeOK
<1>2. KeyOf[c] = KeyOf[d] /\ d # NoCall
  BY <1>1, OneKey, MemoAssumption
<1>3. QED
  BY <1>1, <1>2 DEF MemoInv, Create

\* A step of the memo alone: no run ends while it reads, and none is good.
LEMMA WaitLeft ==
  ASSUME MemoInv, LeftInv, UNCHANGED opVars, NEW c \in Caller,
         Ask(c) \/ Cancel(c) \/ Wait(c)
  PROVE  LeftInv'
<1>1. good' = good /\ Running \subseteq Running' /\ cancelled \subseteq cancelled'
  <2>1. MemoMove(c) /\ MemoTypeOK /\ good' = good /\ cancelled \subseteq cancelled'
        /\ ~(Create(c) \/ Return(c) \/ Fail(c))
    BY DEF MemoMove, Wait, Ask, Cancel, Find, Release, Wake, Leave, Create, Return, Fail, MemoInv,
           MemoTypeOK, Become, Back
  <2>2. asker'[c].pc = asker[c].pc \/ asker[c].pc # "run"
    BY <2>1, AskerPlace
  <2>3. QED
    BY <2>1, <2>2, AskerMove DEF Running
<1>2. Ended => Ended'
  BY <1>1 DEF Ended
<1>3. QED
  BY <1>1, <1>2 DEF LeftInv, opVars

LEMMA ReadLeft ==
  ASSUME LeftInv, UNCHANGED memoVars, NEW w \in Worker, R!ReadStep(w)
  PROVE  LeftInv'
<1>1. UNCHANGED <<run, out, budget, good, asker, cancelled>>
  BY DEF R!ReadStep, R!Take, R!ReadPackage, R!Count, R!Parse, memoVars
<1>2. Ended' = Ended
  BY <1>1 DEF Ended, Running
<1>3. \/ sent' = sent
      \/ \E x \in {"parsed", "unread", "capped", "overran"} :
           sent' = [sent EXCEPT ![worker[w].on] = x]
      \/ sent' = [sent EXCEPT ![worker[w].on] = "left"] /\ (run = "read" => budget \/ Ended)
  BY DEF R!ReadStep, R!Take, R!ReadPackage, R!Count, R!Parse, R!Send, R!Cut, R!Advance, Ended
<1>4. QED
  BY <1>1, <1>2, <1>3 DEF LeftInv

LEMMA CollectLeft ==
  ASSUME LeftInv, UNCHANGED memoVars, R!CollectStep
  PROVE  LeftInv'
<1>1. UNCHANGED <<sent, budget, good>> /\ Ended' = Ended
  BY DEF R!CollectStep, R!Collect, R!Gather, R!Link, memoVars, Ended, Running
<1>2. CASE R!Collect
  BY <1>1, <1>2 DEF R!Collect, R!Pending, LeftInv
<1>3. CASE R!Gather
  <2>1. /\ run = "read" /\ run' = IF Ended THEN "error" ELSE "link"
        /\ out' = [e \in Entry |-> IF e \in R!Pending THEN "left" ELSE out[e]]
        /\ R!Pending = {} \/ Ended \/ budget
    BY <1>3 DEF R!Gather, R!Cut, Ended
  <2>2. QED
    BY <1>1, <2>1 DEF LeftInv
<1>4. CASE R!Link
  <2>1. /\ run = "link" /\ out' = out
        /\ run' = "graph" \/ (run' = "error" /\ Ended) \/ (run' = "bare" /\ budget)
    BY <1>4 DEF R!Link, R!Cut, Ended
  <2>2. good = {}
    BY <2>1 DEF LeftInv
  <2>3. QED
    BY <1>1, <2>1, <2>2 DEF LeftInv
<1>5. QED
  BY <1>2, <1>3, <1>4 DEF R!CollectStep

LEMMA LeftStep == MemoInv /\ LeftInv /\ [Next]_laneVars => LeftInv'
<1> SUFFICES ASSUME MemoInv, LeftInv, [Next]_laneVars PROVE LeftInv'
  OBVIOUS
<1>1. CASE UNCHANGED laneVars
  BY <1>1 DEF laneVars, memoVars, opVars, LeftInv, Ended, Running
<1>2. ASSUME NEW c \in Caller, ((Ask(c) \/ Cancel(c)) /\ UNCHANGED opVars) \/ Wait(c) PROVE LeftInv'
  BY <1>2, WaitLeft DEF Wait
<1>3. ASSUME NEW c \in Caller, BeginRun(c) PROVE LeftInv'
  <2>1. good = {} /\ good' = good
    BY <1>3, GoodEnds DEF BeginRun, Create
  <2>2. run' = "read" /\ sent' = [e \in Entry |-> "none"] /\ out' = [e \in Entry |-> "none"]
    BY <1>3 DEF BeginRun, R!Start
  <2>3. QED
    BY <2>1, <2>2 DEF LeftInv
<1>4. ASSUME NEW c \in Caller, EndRun(c) PROVE LeftInv'
  BY <1>4, GoodEnds DEF EndRun, Return, Fail, opVars, LeftInv
<1>5. ASSUME NEW c \in Caller, Panic(c) PROVE LeftInv'
  <2>1. asker[c].pc = "run" /\ good' = good /\ run' = "error" /\ sent' = sent
    BY <1>5 DEF Panic, Fail
  <2>2. QED
    BY <2>1, GoodEnds DEF LeftInv
<1>6. CASE Operation
  BY <1>6, CollectLeft DEF Operation
<1>7. CASE R!BudgetOver /\ UNCHANGED memoVars
  BY <1>7 DEF R!BudgetOver, memoVars, LeftInv, Ended, Running
<1>8. ASSUME NEW w \in Worker, R!ReadStep(w) /\ UNCHANGED memoVars PROVE LeftInv'
  BY <1>8, ReadLeft
<1>9. QED
  BY <1>1, <1>2, <1>3, <1>4, <1>5, <1>6, <1>7, <1>8 DEF Next

\* The graph that later callers are handed leaves nothing out on account of the
\* caller it was computed for, however many packages and workers there are and
\* whenever that caller's context ends.
THEOREM SharedIsWhole == Spec => []SharedGraphWhole
<1>1. Init => LeftInv
  BY DEF Init, MemoInit, R!Off, LeftInv
<1>2. LeftInv => SharedGraphWhole
  BY DEF LeftInv, SharedGraphWhole
<1>3. QED
  BY <1>1, <1>2, LeftStep, MemoCorrect, PTL DEF Spec

-----------------------------------------------------------------------------
(* Sums of sizes.  A sum over a set of packages is a fold; it is also the  *)
(* number of their bytes, counted one by one, and of a number of elements  *)
(* the library knows what a union does to it.                              *)

Bytes(S) == {b \in Entry \X Nat : b[1] \in S /\ b[2] \in 1..Size[b[1]]}

Weight(S) == Cardinality(Bytes(S))

LEMMA OnePackage ==
  ASSUME NEW e \in Entry
  PROVE  IsFiniteSet(Bytes({e})) /\ Weight({e}) = Size[e]
<1>1. Size[e] \in Nat
  BY ReadersAssumption
<1>2. IsFiniteSet(1..Size[e]) /\ Cardinality(1..Size[e]) = Size[e]
  BY <1>1, FS_Interval
<1> DEFINE f == [i \in 1..Size[e] |-> <<e, i>>]
<1>3. f \in Bijection(1..Size[e], Bytes({e}))
  <2>1. f \in [1..Size[e] -> Bytes({e})]
    BY <1>1 DEF Bytes
  <2>2. \A i, j \in 1..Size[e] : f[i] = f[j] => i = j
    OBVIOUS
  <2>3. \A b \in Bytes({e}) : \E i \in 1..Size[e] : f[i] = b
    BY <1>1 DEF Bytes
  <2>4. QED
    BY <2>1, <2>2, <2>3, Fun_IsBij
<1>4. QED
  BY <1>2, <1>3, FS_Bijection DEF ExistsBijection, Weight

LEMMA BytesFinite ==
  ASSUME NEW S, S \subseteq Entry
  PROVE  IsFiniteSet(Bytes(S)) /\ Weight(S) \in Nat
<1>1. IsFiniteSet(S)
  BY ReadersAssumption, FS_Subset
<1> DEFINE Each == {Bytes({e}) : e \in S}
<1>2. IsFiniteSet(Each)
  <2> DEFINE f == [e \in S |-> Bytes({e})]
  <2>1. f \in [S -> Each] /\ \A B \in Each : \E e \in S : f[e] = B
    OBVIOUS
  <2> HIDE DEF f, Each
  <2>2. f \in Surjection(S, Each)
    BY <2>1, Fun_IsSurj
  <2>3. QED
    BY <1>1, <2>2, FS_Surjection
<1>3. \A B \in Each : IsFiniteSet(B)
  BY OnePackage
<1>4. IsFiniteSet(UNION Each)
  BY <1>2, <1>3, FS_UNION
<1>5. Bytes(S) = UNION Each
  BY DEF Bytes
<1>6. QED
  BY <1>4, <1>5, FS_CardinalityType DEF Weight

LEMMA WeightOfNothing == Weight({}) = 0
<1>1. Bytes({}) = {}
  BY DEF Bytes
<1>2. QED
  BY <1>1, FS_EmptySet DEF Weight

LEMMA WeightMonotone ==
  ASSUME NEW S, S \subseteq Entry, NEW T, T \subseteq S
  PROVE  Weight(T) <= Weight(S)
<1>1. Bytes(T) \in SUBSET Bytes(S)
  BY DEF Bytes
<1>2. QED
  BY <1>1, BytesFinite, FS_Subset DEF Weight

LEMMA WeightOfOneMore ==
  ASSUME NEW S, S \subseteq Entry, NEW e \in Entry
  PROVE  /\ Weight(S \cup {e}) <= Weight(S) + Size[e]
         /\ e \notin S => Weight(S \cup {e}) = Weight(S) + Size[e]
<1>1. /\ IsFiniteSet(Bytes(S)) /\ Weight(S) \in Nat
      /\ IsFiniteSet(Bytes({e})) /\ Weight({e}) = Size[e] /\ Size[e] \in Nat
  BY BytesFinite, OnePackage, ReadersAssumption
<1>2. Bytes(S \cup {e}) = Bytes(S) \cup Bytes({e})
  BY DEF Bytes
<1>3. e \notin S => Bytes(S) \cap Bytes({e}) = {}
  BY DEF Bytes
<1>4. Cardinality(Bytes(S) \cap Bytes({e})) \in Nat
  BY <1>1, FS_Intersection, FS_CardinalityType
<1>5. Weight(S \cup {e}) = Weight(S) + Size[e] - Cardinality(Bytes(S) \cap Bytes({e}))
  BY <1>1, <1>2, FS_Union DEF Weight
<1> DEFINE common == Cardinality(Bytes(S) \cap Bytes({e}))
<1>6. e \notin S => common = 0
  BY <1>3, FS_EmptySet
<1>7. common \in Nat /\ Weight(S \cup {e}) = Weight(S) + Size[e] - common
  BY <1>4, <1>5
<1> HIDE DEF common
<1>8. QED
  BY <1>1, <1>6, <1>7

\* What the fold's recursion says of a function.
Sums(f, T) ==
  f = [S \in SUBSET T |->
         IF S = {} THEN 0 ELSE LET e == CHOOSE x \in S : TRUE IN Size[e] + f[S \ {e}]]

LEMMA WeightSums ==
  ASSUME NEW T, T \subseteq Entry
  PROVE  Sums([S \in SUBSET T |-> Weight(S)], T)
<1> DEFINE w == [S \in SUBSET T |-> Weight(S)]
<1>1. ASSUME NEW S \in SUBSET T, S # {}, NEW e, e = CHOOSE x \in S : TRUE
      PROVE  w[S] = Size[e] + w[S \ {e}]
  <2>1. e \in S /\ e \in Entry
    BY <1>1
  <2>2. (S \ {e}) \cup {e} = S /\ S \ {e} \subseteq Entry /\ S \ {e} \in SUBSET T
    BY <2>1
  <2>3. Weight(S) = Weight(S \ {e}) + Size[e]
    <3> DEFINE U == S \ {e}
    <3>1. U \subseteq Entry /\ e \notin U /\ U \cup {e} = S
      BY <2>2
    <3> HIDE DEF U
    <3>2. Weight(U \cup {e}) = Weight(U) + Size[e]
      BY <2>1, <3>1, WeightOfOneMore
    <3>3. Weight(S) = Weight(U) + Size[e]
      BY <3>1, <3>2
    <3>4. QED
      BY <3>3 DEF U
  <2>4. Weight(S \ {e}) \in Nat /\ Size[e] \in Nat
    BY <2>1, <2>2, BytesFinite, ReadersAssumption
  <2>5. QED
    BY <2>2, <2>3, <2>4
<1>2. w[{}] = 0
  BY WeightOfNothing
<1>3. QED
  BY <1>1, <1>2 DEF Sums

\* The recursion determines the function: a smallest set on which two differ
\* would not be empty, and without one of its elements they would agree.
LEMMA SumsUnique ==
  ASSUME NEW T, T \subseteq Entry, NEW f, NEW g, Sums(f, T), Sums(g, T)
  PROVE  f = g
<1> DEFINE Bad == {S \in SUBSET T : f[S] # g[S]}
<1>1. IsFiniteSet(T)
  BY ReadersAssumption, FS_Subset
<1>2. IsWellFoundedOn(StrictSubsetOrdering(T), SUBSET T)
  BY <1>1, FS_StrictSubsetOrderingWellFounded, FS_FiniteSubsetsOfFinite
<1>3. ASSUME Bad # {}
      PROVE  FALSE
  <2>1. \E S \in Bad : \A U \in Bad : ~(<<U, S>> \in StrictSubsetOrdering(T))
    BY <1>2, <1>3, WFMin
  <2>2. PICK S \in Bad : \A U \in Bad : ~(<<U, S>> \in StrictSubsetOrdering(T))
    BY <2>1
  <2>3. S # {}
    BY <2>2 DEF Sums
  <2>4. PICK e : e = CHOOSE x \in S : TRUE
    OBVIOUS
  <2>5. e \in S /\ S \ {e} \in SUBSET T
    BY <2>2, <2>3, <2>4
  <2>6. <<S \ {e}, S>> \in StrictSubsetOrdering(T)
    BY <2>2, <2>5 DEF StrictSubsetOrdering
  <2>7. f[S \ {e}] = g[S \ {e}]
    BY <2>2, <2>5, <2>6
  <2>8. f[S] = Size[e] + f[S \ {e}] /\ g[S] = Size[e] + g[S \ {e}]
    BY <2>2, <2>3, <2>4 DEF Sums
  <2>9. QED
    BY <2>2, <2>7, <2>8
<1>4. QED
  BY <1>3 DEF Sums

\* The cap's sum is the number of bytes.
LEMMA FoldIsWeight ==
  ASSUME NEW T, T \subseteq Entry
  PROVE  R!MapThenSumSet(LAMBDA e : Size[e], T) = Weight(T)
<1>1. Sums([S \in SUBSET T |-> Weight(S)], T)
  BY WeightSums
<1>2. Sums(CHOOSE f : Sums(f, T), T)
  BY <1>1
<1>3. (CHOOSE f : Sums(f, T)) = [S \in SUBSET T |-> Weight(S)]
  BY <1>1, <1>2, SumsUnique
<1>4. R!MapThenSumSet(LAMBDA e : Size[e], T) = (CHOOSE f : Sums(f, T))[T]
  BY DEF R!MapThenSumSet, R!MapThenFoldSet, Sums
<1>5. QED
  BY <1>3, <1>4

-----------------------------------------------------------------------------
(* The cap.                                                                *)

\* The packages CapHolds counts: those parsed and those being parsed.
Whole ==
  {e \in Entry : sent[e] = "parsed"}
    \cup {worker[w].on : w \in {v \in Worker : worker[v].pc = "parse"}}

WorkerType ==
  [Worker -> [pc : {"take", "read", "add", "parse"}, on : Entry \cup {NoEntry}]]

\* A package is let through on the sum that the atomic add returned, which
\* counted every package let through before it: what was let through never
\* weighs more than the counter did then, and that was within the cap.
CapInv ==
  /\ work \subseteq Entry /\ parsed \in Nat
  /\ worker \in WorkerType
  /\ \A w \in Worker : worker[w].pc # "take" => worker[w].on \in Entry
  /\ sent \in [Entry -> {"parsed", "unread", "left", "capped", "overran", "none"}]
  /\ Weight(Whole) <= parsed /\ Weight(Whole) <= Cap

LEMMA WholeWeight ==
  ASSUME CapInv
  PROVE  Whole \subseteq Entry /\ Weight(Whole) \in Nat
<1>1. Whole \subseteq Entry
  BY DEF CapInv, WorkerType, Whole
<1>2. QED
  BY <1>1, BytesFinite

\* With no package let through, whatever ran before.
LEMMA NoneWhole ==
  ASSUME work' \subseteq Entry, parsed' = 0,
         worker' = [w \in Worker |-> [pc |-> "take", on |-> NoEntry]],
         sent' = [e \in Entry |-> "none"]
  PROVE  CapInv'
<1>1. Whole' = {}
  BY DEF Whole
<1>2. Weight(Whole') = 0 /\ Cap \in Nat
  BY <1>1, WeightOfNothing, ReadersAssumption
<1>3. (Weight(Whole))' = Weight(Whole')
  BY DEF Weight, Bytes
<1>4. QED
  BY <1>2, <1>3 DEF CapInv, WorkerType

\* A step of a worker that lets no package through.
LEMMA FewerWhole ==
  ASSUME CapInv, Whole' \subseteq Whole, parsed' \in Nat, parsed <= parsed'
  PROVE  (Weight(Whole))' <= parsed' /\ (Weight(Whole))' <= Cap
<1>1. Whole \subseteq Entry /\ Weight(Whole) \in Nat /\ Cap \in Nat /\ parsed \in Nat
  BY WholeWeight, ReadersAssumption DEF CapInv
<1>2. Weight(Whole') <= Weight(Whole) /\ Weight(Whole') \in Nat
  BY <1>1, WeightMonotone, BytesFinite
<1>3. (Weight(Whole))' = Weight(Whole')
  BY DEF Weight, Bytes
<1>4. QED
  BY <1>1, <1>2, <1>3 DEF CapInv

LEMMA WorkerKeepsShape ==
  ASSUME CapInv, NEW w \in Worker, R!ReadStep(w)
  PROVE  /\ work' \subseteq Entry /\ worker' \in WorkerType
         /\ \A v \in Worker : worker'[v].pc # "take" => worker'[v].on \in Entry
         /\ sent' \in [Entry -> {"parsed", "unread", "left", "capped", "overran", "none"}]
<1>1. /\ worker \in WorkerType /\ work \subseteq Entry
      /\ worker[w].pc # "take" => worker[w].on \in Entry
      /\ \A v \in Worker : worker[v].pc # "take" => worker[v].on \in Entry
  BY DEF CapInv
<1>2. work' \subseteq work
  BY DEF R!ReadStep, R!Take, R!ReadPackage, R!Count, R!Parse
<1>3. \/ \E e \in Entry : worker' = [worker EXCEPT ![w] = [pc |-> "read", on |-> e]]
      \/ worker' = [worker EXCEPT ![w] = [pc |-> "take", on |-> NoEntry]]
      \/ \E pc \in {"add", "parse"} :
           worker[w].pc # "take" /\ worker' = [worker EXCEPT ![w].pc = pc]
  BY <1>1 DEF R!ReadStep, R!Take, R!ReadPackage, R!Count, R!Parse, R!Send, R!Advance
<1>4. /\ worker' \in WorkerType
      /\ \A v \in Worker : worker'[v].pc # "take" => worker'[v].on \in Entry
  BY <1>1, <1>3 DEF WorkerType
<1>5. \/ sent' = sent
      \/ \E x \in {"parsed", "unread", "left", "capped", "overran"} :
           sent' = [sent EXCEPT ![worker[w].on] = x]
  BY DEF R!ReadStep, R!Take, R!ReadPackage, R!Count, R!Parse, R!Send, R!Advance
<1>6. QED
  BY <1>1, <1>2, <1>4, <1>5 DEF CapInv

\* Letting the package of one worker through.
LEMMA LetThrough ==
  ASSUME CapInv, NEW w \in Worker, R!Count(w), parsed' <= Cap
  PROVE  (Weight(Whole))' <= parsed'
<1> DEFINE e == worker[w].on
<1>1. e \in Entry /\ Size[e] \in Nat /\ parsed' = parsed + Size[e]
      /\ sent' = sent /\ worker' = [worker EXCEPT ![w].pc = "parse"]
      /\ worker \in WorkerType /\ parsed \in Nat
  BY ReadersAssumption DEF CapInv, R!Count, R!Advance, WorkerType
<1>2. Whole' \subseteq Whole \cup {e}
  BY <1>1 DEF Whole, WorkerType
<1>3. Whole \subseteq Entry /\ Weight(Whole) \in Nat /\ Weight(Whole) <= parsed
  BY WholeWeight DEF CapInv
<1> HIDE DEF e
<1>4. Weight(Whole \cup {e}) <= Weight(Whole) + Size[e] /\ Weight(Whole \cup {e}) \in Nat
  BY <1>1, <1>3, WeightOfOneMore, BytesFinite
<1>5. Whole \cup {e} \subseteq Entry
  BY <1>1, <1>3
<1>6. Weight(Whole') <= Weight(Whole \cup {e}) /\ Weight(Whole') \in Nat
  BY <1>2, <1>5, WeightMonotone, BytesFinite
<1>7. (Weight(Whole))' = Weight(Whole')
  BY DEF Weight, Bytes
<1>8. QED
  BY <1>1, <1>3, <1>4, <1>6, <1>7

LEMMA WorkerKeepsCap ==
  ASSUME CapInv, NEW w \in Worker, R!ReadStep(w)
  PROVE  CapInv'
<1>0. worker \in WorkerType /\ parsed \in Nat
      /\ sent \in [Entry -> {"parsed", "unread", "left", "capped", "overran", "none"}]
      /\ (worker[w].pc # "take" => worker[w].on \in Entry /\ Size[worker[w].on] \in Nat)
  BY ReadersAssumption DEF CapInv
<1>1. CASE R!Take(w)
  <2>1. parsed' = parsed /\ sent' = sent /\ Whole' \subseteq Whole
    BY <1>0, <1>1 DEF R!Take, Whole, WorkerType
  <2>2. QED
    BY <1>0, <1>1, <2>1, FewerWhole, WorkerKeepsShape DEF CapInv, R!ReadStep
<1>2. CASE R!ReadPackage(w)
  <2>1. parsed' = parsed /\ Whole' \subseteq Whole
    BY <1>0, <1>2 DEF R!ReadPackage, R!Send, R!Advance, Whole, WorkerType
  <2>2. QED
    BY <1>0, <1>2, <2>1, FewerWhole, WorkerKeepsShape DEF CapInv, R!ReadStep
<1>3. CASE R!Parse(w)
  <2>1. parsed' = parsed /\ Whole' \subseteq Whole
    BY <1>0, <1>3 DEF R!Parse, R!Send, Whole, WorkerType
  <2>2. QED
    BY <1>0, <1>3, <2>1, FewerWhole, WorkerKeepsShape DEF CapInv, R!ReadStep
<1>4. CASE R!Count(w) /\ parsed' > Cap
  <2>1. parsed' = parsed + Size[worker[w].on] /\ worker[w].pc = "add"
        /\ R!Send(w, "capped")
    BY <1>4 DEF R!Count
  <2>2. parsed' \in Nat /\ parsed <= parsed'
    BY <1>0, <2>1
  <2>3. Whole' \subseteq Whole
    BY <1>0, <2>1 DEF R!Send, Whole, WorkerType
  <2>4. QED
    BY <1>4, <2>2, <2>3, FewerWhole, WorkerKeepsShape DEF CapInv, R!ReadStep
<1>5. CASE R!Count(w) /\ parsed' <= Cap
  <2>1. parsed' = parsed + Size[worker[w].on] /\ worker[w].pc = "add"
    BY <1>5 DEF R!Count
  <2>2. parsed' \in Nat /\ Cap \in Nat
    BY <1>0, <2>1, ReadersAssumption
  <2>3. (Weight(Whole))' <= parsed'
    BY <1>5, LetThrough
  <2>4. CapInv' \/ ~((Weight(Whole))' <= Cap)
    BY <1>5, <2>2, <2>3, WorkerKeepsShape DEF CapInv, R!ReadStep
  <2>5. Whole' \subseteq Entry
    BY <1>5, WorkerKeepsShape DEF R!ReadStep, Whole, WorkerType
  <2>6. Weight(Whole') \in Nat /\ (Weight(Whole))' = Weight(Whole')
    BY <2>5, BytesFinite DEF Weight, Bytes
  <2>7. QED
    BY <1>5, <2>2, <2>3, <2>4, <2>6
<1>6. parsed' > Cap \/ parsed' <= Cap \/ ~R!Count(w)
  <2>1. ASSUME R!Count(w)
        PROVE  parsed' \in Nat /\ Cap \in Nat
    BY <1>0, <2>1, ReadersAssumption DEF R!Count
  <2>2. QED
    BY <2>1
<1>7. QED
  BY <1>1, <1>2, <1>3, <1>4, <1>5, <1>6 DEF R!ReadStep

LEMMA CapStep == CapInv /\ [Next]_laneVars => CapInv'
<1> SUFFICES ASSUME CapInv, [Next]_laneVars PROVE CapInv'
  OBVIOUS
<1>1. ASSUME UNCHANGED <<work, worker, sent, parsed>>
      PROVE  CapInv'
  BY <1>1 DEF CapInv, Whole, Weight, Bytes
<1>2. ASSUME NEW c \in Caller, BeginRun(c)
      PROVE  CapInv'
  BY <1>2, NoneWhole DEF BeginRun, R!Start
<1>3. ASSUME NEW w \in Worker, R!ReadStep(w)
      PROVE  CapInv'
  BY <1>3, WorkerKeepsCap
<1>4. QED
  BY <1>1, <1>2, <1>3 DEF Next, EndRun, Panic, Wait, Operation, R!CollectStep, R!Collect, R!Gather,
     R!Link, R!BudgetOver, laneVars, opVars

\* A package is linked only as its worker parsed it, and the packages parsed
\* are within the cap however many packages and workers there are and in
\* whatever order they add to the counter.
THEOREM CapIsKept == Spec => []CapHolds
<1>1. Init => CapInv
  <2>1. ASSUME Init
        PROVE  Whole = {} /\ CapInv
    <3>1. Whole = {}
      BY <2>1 DEF Init, R!Off, Whole
    <3>2. Weight(Whole) = 0 /\ Cap \in Nat
      BY <3>1, WeightOfNothing, ReadersAssumption
    <3>3. QED
      BY <2>1, <3>1, <3>2 DEF Init, R!Off, CapInv, WorkerType
  <2>2. QED
    BY <2>1
<1>2. CapInv => CapHolds
  <2>1. ASSUME CapInv
        PROVE  R!MapThenSumSet(LAMBDA e : Size[e], Whole) <= Cap
    BY <2>1, WholeWeight, FoldIsWeight DEF CapInv
  <2>2. QED
    BY <2>1 DEF CapHolds, R!CapHolds, Whole
<1>3. QED
  BY <1>1, <1>2, CapStep, PTL DEF Spec

==============================================================================
