----------------------------- MODULE CorpusProofs -----------------------------
(***************************************************************************)
(* The served corpus's theorems, for any callers, manifests and documents: *)
(* a good manifest is given up only for another, a Refresh that reports no *)
(* error has left the process current, and the facts of one batch are      *)
(* those of one manifest.                                                  *)
(***************************************************************************)
EXTENDS Corpus, TLAPS

-----------------------------------------------------------------------------
(* Types.                                                                  *)

Pc == {"idle", "current", "stat", "restat", "read", "store", "answered", "lookup"}
Inside == {"stat", "restat", "read", "store"}

Goroutine ==
  [pc : Pc, then : {"none", "refresh", "lookup"},
   id : Ident, got : Body, ok : BOOLEAN, stale : BOOLEAN,
   snap : Manifest \cup {Broken}, facts : [Advisory -> Digest \cup {NoDigest}]]

\* Everything a caller's record holds but its place in the lock.
Shape ==
  /\ file \in [id : Ident, body : Body]
  /\ doc \in [Advisory -> Digest \cup {NoDigest}]
  /\ served \in [body : Body \cup {NotLoaded}, id : Ident]
  /\ failed \in [id : Ident, err : BOOLEAN]
  /\ caller \in [Caller -> Goroutine]

Locked ==
  /\ lock \in Caller \cup {NoCaller}
  /\ \A c \in Caller : lock = c <=> caller[c].pc \in Inside

LEMMA TypeParts == TypeOK <=> Shape /\ Locked
BY DEF TypeOK, Shape, Locked, Goroutine, Pc, Inside

LEMMA QuietType == Quiet \in Goroutine
BY CorpusAssumption DEF Quiet, Goroutine, Pc, Ident, Body

LEMMA GoroutineType ==
  ASSUME NEW g \in Goroutine, NEW pc \in Pc
  PROVE  /\ [g EXCEPT !.pc = pc] \in Goroutine
         /\ \A b \in BOOLEAN : [g EXCEPT !.stale = b] \in Goroutine
         /\ \A i \in Ident : [g EXCEPT !.pc = pc, !.id = i] \in Goroutine
         /\ \A b \in Body : [g EXCEPT !.pc = pc, !.got = b] \in Goroutine
         /\ \A m \in Manifest \cup {Broken} : [g EXCEPT !.pc = pc, !.snap = m] \in Goroutine
         /\ \A a \in Advisory, d \in Digest \cup {NoDigest} :
              [g EXCEPT !.facts[a] = d] \in Goroutine
BY DEF Goroutine

LEMMA CalledType ==
  ASSUME NEW then \in {"refresh", "lookup"}, NEW ok \in BOOLEAN, NEW stale \in BOOLEAN,
         NEW t \in {"none", "refresh", "lookup"}
  PROVE  /\ [Quiet EXCEPT !.pc = "current", !.then = then] \in Goroutine
         /\ [Quiet EXCEPT !.pc = "answered", !.then = "refresh", !.ok = ok, !.stale = stale] \in Goroutine
         /\ [Quiet EXCEPT !.pc = "current", !.then = t, !.stale = stale] \in Goroutine
BY QuietType DEF Goroutine, Pc

\* The record of one caller is replaced, by one outside the lock or, with the
\* lock taken or kept, by one inside it.
LEMMA CallerStepType ==
  ASSUME Shape, Locked, NEW c \in Caller, NEW g \in Goroutine,
         caller' = [caller EXCEPT ![c] = g],
         \/ lock' = lock /\ (g.pc \in Inside <=> caller[c].pc \in Inside)
         \/ lock' = c /\ lock \in {c, NoCaller} /\ g.pc \in Inside
         \/ lock' = NoCaller /\ lock = c /\ g.pc \notin Inside
  PROVE  caller' \in [Caller -> Goroutine] /\ Locked'
<1>1. caller' \in [Caller -> Goroutine]
  BY DEF Shape
<1>2. caller'[c] = g /\ \A d \in Caller \ {c} : caller'[d] = caller[d]
  BY DEF Shape
<1>3. QED
  BY <1>1, <1>2, CorpusAssumption DEF Locked

LEMMA ChangeType ==
  ASSUME Shape, Locked, NEW b \in Body, Change(b)
  PROVE  Shape' /\ Locked'
<1>1. file' \in [id : Ident, body : Body]
  BY CorpusAssumption DEF Shape, Change, Ident
<1>2. \A c \in Caller : (caller[c].stale \/ caller[c].then = "refresh") \in BOOLEAN
  OBVIOUS
<1>3. \A c \in Caller : caller'[c] = [caller[c] EXCEPT !.stale = caller[c].stale \/ caller[c].then = "refresh"]
                        /\ caller[c] \in Goroutine
  BY DEF Shape, Change
<1>4. caller' \in [Caller -> Goroutine]
  <2>1. ASSUME NEW c \in Caller PROVE caller'[c] \in Goroutine
    <3> DEFINE late == caller[c].stale \/ caller[c].then = "refresh"
    <3>1. late \in BOOLEAN /\ caller[c] \in Goroutine /\ "idle" \in Pc
          /\ caller'[c] = [caller[c] EXCEPT !.stale = late]
      BY <1>2, <1>3 DEF Pc
    <3> HIDE DEF late
    <3>2. \A f \in BOOLEAN : [caller[c] EXCEPT !.stale = f] \in Goroutine
      BY <3>1, GoroutineType
    <3>3. QED
      BY <3>1, <3>2
  <2>2. caller' = [c \in Caller |-> caller'[c]]
    BY DEF Change
  <2>3. QED
    BY <2>1, <2>2
<1>5. \A c \in Caller : caller'[c].pc = caller[c].pc
  BY <1>3 DEF Goroutine
<1>6. QED
  BY <1>1, <1>4, <1>5 DEF Shape, Locked, Change

LEMMA StatType ==
  ASSUME Shape
  PROVE  Stat \in Ident /\ file.body \in Body
BY CorpusAssumption DEF Shape, Stat, Ident

LEMMA ServedType ==
  ASSUME Shape, NEW c \in Caller
  PROVE  Loaded(c) \in [body : Body, id : Ident] /\ caller[c] \in Goroutine
BY DEF Shape, Loaded, Goroutine

LEMMA AnswerType ==
  ASSUME Shape, Locked, NEW c \in Caller, NEW ok \in BOOLEAN, Answer(c, ok), lock = c
  PROVE  caller' \in [Caller -> Goroutine] /\ Locked'
<1> DEFINE g == [Quiet EXCEPT !.pc = "answered", !.then = "refresh", !.ok = ok, !.stale = caller[c].stale]
<1>1. caller[c].stale \in BOOLEAN
  BY DEF Shape, Goroutine
<1>2. g \in Goroutine /\ g.pc = "answered"
  BY <1>1, CalledType, QuietType DEF Quiet
<1>3. caller' = [caller EXCEPT ![c] = g] /\ lock' = NoCaller
  BY DEF Answer
<1> HIDE DEF g
<1>4. QED
  BY <1>2, <1>3, CallerStepType DEF Inside

LEMMA StepPcType ==
  ASSUME Shape, Locked, NEW c \in Caller, NEW pc \in Pc, Step(c, pc),
         \/ lock' = lock /\ (pc \in Inside <=> caller[c].pc \in Inside)
         \/ lock' = c /\ lock \in {c, NoCaller} /\ pc \in Inside
         \/ lock' = NoCaller /\ lock = c /\ pc \notin Inside
  PROVE  caller' \in [Caller -> Goroutine] /\ Locked'
<1> DEFINE g == [caller[c] EXCEPT !.pc = pc]
<1>1. caller[c] \in Goroutine
  BY DEF Shape
<1>2. g \in Goroutine /\ g.pc = pc
  BY <1>1, GoroutineType DEF Goroutine
<1>3. caller' = [caller EXCEPT ![c] = g]
  BY DEF Step
<1> HIDE DEF g
<1>4. QED
  BY <1>2, <1>3, CallerStepType

LEMMA CallType ==
  ASSUME Shape, Locked, NEW c \in Caller, NEW then \in {"refresh", "lookup"}, Call(c, then)
  PROVE  Shape' /\ Locked'
<1> DEFINE g == [Quiet EXCEPT !.pc = "current", !.then = then]
<1>1. g \in Goroutine
  BY CalledType
<1>2. g.pc = "current"
  BY DEF Quiet
<1>3. caller' = [caller EXCEPT ![c] = g] /\ lock' = lock /\ caller[c].pc \notin Inside
  BY DEF Call, Inside
<1> HIDE DEF g
<1>4. caller' \in [Caller -> Goroutine] /\ Locked'
  BY <1>1, <1>2, <1>3, CallerStepType DEF Inside
<1>5. QED
  BY <1>4 DEF Shape, Call

LEMMA HasCurrentType ==
  ASSUME Shape, Locked, NEW c \in Caller, HasCurrent(c)
  PROVE  Shape' /\ Locked'
<1>1. CASE lock = NoCaller /\ lock' = c /\ Step(c, "stat")
  BY <1>1, StepPcType DEF HasCurrent, Shape, Pc, Inside
<1>2. CASE caller' = [caller EXCEPT ![c].pc = "lookup",
                        ![c].snap = IF Good(served) THEN served.body ELSE Broken] /\ lock' = lock
  <2> DEFINE m == IF Good(served) THEN served.body ELSE Broken
             g == [caller[c] EXCEPT !.pc = "lookup", !.snap = m]
  <2>1. m \in Manifest \cup {Broken} /\ caller[c] \in Goroutine
    BY DEF Good, Shape
  <2>2. g \in Goroutine
    BY <2>1, GoroutineType DEF Pc
  <2>3. g.pc = "lookup" /\ caller[c].pc \notin Inside
    BY <2>1 DEF Goroutine, HasCurrent, Inside
  <2>4. caller' = [caller EXCEPT ![c] = g] /\ lock' = lock
    BY <1>2
  <2> HIDE DEF g
  <2>5. caller' \in [Caller -> Goroutine] /\ Locked'
    BY <2>2, <2>3, <2>4, CallerStepType DEF Inside
  <2>6. QED
    BY <2>5 DEF Shape, HasCurrent
<1>3. QED
  BY <1>1, <1>2 DEF HasCurrent

LEMMA FirstLoadType ==
  ASSUME Shape, Locked, NEW c \in Caller, FirstLoad(c)
  PROVE  Shape' /\ Locked'
BY StepPcType DEF FirstLoad, Shape, Pc, Inside

LEMMA FailureType ==
  ASSUME Shape
  PROVE  /\ \A b \in BOOLEAN : [failed EXCEPT !.err = b] \in [id : Ident, err : BOOLEAN]
         /\ failed' = failed => failed' \in [id : Ident, err : BOOLEAN]
         /\ NoFailure => failed' \in [id : Ident, err : BOOLEAN]
         /\ \A i \in Ident : [id |-> i, err |-> TRUE] \in [id : Ident, err : BOOLEAN]
<1>1. 0 \in Ident
  BY CorpusAssumption DEF Ident
<1>2. FALSE \in BOOLEAN
  OBVIOUS
<1>3. NoFailure => failed' \in [id : Ident, err : BOOLEAN]
  BY <1>1, <1>2 DEF NoFailure
<1>4. ASSUME NEW b \in BOOLEAN PROVE [failed EXCEPT !.err = b] \in [id : Ident, err : BOOLEAN]
  BY DEF Shape
<1>5. ASSUME NEW i \in Ident PROVE [id |-> i, err |-> TRUE] \in [id : Ident, err : BOOLEAN]
  <2>1. TRUE \in BOOLEAN
    OBVIOUS
  <2>2. QED
    BY <2>1
<1>6. QED
  BY <1>3, <1>4, <1>5 DEF Shape

LEMMA RefreshStatType ==
  ASSUME Shape, Locked, NEW c \in Caller, RefreshStat(c)
  PROVE  Shape' /\ Locked'
<1>1. lock = c /\ file' = file /\ doc' = doc /\ served' = served
  BY DEF RefreshStat, Locked, Inside
<1>2. failed' \in [id : Ident, err : BOOLEAN]
  <2>1. CASE failed' = [failed EXCEPT !.err = @ \/ Good(served)]
    <3>1. (failed.err \/ Good(served)) \in BOOLEAN
      OBVIOUS
    <3>2. QED
      BY <2>1, <3>1, FailureType
  <2>2. QED
    BY <2>1, FailureType DEF RefreshStat
<1>3. caller' \in [Caller -> Goroutine] /\ Locked'
  <2>1. Good(served) \in BOOLEAN /\ (~failed.err) \in BOOLEAN
    BY DEF Good
  <2>2. CASE \E ok \in BOOLEAN : Answer(c, ok)
    BY <1>1, <2>2, AnswerType
  <2>3. CASE Step(c, "restat") /\ lock' = lock
    BY <2>3, StepPcType DEF Pc, Inside, RefreshStat
  <2>4. QED
    BY <2>1, <2>2, <2>3 DEF RefreshStat
<1>4. QED
  BY <1>1, <1>2, <1>3 DEF Shape

LEMMA LoadStatType ==
  ASSUME Shape, Locked, NEW c \in Caller, LoadStat(c)
  PROVE  Shape' /\ Locked'
<1> DEFINE g == [caller[c] EXCEPT !.pc = "read", !.id = Stat]
<1>1. g \in Goroutine
  BY ServedType, StatType, GoroutineType DEF Pc
<1>2. g.pc = "read"
  BY ServedType DEF Goroutine
<1>3. caller' = [caller EXCEPT ![c] = g] /\ lock' = lock /\ caller[c].pc \in Inside
  BY DEF LoadStat, Inside
<1> HIDE DEF g
<1>4. caller' \in [Caller -> Goroutine] /\ Locked'
  BY <1>1, <1>2, <1>3, CallerStepType DEF Inside
<1>5. QED
  BY <1>4 DEF Shape, LoadStat

LEMMA LoadBodyType ==
  ASSUME Shape, Locked, NEW c \in Caller, LoadBody(c)
  PROVE  Shape' /\ Locked'
<1> DEFINE g == [caller[c] EXCEPT !.pc = "store", !.got = file.body]
<1>1. g \in Goroutine
  BY ServedType, StatType, GoroutineType DEF Pc
<1>2. g.pc = "store"
  BY ServedType DEF Goroutine
<1>3. caller' = [caller EXCEPT ![c] = g] /\ lock' = lock /\ caller[c].pc \in Inside
  BY DEF LoadBody, Inside
<1> HIDE DEF g
<1>4. caller' \in [Caller -> Goroutine] /\ Locked'
  BY <1>1, <1>2, <1>3, CallerStepType DEF Inside
<1>5. QED
  BY <1>4 DEF Shape, LoadBody

LEMMA StoreLoadType ==
  ASSUME Shape, Locked, NEW c \in Caller, StoreLoad(c)
  PROVE  Shape' /\ Locked'
<1>1. lock = c /\ file' = file /\ doc' = doc
  BY DEF StoreLoad, Locked, Inside
<1>2. Loaded(c) \in [body : Body, id : Ident] /\ caller[c] \in Goroutine /\ 0 \in Ident
  BY ServedType, CorpusAssumption DEF Ident
<1>3. CASE served = Unloaded
  <2> DEFINE g == [Quiet EXCEPT !.pc = "current", !.then = caller[c].then, !.stale = caller[c].stale]
  <2>1. g \in Goroutine
    BY <1>2, CalledType DEF Goroutine
  <2>2. g.pc = "current"
    BY DEF Quiet
  <2>3. caller' = [caller EXCEPT ![c] = g] /\ lock' = NoCaller /\ served' = Loaded(c) /\ failed' = failed
    BY <1>3 DEF StoreLoad
  <2> HIDE DEF g
  <2>4. caller' \in [Caller -> Goroutine] /\ Locked'
    BY <1>1, <2>1, <2>2, <2>3, CallerStepType DEF Inside
  <2>5. QED
    BY <1>1, <1>2, <2>3, <2>4 DEF Shape
<1>4. CASE served # Unloaded
  <2>1. Good(Loaded(c)) \in BOOLEAN
    BY DEF Good
  <2>2. PICK ok \in BOOLEAN : Answer(c, ok)
    BY <1>4, <2>1 DEF StoreLoad, Store
  <2>3. caller' \in [Caller -> Goroutine] /\ Locked'
    BY <1>1, <2>2, AnswerType
  <2>4. served' \in [body : Body \cup {NotLoaded}, id : Ident] /\ failed' \in [id : Ident, err : BOOLEAN]
    <3>1. Loaded(c) \in [body : Body \cup {NotLoaded}, id : Ident] /\ Loaded(c).id \in Ident
      BY <1>2
    <3>2. CASE Good(Loaded(c)) \/ ~Good(served)
      BY <1>4, <3>1, <3>2, FailureType DEF StoreLoad, Store
    <3>3. CASE ~(Good(Loaded(c)) \/ ~Good(served))
      <4>1. failed' = [id |-> Loaded(c).id, err |-> TRUE] /\ served' = served
        BY <1>4, <3>3 DEF StoreLoad, Store
      <4>2. QED
        BY <3>1, <4>1, FailureType DEF Shape
    <3>4. QED
      BY <3>2, <3>3
  <2>5. QED
    BY <1>1, <2>3, <2>4 DEF Shape
<1>5. QED
  BY <1>3, <1>4

LEMMA LookUpType ==
  ASSUME Shape, Locked, NEW c \in Caller, NEW a \in Advisory, LookUp(c, a)
  PROVE  Shape' /\ Locked'
<1> DEFINE g == [caller[c] EXCEPT !.facts[a] = ResolveEntry(c, a)]
<1>1. ResolveEntry(c, a) \in Digest \cup {NoDigest} /\ caller[c] \in Goroutine
  BY DEF ResolveEntry, Shape
<1>2. g \in Goroutine
  BY <1>1, GoroutineType DEF Pc
<1>3. g.pc = caller[c].pc
  BY <1>1 DEF Goroutine
<1>4. caller' = [caller EXCEPT ![c] = g] /\ lock' = lock
  BY DEF LookUp
<1> HIDE DEF g
<1>5. caller' \in [Caller -> Goroutine] /\ Locked'
  BY <1>2, <1>3, <1>4, CallerStepType
<1>6. QED
  BY <1>5 DEF Shape, LookUp

LEMMA LookupDoneType ==
  ASSUME Shape, Locked, NEW c \in Caller, LookupDone(c)
  PROVE  Shape' /\ Locked'
<1>1. Quiet.pc = "idle" /\ caller[c].pc \notin Inside
  BY DEF Quiet, LookupDone, Inside
<1>2. caller' \in [Caller -> Goroutine] /\ Locked'
  BY <1>1, QuietType, CallerStepType DEF LookupDone, Inside
<1>3. QED
  BY <1>2 DEF Shape, LookupDone

LEMMA StepType == TypeOK /\ [Next]_vars => TypeOK'
<1> SUFFICES ASSUME Shape, Locked, [Next]_vars PROVE Shape' /\ Locked'
  BY TypeParts DEF TypeOK, Shape, Locked, Goroutine, Pc, Inside
<1>1. CASE Publish \/ Tear \/ Remove
  BY <1>1, ChangeType DEF Publish, Tear, Remove, Body
<1>2. ASSUME NEW a \in Advisory, NEW d \in Digest \cup {NoDigest}, WriteDoc(a, d)
      PROVE Shape' /\ Locked'
  BY <1>2 DEF WriteDoc, Shape, Locked
<1>3. CASE UNCHANGED vars
  BY <1>3 DEF vars, Shape, Locked
<1>4. ASSUME NEW c \in Caller, CallerStep(c) PROVE Shape' /\ Locked'
  BY <1>4, HasCurrentType, FirstLoadType, RefreshStatType, LoadStatType, LoadBodyType,
     StoreLoadType, LookupDoneType DEF CallerStep
<1>5. QED
  BY <1>1, <1>2, <1>3, <1>4, CallType, LookUpType DEF Next

LEMMA InitType == Init => TypeOK
<1> SUFFICES ASSUME Init PROVE Shape /\ Locked
  BY TypeParts
<1>2. 1 \in Ident /\ 0 \in Ident
  BY CorpusAssumption DEF Ident
<1>3. /\ file \in [id : Ident, body : Body]
      /\ doc \in [Advisory -> Digest \cup {NoDigest}]
      /\ served \in [body : Body \cup {NotLoaded}, id : Ident]
  BY <1>2 DEF Init, Unloaded, Body
<1>4. failed \in [id : Ident, err : BOOLEAN]
  <2>1. FALSE \in BOOLEAN
    OBVIOUS
  <2>2. QED
    BY <1>2, <2>1 DEF Init
<1>5. caller \in [Caller -> Goroutine] /\ Locked
  <2>1. Quiet.pc = "idle"
    BY DEF Quiet
  <2>2. QED
    BY <2>1, QuietType, CorpusAssumption DEF Init, Locked, Inside
<1>6. QED
  BY <1>3, <1>4, <1>5 DEF Shape

\* The types, and the lock in the hands of the one caller that is inside it.
THEOREM CorpusTypeCorrect == Spec => []TypeOK
BY InitType, StepType, PTL DEF Spec

-----------------------------------------------------------------------------
(* What a good manifest gives way to.                                      *)

\* A good manifest is given up only for another good one, whatever the file
\* becomes and whoever reloads it.
THEOREM GoodIsKept == Spec => GoodStaysServed
<1>1. ASSUME [Next]_vars, Good(served) PROVE Good(served')
  <2>1. served # Unloaded
    BY <1>1, CorpusAssumption DEF Good, Unloaded
  <2>2. ASSUME NEW c \in Caller, StoreLoad(c) PROVE Good(served')
    BY <1>1, <2>1, <2>2 DEF StoreLoad, Store
  <2>3. QED
    BY <1>1, <2>2 DEF Next, CallerStep, Publish, Tear, Remove, Change, WriteDoc, Call, HasCurrent,
       FirstLoad, RefreshStat, LoadStat, LoadBody, LookUp, LookupDone, vars
<1>2. [Next]_vars => [Good(served) => Good(served')]_vars
  BY <1>1
<1>3. QED
  BY <1>2, PTL DEF Spec, GoodStaysServed

-----------------------------------------------------------------------------
(* The facts of one batch.                                                 *)

\* Inductive: what a batch has gathered it found in the manifest it began with.
FromSnap(g) ==
  /\ g.pc # "lookup" => \A a \in Advisory : g.facts[a] = NoDigest
  /\ \A a \in Advisory : g.facts[a] # NoDigest => g.snap # Broken /\ g.facts[a] = g.snap[a]

BatchInv == \A c \in Caller : FromSnap(caller[c])

LEMMA QuietFromSnap ==
  ASSUME NEW g, g.facts = Quiet.facts
  PROVE  FromSnap(g)
BY DEF FromSnap, Quiet

LEMMA SameFromSnap ==
  ASSUME NEW g \in Goroutine, FromSnap(g), NEW h \in Goroutine,
         h.facts = g.facts, h.snap = g.snap, h.pc # "lookup" => g.pc # "lookup"
  PROVE  FromSnap(h)
BY DEF FromSnap

\* What each action does to the fields a batch is made of.
LEMMA BatchStep == TypeOK /\ BatchInv /\ [Next]_vars => BatchInv'
<1> SUFFICES ASSUME Shape, Shape', BatchInv, [Next]_vars, NEW d \in Caller PROVE FromSnap(caller'[d])
  BY TypeParts, StepType DEF BatchInv, TypeOK, Shape, Goroutine, Pc
<1>0. /\ caller \in [Caller -> Goroutine] /\ caller[d] \in Goroutine
      /\ caller'[d] \in Goroutine /\ FromSnap(caller[d])
  BY DEF Shape, BatchInv
<1>1. CASE caller'[d] = caller[d]
  BY <1>0, <1>1
<1>2. ASSUME NEW b \in Body, Change(b) PROVE FromSnap(caller'[d])
  <2>1. caller'[d].facts = caller[d].facts /\ caller'[d].snap = caller[d].snap
        /\ caller'[d].pc = caller[d].pc
    BY <1>0, <1>2 DEF Change, Goroutine
  <2>2. QED
    BY <1>0, <2>1, SameFromSnap
<1>3. ASSUME NEW then \in {"refresh", "lookup"}, Call(d, then) PROVE FromSnap(caller'[d])
  <2>1. caller'[d].facts = Quiet.facts
    BY <1>0, <1>3, QuietType DEF Call, Goroutine
  <2>2. QED
    BY <2>1, QuietFromSnap
<1>4. ASSUME HasCurrent(d) PROVE FromSnap(caller'[d])
  <2>1. \A a \in Advisory : caller[d].facts[a] = NoDigest
    BY <1>0, <1>4 DEF HasCurrent, FromSnap
  <2>2. caller'[d].facts = caller[d].facts
    BY <1>0, <1>4 DEF HasCurrent, Step, Goroutine
  <2>3. QED
    BY <2>1, <2>2 DEF FromSnap
<1>5. ASSUME NEW pc \in Pc \ {"lookup"}, caller[d].pc # "lookup",
             \/ Step(d, pc)
             \/ caller' = [caller EXCEPT ![d].pc = pc, ![d].id = Stat]
             \/ caller' = [caller EXCEPT ![d].pc = pc, ![d].got = file.body]
      PROVE FromSnap(caller'[d])
  <2>1. caller'[d].facts = caller[d].facts /\ caller'[d].snap = caller[d].snap
    BY <1>0, <1>5 DEF Step, Goroutine
  <2>2. QED
    BY <1>0, <1>5, <2>1, SameFromSnap
<1>6. ASSUME NEW ok \in BOOLEAN, Answer(d, ok) PROVE FromSnap(caller'[d])
  <2>1. caller'[d] = [Quiet EXCEPT !.pc = "answered", !.then = "refresh", !.ok = ok,
                                   !.stale = caller[d].stale]
    BY <1>0, <1>6 DEF Answer
  <2>2. caller'[d].facts = Quiet.facts
    BY <2>1, QuietType DEF Goroutine
  <2>3. QED
    BY <2>2, QuietFromSnap
<1>7. ASSUME RefreshStat(d) PROVE FromSnap(caller'[d])
  <2>1. Good(served) \in BOOLEAN /\ (~failed.err) \in BOOLEAN
    BY DEF Good
  <2>2. (\E ok \in BOOLEAN : Answer(d, ok)) \/ Step(d, "restat")
    BY <1>7, <2>1 DEF RefreshStat
  <2>3. caller[d].pc # "lookup" /\ "restat" \in Pc \ {"lookup"}
    BY <1>7 DEF RefreshStat, Pc
  <2>4. CASE Step(d, "restat")
    BY <1>5, <2>3, <2>4
  <2>5. QED
    BY <1>6, <2>2, <2>4
<1>8. ASSUME FirstLoad(d) \/ LoadStat(d) \/ LoadBody(d) PROVE FromSnap(caller'[d])
  <2>1. caller[d].pc # "lookup" /\ {"restat", "read", "store"} \subseteq Pc \ {"lookup"}
    BY <1>8 DEF FirstLoad, LoadStat, LoadBody, Pc
  <2>2. CASE FirstLoad(d)
    BY <1>5, <2>1, <2>2 DEF FirstLoad
  <2>3. CASE LoadStat(d)
    BY <1>5, <2>1, <2>3 DEF LoadStat
  <2>4. CASE LoadBody(d)
    BY <1>5, <2>1, <2>4 DEF LoadBody
  <2>5. QED
    BY <1>8, <2>2, <2>3, <2>4
<1>9. ASSUME StoreLoad(d) PROVE FromSnap(caller'[d])
  <2>1. CASE served = Unloaded
    <3>1. caller'[d] = [Quiet EXCEPT !.pc = "current", !.then = caller[d].then,
                                     !.stale = caller[d].stale]
      BY <1>0, <1>9, <2>1 DEF StoreLoad
    <3>2. caller'[d].facts = Quiet.facts
      BY <3>1, QuietType DEF Goroutine
    <3>3. QED
      BY <3>2, QuietFromSnap
  <2>2. CASE served # Unloaded
    <3>1. Good(Loaded(d)) \in BOOLEAN
      BY DEF Good
    <3>2. QED
      BY <1>6, <1>9, <2>2, <3>1 DEF StoreLoad, Store
  <2>3. QED
    BY <2>1, <2>2
<1>10. ASSUME NEW a \in Advisory, LookUp(d, a) PROVE FromSnap(caller'[d])
  <2>1. caller'[d].facts = [caller[d].facts EXCEPT ![a] = ResolveEntry(d, a)]
        /\ caller'[d].snap = caller[d].snap /\ caller'[d].pc = caller[d].pc
    BY <1>0, <1>10 DEF LookUp, Goroutine
  <2>2. ResolveEntry(d, a) # NoDigest => caller[d].snap # Broken /\ ResolveEntry(d, a) = caller[d].snap[a]
    BY DEF ResolveEntry
  <2>3. caller[d].facts \in [Advisory -> Digest \cup {NoDigest}] /\ caller[d].pc = "lookup"
    BY <1>0, <1>10 DEF Goroutine, LookUp
  <2>4. ASSUME NEW x \in Advisory, caller'[d].facts[x] # NoDigest
        PROVE  caller[d].snap # Broken /\ caller'[d].facts[x] = caller[d].snap[x]
    BY <1>0, <2>1, <2>2, <2>3, <2>4 DEF FromSnap
  <2>5. QED
    BY <2>1, <2>3, <2>4 DEF FromSnap
<1>11. ASSUME LookupDone(d) PROVE FromSnap(caller'[d])
  <2>1. caller'[d] = Quiet
    BY <1>0, <1>11 DEF LookupDone
  <2>2. QED
    BY <2>1, QuietFromSnap
<1>12. ASSUME NEW c \in Caller, c # d,
              \/ CallerStep(c) \/ Call(c, "refresh") \/ Call(c, "lookup")
              \/ \E a \in Advisory : LookUp(c, a)
       PROVE  caller'[d] = caller[d]
  BY <1>0, <1>12 DEF CallerStep, Call, HasCurrent, FirstLoad, RefreshStat, LoadStat, LoadBody,
     StoreLoad, Store, Answer, Step, LookUp, LookupDone
<1>13. ASSUME CallerStep(d) PROVE FromSnap(caller'[d])
  BY <1>4, <1>7, <1>8, <1>9, <1>11, <1>13 DEF CallerStep
<1>14. QED
  BY <1>1, <1>2, <1>3, <1>10, <1>12, <1>13
     DEF Next, Publish, Tear, Remove, WriteDoc, vars, Body

\* The facts of one batch are those of one manifest, for any number of
\* advisories and callers, however often the served manifest and the documents
\* change under it.
THEOREM BatchHolds == Spec => []OneManifestPerBatch
<1>1. Init => BatchInv
  BY QuietFromSnap DEF Init, BatchInv
<1>2. TypeOK /\ BatchInv => OneManifestPerBatch
  <2> SUFFICES ASSUME Shape, BatchInv, NEW c \in Caller
               PROVE  \E m \in Manifest \cup {[a \in Advisory |-> NoDigest]} :
                        \A a \in Advisory : caller[c].facts[a] \in {m[a], NoDigest}
    BY TypeParts DEF OneManifestPerBatch
  <2>1. caller[c] \in Goroutine /\ FromSnap(caller[c])
    BY DEF Shape, BatchInv
  <2>2. CASE caller[c].snap \in Manifest
    BY <2>1, <2>2 DEF FromSnap
  <2>3. CASE caller[c].snap = Broken
    BY <2>1, <2>3 DEF FromSnap
  <2>4. QED
    BY <2>1, <2>2, <2>3 DEF Goroutine
<1>3. QED
  BY <1>1, <1>2, BatchStep, CorpusTypeCorrect, PTL DEF Spec

-----------------------------------------------------------------------------
(* What a Refresh without an error has left.                               *)

\* An identity stands for one content, at the latest from its read on.
IdInv ==
  /\ served.id \in Nat /\ file.id \in Nat /\ served.id <= file.id
  /\ served.id # 0 /\ served.id = file.id => served.body = file.body
  /\ failed.id # 0 => failed.err
  /\ \A c \in Caller :
       /\ caller[c].id <= file.id
       /\ caller[c].pc = "store" /\ caller[c].id # 0 /\ caller[c].id = file.id =>
            caller[c].got = file.body

\* A Refresh that loads has read the file of its time; only the first load is
\* another call's.
LoadInv ==
  \A c \in Caller :
    /\ caller[c].pc \in {"answered", "stat"} => caller[c].then = "refresh"
    /\ caller[c].pc \in {"restat", "read", "store"} /\ caller[c].then # "refresh" =>
         served = Unloaded
    /\ caller[c].pc = "store" /\ caller[c].then = "refresh" /\ ~caller[c].stale =>
         caller[c].got = file.body

Current(c) == caller[c].pc = "answered" /\ caller[c].ok /\ ~caller[c].stale

\* What is served is on disk, and so is what is about to be.
AnswerInv ==
  \A c \in Caller : Current(c) =>
    /\ served.body = file.body
    /\ \A d \in Caller : caller[d].pc = "store" => caller[d].got = file.body

CurrentInv == IdInv /\ LoadInv /\ AnswerInv

\* A caller's record after a step that only moves it on.
Same(c) == /\ caller'[c].id = caller[c].id /\ caller'[c].then = caller[c].then
           /\ caller'[c].stale = caller[c].stale /\ caller'[c].ok = caller[c].ok
           /\ caller'[c].got = caller[c].got

Others(c) == \A d \in Caller \ {c} : caller'[d] = caller[d]

LEMMA ChangeCurrent ==
  ASSUME Shape, CurrentInv, NEW b \in Body, Change(b)
  PROVE  CurrentInv'
<1>1. file'.id = file.id + 1 /\ served' = served /\ failed' = failed
  BY DEF Change
<1>2. \A c \in Caller :
        /\ caller'[c].id = caller[c].id /\ caller'[c].then = caller[c].then
        /\ caller'[c].pc = caller[c].pc /\ caller'[c].got = caller[c].got
        /\ caller[c].then = "refresh" => caller'[c].stale
        /\ caller[c].id \in Nat
  <2> SUFFICES ASSUME NEW c \in Caller
               PROVE  /\ caller'[c].id = caller[c].id /\ caller'[c].then = caller[c].then
                      /\ caller'[c].pc = caller[c].pc /\ caller'[c].got = caller[c].got
                      /\ caller[c].then = "refresh" => caller'[c].stale
                      /\ caller[c].id \in Nat
    OBVIOUS
  <2>1. caller'[c] = [caller[c] EXCEPT !.stale = caller[c].stale \/ caller[c].then = "refresh"]
    BY DEF Change
  <2>2. caller[c] \in Goroutine /\ caller[c].id \in Nat
    BY CorpusAssumption DEF Shape, Goroutine, Ident
  <2>3. QED
    BY <2>1, <2>2 DEF Goroutine
<1>3. IdInv'
  BY <1>1, <1>2 DEF CurrentInv, IdInv
<1>4. LoadInv' /\ AnswerInv'
  BY <1>1, <1>2 DEF CurrentInv, LoadInv, AnswerInv, Current
<1>5. QED
  BY <1>3, <1>4 DEF CurrentInv

\* Moving on changes nothing that the invariant says of a caller outside the
\* load, and nothing that it says of the others.
LEMMA MoveCurrent ==
  ASSUME CurrentInv, file' = file, served' = served, failed' = failed, NEW c \in Caller,
         Others(c), caller'[c].id <= file.id,
         caller'[c].pc \notin {"answered", "store"},
         caller'[c].pc = "stat" => caller'[c].then = "refresh",
         caller'[c].pc \in {"restat", "read"} /\ caller'[c].then # "refresh" => served = Unloaded
  PROVE  CurrentInv'
<1>1. IdInv'
  BY DEF CurrentInv, IdInv, Others
<1>2. LoadInv'
  BY DEF CurrentInv, LoadInv, Others
<1>3. AnswerInv'
  BY DEF CurrentInv, AnswerInv, Others, Current
<1>4. QED
  BY <1>1, <1>2, <1>3 DEF CurrentInv

\* An answer is given under the lock, with nobody else about to store.
LEMMA AnswerCurrent ==
  ASSUME Shape, Locked, CurrentInv, NEW c \in Caller, NEW ok \in BOOLEAN, Answer(c, ok),
         lock = c, file' = file,
         ok /\ ~caller[c].stale => served'.body = file.body,
         served'.id \in Nat, served'.id <= file.id,
         served'.id # 0 /\ served'.id = file.id => served'.body = file.body,
         failed'.id # 0 => failed'.err,
         (\E d \in Caller : Current(d)) => served'.body = file.body
  PROVE  CurrentInv'
<1>1. \A d \in Caller \ {c} : caller'[d] = caller[d] /\ caller[d].pc \notin Inside
  BY DEF Shape, Locked, Answer
<1>2. /\ caller'[c].pc = "answered" /\ caller'[c].then = "refresh" /\ caller'[c].ok = ok
      /\ caller'[c].stale = caller[c].stale /\ caller'[c].id = 0
  <2>1. caller'[c] = [Quiet EXCEPT !.pc = "answered", !.then = "refresh", !.ok = ok,
                                   !.stale = caller[c].stale]
    BY DEF Answer, Shape
  <2>2. QED
    BY <2>1 DEF Quiet
<1>3. IdInv'
  BY <1>1, <1>2 DEF CurrentInv, IdInv
<1>4. LoadInv'
  BY <1>1, <1>2 DEF CurrentInv, LoadInv, Inside
<1>5. AnswerInv'
  BY <1>1, <1>2 DEF CurrentInv, AnswerInv, Current, Inside
<1>6. QED
  BY <1>3, <1>4, <1>5 DEF CurrentInv

LEMMA CurrentStep == TypeOK /\ CurrentInv /\ [Next]_vars => CurrentInv'
<1> SUFFICES ASSUME Shape, Locked, CurrentInv, [Next]_vars PROVE CurrentInv'
  BY TypeParts
<1>0. /\ caller \in [Caller -> Goroutine]
      /\ served.id \in Nat /\ file.id \in Nat /\ served.id <= file.id
  BY DEF CurrentInv, IdInv, Shape
<1>1. ASSUME UNCHANGED <<file, served, failed, caller>> PROVE CurrentInv'
  BY <1>1 DEF CurrentInv, IdInv, LoadInv, AnswerInv, Current
<1>2. CASE Publish \/ Tear \/ Remove
  BY <1>2, ChangeCurrent DEF Publish, Tear, Remove, Body
<1>3. ASSUME NEW c \in Caller, NEW then \in {"refresh", "lookup"}, Call(c, then) PROVE CurrentInv'
  <2>1. caller'[c] = [Quiet EXCEPT !.pc = "current", !.then = then] /\ Others(c)
    BY <1>0, <1>3 DEF Call, Others
  <2>2. caller'[c].pc = "current" /\ caller'[c].id = 0
    BY <2>1 DEF Quiet
  <2>3. QED
    BY <1>0, <1>3, <2>1, <2>2, MoveCurrent DEF Call
<1>4. ASSUME NEW c \in Caller, HasCurrent(c) PROVE CurrentInv'
  <2>1. /\ caller'[c].id = caller[c].id /\ caller'[c].then = caller[c].then
        /\ caller'[c].pc \in {"stat", "lookup"} /\ Others(c)
        /\ caller'[c].pc = "stat" => caller[c].then = "refresh"
    BY <1>0, <1>4 DEF HasCurrent, Step, Goroutine, Others
  <2>2. QED
    BY <1>4, <2>1, MoveCurrent DEF HasCurrent, CurrentInv, IdInv
<1>5. ASSUME NEW c \in Caller, FirstLoad(c) PROVE CurrentInv'
  <2>1. caller'[c].id = caller[c].id /\ caller'[c].pc = "restat" /\ Others(c)
    BY <1>0, <1>5 DEF FirstLoad, Step, Goroutine, Others
  <2>2. QED
    BY <1>5, <2>1, MoveCurrent DEF FirstLoad, CurrentInv, IdInv
<1>6. ASSUME NEW c \in Caller, RefreshStat(c) PROVE CurrentInv'
  <2>1. lock = c /\ file' = file /\ served' = served /\ caller[c].then = "refresh"
    BY <1>6 DEF RefreshStat, Locked, Inside, CurrentInv, LoadInv
  <2>2. (\E d \in Caller : Current(d)) => served.body = file.body
    BY DEF CurrentInv, AnswerInv
  <2>3. CASE Answer(c, FALSE) /\ failed' = [failed EXCEPT !.err = @ \/ Good(served)]
    <3>1. failed'.id # 0 => failed'.err
      BY <2>3 DEF Shape, CurrentInv, IdInv
    <3>2. QED
      BY <1>0, <2>1, <2>2, <2>3, <3>1, AnswerCurrent DEF CurrentInv, IdInv
  <2>4. CASE SameIdentity(Stat, served.id) /\ Answer(c, Good(served)) /\ NoFailure
    <3>1. served.body = file.body
      BY <2>4 DEF SameIdentity, Stat, CurrentInv, IdInv
    <3>2. failed'.id = 0 /\ Good(served) \in BOOLEAN
      BY <2>4 DEF NoFailure, Good
    <3>3. QED
      BY <1>0, <2>1, <2>2, <2>4, <3>1, <3>2, AnswerCurrent
  <2>5. CASE SameIdentity(Stat, failed.id) /\ Answer(c, ~failed.err) /\ failed' = failed
    <3>1. failed.err
      BY <2>5 DEF SameIdentity, CurrentInv, IdInv
    <3>2. Answer(c, FALSE)
      BY <2>5, <3>1
    <3>3. QED
      BY <1>0, <2>1, <2>2, <2>5, <3>1, <3>2, AnswerCurrent DEF CurrentInv, IdInv
  <2>6. CASE Step(c, "restat") /\ failed' = failed
    <3>1. /\ caller'[c].id = caller[c].id /\ caller'[c].then = "refresh"
          /\ caller'[c].pc = "restat" /\ Others(c)
      BY <1>0, <2>1, <2>6 DEF Step, Goroutine, Others
    <3>2. QED
      BY <2>1, <2>6, <3>1, MoveCurrent DEF CurrentInv, IdInv
  <2>7. QED
    BY <1>6, <2>3, <2>4, <2>5, <2>6 DEF RefreshStat
<1>7. ASSUME NEW c \in Caller, LoadStat(c) PROVE CurrentInv'
  <2>1. /\ caller'[c].id = Stat /\ caller'[c].then = caller[c].then
        /\ caller'[c].pc = "read" /\ Others(c)
    BY <1>0, <1>7 DEF LoadStat, Goroutine, Others
  <2>2. Stat <= file.id
    BY <1>0 DEF Stat
  <2>3. caller[c].then # "refresh" => served = Unloaded
    BY <1>7 DEF LoadStat, CurrentInv, LoadInv
  <2>4. QED
    BY <1>7, <2>1, <2>2, <2>3, MoveCurrent DEF LoadStat
<1>8. ASSUME NEW c \in Caller, LoadBody(c) PROVE CurrentInv'
  <2>1. /\ caller'[c].id = caller[c].id /\ caller'[c].then = caller[c].then
        /\ caller'[c].stale = caller[c].stale
        /\ caller'[c].pc = "store" /\ caller'[c].got = file.body /\ Others(c)
    BY <1>0, <1>8 DEF LoadBody, Goroutine, Others
  <2>2. file' = file /\ served' = served /\ failed' = failed /\ caller[c].pc = "read"
    BY <1>8 DEF LoadBody
  <2>3. IdInv' /\ LoadInv' /\ AnswerInv'
    BY <2>1, <2>2 DEF CurrentInv, IdInv, LoadInv, AnswerInv, Current, Others
  <2>4. QED
    BY <2>3 DEF CurrentInv
<1>9. ASSUME NEW c \in Caller, StoreLoad(c) PROVE CurrentInv'
  <2>1. /\ lock = c /\ file' = file /\ caller[c].id \in Nat
        /\ Loaded(c).body = caller[c].got /\ Loaded(c).id = caller[c].id
    BY <1>9, CorpusAssumption DEF StoreLoad, Locked, Inside, Shape, Goroutine, Ident, Loaded
  <2>2. caller[c].id <= file.id /\ (caller[c].id # 0 /\ caller[c].id = file.id => caller[c].got = file.body)
    BY <1>9 DEF StoreLoad, CurrentInv, IdInv
  <2>3. (\E d \in Caller : Current(d)) => served.body = file.body /\ caller[c].got = file.body
    BY <1>9 DEF StoreLoad, CurrentInv, AnswerInv
  <2>4. CASE served = Unloaded
    <3>1. /\ caller'[c].pc = "current" /\ caller'[c].id = 0 /\ Others(c)
          /\ served' = Loaded(c) /\ failed' = failed
      <4>1. caller'[c] = [Quiet EXCEPT !.pc = "current", !.then = caller[c].then,
                                       !.stale = caller[c].stale]
            /\ Others(c) /\ served' = Loaded(c) /\ failed' = failed
        BY <1>0, <1>9, <2>4 DEF StoreLoad, Others
      <4>2. QED
        BY <4>1 DEF Quiet
    <3>2. \A d \in Caller \ {c} : caller[d].pc \notin Inside
      BY <2>1 DEF Locked
    <3>3. IdInv'
      BY <2>1, <2>2, <3>1, <3>2 DEF CurrentInv, IdInv, Others
    <3>4. LoadInv'
      BY <3>1, <3>2 DEF CurrentInv, LoadInv, Others, Inside
    <3>5. AnswerInv'
      BY <2>1, <2>3, <3>1, <3>2 DEF CurrentInv, AnswerInv, Current, Others, Inside
    <3>6. QED
      BY <3>3, <3>4, <3>5 DEF CurrentInv
  <2>5. CASE served # Unloaded
    <3>1. ~caller[c].stale => caller[c].got = file.body
      BY <1>9, <2>5 DEF StoreLoad, CurrentInv, LoadInv
    <3>2. CASE Good(Loaded(c)) \/ ~Good(served)
      <4>1. served' = Loaded(c) /\ NoFailure /\ Answer(c, Good(Loaded(c)))
        BY <1>9, <2>5, <3>2 DEF StoreLoad, Store
      <4>2. failed'.id = 0 /\ Good(Loaded(c)) \in BOOLEAN
        BY <4>1 DEF NoFailure, Good
      <4>3. QED
        BY <2>1, <2>2, <2>3, <3>1, <4>1, <4>2, AnswerCurrent
    <3>3. CASE ~(Good(Loaded(c)) \/ ~Good(served))
      <4>1. /\ served' = served /\ Answer(c, FALSE)
            /\ failed' = [id |-> Loaded(c).id, err |-> TRUE]
        BY <1>9, <2>5, <3>3 DEF StoreLoad, Store
      <4>2. failed'.err
        BY <4>1
      <4>3. QED
        BY <1>0, <2>1, <2>3, <4>1, <4>2, AnswerCurrent DEF CurrentInv, IdInv
    <3>4. QED
      BY <3>2, <3>3
  <2>6. QED
    BY <2>4, <2>5
<1>10. ASSUME NEW c \in Caller, LookupDone(c) PROVE CurrentInv'
  <2>1. caller'[c].pc = "idle" /\ caller'[c].id = 0 /\ Others(c)
    BY <1>0, <1>10 DEF LookupDone, Quiet, Others
  <2>2. QED
    BY <1>0, <1>10, <2>1, MoveCurrent DEF LookupDone
<1>11. ASSUME NEW c \in Caller, NEW a \in Advisory, LookUp(c, a) PROVE CurrentInv'
  <2>1. caller'[c].pc = "lookup" /\ caller'[c].id = caller[c].id /\ Others(c)
    BY <1>0, <1>11 DEF LookUp, Goroutine, Others
  <2>2. QED
    BY <1>11, <2>1, MoveCurrent DEF LookUp, CurrentInv, IdInv
<1>12. QED
  BY <1>1, <1>2, <1>3, <1>4, <1>5, <1>6, <1>7, <1>8, <1>9, <1>10, <1>11
     DEF Next, CallerStep, WriteDoc, vars

\* A Refresh that reports no error leaves the process serving the manifest on
\* disk, unless the file changed while it ran, for any number of callers and
\* of changes, torn writes and removals among them.
THEOREM NilHolds == Spec => []NilMeansCurrent
<1>1. Init => CurrentInv
  BY DEF Init, CurrentInv, IdInv, LoadInv, AnswerInv, Current, Quiet, Unloaded
<1>2. CurrentInv => NilMeansCurrent
  BY DEF CurrentInv, AnswerInv, Current, NilMeansCurrent
<1>3. QED
  BY <1>1, <1>2, CurrentStep, CorpusTypeCorrect, PTL DEF Spec
=============================================================================
