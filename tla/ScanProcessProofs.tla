--------------------------- MODULE ScanProcessProofs ---------------------------
(***************************************************************************)
(* What one scan process leaves behind, for any work set, stored baseline, *)
(* list of sinks and number of signals: whenever the stop comes, the rows  *)
(* it builds are answers, the refutations among them are earned, and what  *)
(* it discloses of the rest is true.                                       *)
(***************************************************************************)
EXTENDS ScanProcess, FiniteSetTheorems, TLAPS

-----------------------------------------------------------------------------
(* The invariant.                                                          *)

Early == {"acquire", "inventory", "prior", "base"}

\* Which facts of the run go with which phase.
ShapeInv ==
  /\ mode \in {"baseline", "pr"}
  /\ phase \in Early \cup {"loop", "write", "publish", "over"}
  /\ mode = "pr" => stored \in Baselines
  /\ base = NoReport \/ base \in Baselines
  /\ phase \in {"prior", "write"} => mode = "baseline"
  /\ phase = "prior" => todo = Work
  /\ phase = "base" => mode = "pr"
  /\ phase \in {"acquire", "inventory"} => ~inventory.cut
  /\ phase \in Early => fresh = {} /\ doing = Idle /\ earned = {}
  /\ phase \in {"acquire", "inventory", "base"} => moved = {}
  /\ tried \in 0..Len(Sinks)
  /\ tried > 0 => phase \in {"publish", "over"}

\* A fresh row is that of an advisory that is over; a cut one, that of a scan
\* that was stopped; and after a stop during the inventory there is no other.
FreshInv ==
  /\ todo \subseteq Work /\ doing \in (Work \ todo) \cup {Idle}
  /\ fresh \subseteq RowSet /\ IsFiniteSet(fresh)
  /\ \A r \in fresh : r.key \in Work /\ r.key \notin todo /\ r.key # doing
  /\ \A r, s \in fresh : r.key = s.key => r = s
  /\ \A r \in fresh : r.verdict = "refuted" => r.key \in earned
  /\ \A r \in fresh : r.verdict = "cutshort" => Stopped
  /\ inventory.cut => Stopped /\ doing = Idle /\ \A r \in fresh : r.verdict = "cutshort"

\* An advisory that is over has its own row, or a stored one that may stand.
Stored(k) == mode = "pr" /\ HasRow(Usable(base.rows), k) /\ k \notin moved

AnsweredInv ==
  phase = "loop" =>
    \A k \in Work \ todo :
      \/ k = doing
      \/ k \in Keys(fresh)
      \/ Stored(k) /\ (inventory.cut => inventory.sbom = base.sbom)

LoopInv == ShapeInv /\ FreshInv /\ AnsweredInv

-----------------------------------------------------------------------------
(* Steps that leave the loop alone.                                        *)

LEMMA BudgetStops == BudgetStep /\ Stopped => analysis' = analysis /\ Stopped'
BY DEF BudgetStep, BudgetTimers, Signal, FirstSignal, SecondSignal, WindowCloses, TimePasses,
       AnalysisLimit, FlushLimit, Cancelled, Stopped

\* A stop is for good.
LEMMA StopStays == [Next]_processVars /\ Stopped => analysis' = analysis /\ Stopped'
<1> SUFFICES ASSUME [Next]_processVars, Stopped PROVE analysis' = analysis /\ Stopped'
  OBVIOUS
<1>1. CASE Budget
  BY <1>1, BudgetStops DEF Budget
<1>2. CASE UNCHANGED processVars
  BY <1>2 DEF processVars, budgetVars, Stopped
<1>3. CASE ScanStep \/ Finish \/ OtherBaseline
  BY <1>3 DEF ScanStep, Acquired, AcquireFails, Inventoried, InventoryFails, ReadPrior,
    ReadBaseline, ReadFails, Skip, Begin, Build, Write, WriteFails, Publish, Publishes,
    Finish, OtherBaseline, LoopOnly, budgetVars, budgetOnly, Stopped
<1>4. QED
  BY <1>1, <1>2, <1>3 DEF Next

\* The cause of a stop is one that a report can state.
CauseInv == analysis \in Cause

LEMMA CauseStep == CauseInv /\ [Next]_processVars => CauseInv'
<1> SUFFICES ASSUME CauseInv, [Next]_processVars PROVE CauseInv'
  OBVIOUS
<1> USE DEF CauseInv
<1>1. CASE Budget
  BY <1>1 DEF Budget, BudgetStep, BudgetTimers, Signal, FirstSignal, SecondSignal, WindowCloses,
              TimePasses, AnalysisLimit, FlushLimit, Cancelled, Cause
<1>2. CASE UNCHANGED processVars
  BY <1>2 DEF processVars, budgetVars
<1>3. CASE ScanStep \/ Finish \/ OtherBaseline
  BY <1>3 DEF ScanStep, Acquired, AcquireFails, Inventoried, InventoryFails, ReadPrior,
    ReadBaseline, ReadFails, Skip, Begin, Build, Write, WriteFails, Publish, Publishes,
    Finish, OtherBaseline, LoopOnly, budgetVars, budgetOnly
<1>4. QED
  BY <1>1, <1>2, <1>3 DEF Next

LEMMA WorkKeys ==
  /\ Work \subseteq Key /\ Idle \notin Work
  /\ \A k \in Work : k.id \in Advisory /\ k.source \in Source /\ k.source # NoSource
  /\ \A k, l \in Work : k.id = l.id => k = l
BY ProcessAssumption DEF Key

\* The steps that move on without touching a row.
Passing ==
  \/ Acquired \/ AcquireFails \/ InventoryFails \/ ReadPrior \/ ReadFails
  \/ Build \/ Write \/ WriteFails \/ Publish \/ Publishes \/ Budget \/ OtherBaseline

LEMMA PassingKeeps ==
  ASSUME Passing
  PROVE  UNCHANGED <<mode, base, inventory, moved, limited, todo, doing, fresh, earned>>
BY DEF Passing, Acquired, AcquireFails, InventoryFails, ReadPrior, ReadFails, Build, Write,
       WriteFails, Publish, Publishes, Budget, OtherBaseline, laneVars

LEMMA PassingShape == ShapeInv /\ Passing => ShapeInv'
<1> SUFFICES ASSUME ShapeInv, Passing PROVE ShapeInv'
  OBVIOUS
<1> USE PassingKeeps DEF ShapeInv, Early
<1>1. CASE Acquired
  BY <1>1 DEF Acquired, Running, laneVars, outVars
<1>2. CASE AcquireFails \/ InventoryFails \/ ReadFails \/ WriteFails
  BY <1>2 DEF AcquireFails, InventoryFails, ReadFails, WriteFails, Running, Ends, laneVars
<1>3. CASE ReadPrior
  BY <1>3 DEF ReadPrior, Running, outVars
<1>4. CASE Build
  BY <1>4 DEF Build, Running
<1>5. CASE Write
  BY <1>5 DEF Write, Running
<1>6. CASE Publish
  <2>1. tried' \in 0..Len(Sinks) /\ phase' = "publish"
    BY <1>6 DEF Publish, Running
  <2>2. QED
    BY <1>6, <2>1 DEF Publish, Running, laneVars
<1>7. CASE Publishes
  BY <1>7 DEF Publishes, Running, Ends, laneVars
<1>8. CASE Budget
  BY <1>8 DEF Budget, laneVars, outVars
<1>9. CASE OtherBaseline
  BY <1>9 DEF OtherBaseline, outVars
<1>10. QED
  BY <1>1, <1>2, <1>3, <1>4, <1>5, <1>6, <1>7, <1>8, <1>9 DEF Passing

LEMMA PassingFresh == FreshInv /\ Passing /\ [Next]_processVars => FreshInv'
<1> SUFFICES ASSUME FreshInv, Passing, [Next]_processVars PROVE FreshInv'
  OBVIOUS
<1>1. Stopped => Stopped'
  BY StopStays
<1>2. QED
  BY <1>1, PassingKeeps DEF FreshInv

\* The loop is entered from the inventory or after a stopped one.
LEMMA PassingAnswered == LoopInv /\ Passing => AnsweredInv'
<1> SUFFICES ASSUME LoopInv, Passing PROVE AnsweredInv'
  OBVIOUS
<1>1. CASE phase = "loop"
  BY <1>1, PassingKeeps DEF LoopInv, AnsweredInv, Stored
<1>2. CASE phase # "loop" /\ ReadPrior
  <2>1. todo' = Work
    BY <1>2, PassingKeeps DEF ReadPrior, Running, LoopInv, ShapeInv
  <2>2. QED
    BY <2>1 DEF AnsweredInv
<1>3. CASE phase # "loop" /\ ~ReadPrior
  <2>1. phase' # "loop"
    BY <1>3 DEF Passing, Acquired, AcquireFails, InventoryFails, ReadFails, Build, Write,
       WriteFails, Publish, Publishes, Budget, OtherBaseline, Running, Ends, laneVars, outVars
  <2>2. QED
    BY <2>1 DEF AnsweredInv
<1>4. QED
  BY <1>1, <1>2, <1>3

-----------------------------------------------------------------------------
(* Steps of the loop.                                                      *)

LEMMA InventoriedStep == LoopInv /\ Inventoried => LoopInv'
<1> SUFFICES ASSUME LoopInv, Inventoried PROVE LoopInv'
  OBVIOUS
<1> USE DEF LoopInv
<1>1. /\ phase = "inventory" /\ phase' \in {"base", "prior", "loop"}
      /\ phase' = "base" <=> mode = "pr"
      /\ todo' = (IF mode = "baseline" THEN Work ELSE {})
      /\ inventory'.cut <=> Stopped
      /\ UNCHANGED <<mode, stored, base, moved, doing, fresh, earned, analysis, tried>>
  <2>1. mode \in {"baseline", "pr"}
    BY DEF ShapeInv
  <2>2. inventory'.cut <=> Stopped
    BY DEF Inventoried
  <2>3. QED
    BY <2>1, <2>2 DEF Inventoried, Running, budgetVars, outVars
<1>2. fresh = {} /\ doing = Idle
  BY <1>1 DEF ShapeInv, Early
<1>3. ShapeInv'
  BY <1>1, <1>2 DEF ShapeInv, Early
<1>4. FreshInv'
  BY <1>1, <1>2 DEF FreshInv, Stopped
<1>5. AnsweredInv'
  <2>1. CASE mode = "baseline"
    BY <1>1, <2>1 DEF AnsweredInv
  <2>2. CASE mode = "pr"
    BY <1>1, <2>2 DEF AnsweredInv
  <2>3. QED
    BY <2>1, <2>2 DEF ShapeInv
<1>6. QED
  BY <1>3, <1>4, <1>5

LEMMA ReadBaselineStep == LoopInv /\ ReadBaseline => LoopInv'
<1> SUFFICES ASSUME LoopInv, ReadBaseline PROVE LoopInv'
  OBVIOUS
<1> USE DEF LoopInv
<1>1. /\ phase = "base" /\ phase' = "loop" /\ base' = stored /\ mode = "pr"
      /\ todo' \subseteq Work
      /\ UNCHANGED <<mode, stored, inventory, doing, fresh, earned, analysis, tried>>
  BY DEF ReadBaseline, Running, ShapeInv, budgetVars, outVars, Unrowed
<1>2. fresh = {} /\ doing = Idle /\ earned = {}
  BY <1>1 DEF ShapeInv, Early
<1>3. ShapeInv'
  BY <1>1, <1>2 DEF ShapeInv, Early
<1>4. FreshInv'
  BY <1>1, <1>2 DEF FreshInv, Stopped
<1>5. AnsweredInv'
  <2>1. CASE inventory.sbom = stored.sbom
    BY <1>1, <2>1 DEF ReadBaseline, AnsweredInv, Unrowed, Stored
  <2>2. CASE inventory.sbom # stored.sbom
    BY <1>1, <2>2 DEF ReadBaseline, AnsweredInv
  <2>3. QED
    BY <2>1, <2>2
<1>6. QED
  BY <1>3, <1>4, <1>5

\* One row more, for the advisory that is over.
LEMMA OneMore ==
  ASSUME LoopInv, phase = "loop", NEW k \in Work, NEW v \in Verdict,
         fresh' = fresh \cup {[key |-> k, verdict |-> v]},
         \A r \in fresh : r.key # k,
         k \notin todo', doing' = Idle, todo' \subseteq todo,
         earned \subseteq earned', analysis' = analysis,
         v = "refuted" => k \in earned',
         v = "cutshort" <=> Stopped,
         UNCHANGED inventory
  PROVE  FreshInv'
<1> DEFINE new == [key |-> k, verdict |-> v]
<1>1. new \in RowSet /\ new.key = k /\ new.verdict = v
  BY WorkKeys DEF RowSet
<1>2. Stopped' <=> Stopped
  BY DEF Stopped
<1>3. fresh' \subseteq RowSet /\ IsFiniteSet(fresh')
  BY <1>1, FS_AddElement DEF LoopInv, FreshInv
<1>4. \A r \in fresh' : r.key \in Work /\ r.key \notin todo' /\ r.key # doing'
  BY <1>1, WorkKeys DEF LoopInv, FreshInv
<1>5. \A r, s \in fresh' : r.key = s.key => r = s
  BY <1>1 DEF LoopInv, FreshInv
<1>6. \A r \in fresh' : r.verdict = "refuted" => r.key \in earned'
  BY <1>1 DEF LoopInv, FreshInv
<1>7. \A r \in fresh' : r.verdict = "cutshort" => Stopped'
  BY <1>1, <1>2 DEF LoopInv, FreshInv
<1>8. inventory'.cut => Stopped' /\ doing' = Idle /\ \A r \in fresh' : r.verdict = "cutshort"
  BY <1>1, <1>2 DEF LoopInv, FreshInv
<1>9. QED
  BY <1>3, <1>4, <1>5, <1>6, <1>7, <1>8 DEF LoopInv, FreshInv

LEMMA SkipStep == ASSUME LoopInv, NEW k \in Work, Skip(k) PROVE LoopInv'
<1> USE DEF LoopInv
<1>1. /\ phase = "loop" /\ doing = Idle /\ k \in todo /\ Stopped
      /\ fresh' = fresh \cup {[key |-> k, verdict |-> "cutshort"]}
      /\ todo' = todo \ {k}
      /\ UNCHANGED <<phase, mode, stored, base, inventory, moved, doing, earned, analysis, tried>>
  BY DEF Skip, Running, CutShort, LoopOnly, budgetVars, outVars
<1>2. ShapeInv'
  BY <1>1 DEF ShapeInv, Early
<1>3. FreshInv'
  BY <1>1, OneMore DEF FreshInv, Verdict
<1>4. AnsweredInv'
  <2>1. k \in Keys(fresh)' /\ Keys(fresh) \subseteq Keys(fresh)'
    <3> DEFINE new == [key |-> k, verdict |-> "cutshort"]
    <3>1. new.key = k /\ new \in fresh' /\ fresh \subseteq fresh'
      BY <1>1
    <3> HIDE DEF new
    <3>2. QED
      BY <3>1 DEF Keys
  <2>2. \A l \in Work \ todo' : l = k \/ l \in Work \ todo
    BY <1>1
  <2>3. \A l \in Work : l # Idle
    BY WorkKeys
  <2>4. QED
    BY <1>1, <2>1, <2>2, <2>3 DEF AnsweredInv, Stored
<1>5. QED
  BY <1>2, <1>3, <1>4

LEMMA BeginStep == ASSUME LoopInv, NEW k \in Work, Begin(k) PROVE LoopInv'
<1> USE DEF LoopInv
<1>1. /\ phase = "loop" /\ doing = Idle /\ k \in todo /\ ~Stopped
      /\ doing' = k /\ todo' = todo \ {k}
      /\ UNCHANGED <<phase, mode, stored, base, inventory, moved, fresh, earned, analysis, tried>>
  BY DEF Begin, Running, LoopOnly, budgetVars, outVars
<1>2. ShapeInv'
  BY <1>1 DEF ShapeInv, Early
<1>3. FreshInv'
  BY <1>1 DEF FreshInv, Stopped
<1>4. AnsweredInv'
  BY <1>1, WorkKeys DEF AnsweredInv, Stored
<1>5. QED
  BY <1>2, <1>3, <1>4

LEMMA FinishStep == LoopInv /\ Finish => LoopInv'
<1> SUFFICES ASSUME LoopInv, Finish PROVE LoopInv'
  OBVIOUS
<1> USE DEF LoopInv
<1>1. /\ phase = "loop" /\ doing \in Work /\ doing \notin todo /\ doing' = Idle
      /\ UNCHANGED <<phase, mode, stored, base, inventory, moved, limited, todo, analysis, tried>>
  BY DEF Finish, Running, LoopOnly, FreshInv, budgetVars, outVars
<1>2. ShapeInv'
  BY <1>1 DEF ShapeInv, Early
<1>3. \A r \in fresh : r.key # doing
  BY DEF FreshInv
<1>4. CASE Stopped
  <2>1. fresh' = fresh \cup {[key |-> doing, verdict |-> "cutshort"]} /\ earned' = earned
    BY <1>4 DEF Finish, CutShort
  <2>2. FreshInv'
    BY <1>1, <1>3, <1>4, <2>1, OneMore DEF Verdict
  <2>3. AnsweredInv'
    BY <1>1, <2>1 DEF AnsweredInv, Keys, Stored
  <2>4. QED
    BY <1>2, <2>2, <2>3
<1>5. CASE ~Stopped
  <2>1. PICK o \in Outcome : Add(doing, o)
    BY <1>5 DEF Finish
  <2>2. earned' = IF o = "refuted" THEN earned \cup {doing} ELSE earned
    BY <1>5, <2>1 DEF Add
  <2>3. CASE Keeps(doing, o)
    <3>1. fresh' = fresh /\ Stored(doing)
      BY <2>1, <2>3 DEF Add, Keeps, Stands, Stored
    <3>2. FreshInv'
      <4>1. earned \subseteq earned'
        BY <2>2
      <4>2. \A r \in fresh : r.key # Idle
        BY WorkKeys DEF FreshInv
      <4>3. QED
        BY <1>1, <1>5, <3>1, <4>1, <4>2 DEF FreshInv, Stopped
    <3>3. AnsweredInv'
      BY <1>1, <1>5, <3>1 DEF AnsweredInv, Stored, FreshInv
    <3>4. QED
      BY <1>2, <3>2, <3>3
  <2>4. CASE ~Keeps(doing, o)
    <3> DEFINE v == IF VerdictOf(o) = "refuted" /\ doing \in limited THEN "undetermined"
                    ELSE VerdictOf(o)
    <3>1. fresh' = fresh \cup {[key |-> doing, verdict |-> v]}
      BY <2>1, <2>4 DEF Add, Limited
    <3>2. v \in Verdict /\ v # "cutshort" /\ (v = "refuted" => o = "refuted")
      BY DEF Outcome, VerdictOf, Verdict
    <3>3. FreshInv'
      <4> HIDE DEF v
      <4>1. QED
        BY <1>1, <1>3, <1>5, <2>2, <3>1, <3>2, OneMore
    <3>4. AnsweredInv'
      <4> HIDE DEF v
      <4>1. QED
        BY <1>1, <3>1 DEF AnsweredInv, Keys, Stored
    <3>5. QED
      BY <1>2, <3>3, <3>4
  <2>5. QED
    BY <2>3, <2>4
<1>6. QED
  BY <1>4, <1>5

LEMMA LoopStarts == Init => LoopInv
<1> SUFFICES ASSUME Init PROVE LoopInv
  OBVIOUS
<1>1. Len(Sinks) \in Nat => 0 \in 0..Len(Sinks)
  OBVIOUS
<1>2. QED
  BY FS_EmptySet, <1>1 DEF Init, LoopInv, ShapeInv, FreshInv, AnsweredInv, Early

LEMMA LoopStep == LoopInv /\ [Next]_processVars => LoopInv'
<1> SUFFICES ASSUME LoopInv, [Next]_processVars PROVE LoopInv'
  OBVIOUS
<1>1. CASE UNCHANGED processVars
  BY <1>1 DEF processVars, laneVars, outVars, budgetVars, LoopInv, ShapeInv, FreshInv,
              AnsweredInv, Stored, Stopped
<1>2. CASE Passing
  BY <1>2, PassingShape, PassingFresh, PassingAnswered DEF LoopInv
<1>3. CASE Inventoried \/ ReadBaseline \/ Finish
  BY <1>3, InventoriedStep, ReadBaselineStep, FinishStep
<1>4. ASSUME NEW k \in Work, Skip(k) \/ Begin(k) PROVE LoopInv'
  BY <1>4, SkipStep, BeginStep
<1>5. QED
  BY <1>1, <1>2, <1>3, <1>4 DEF Next, ScanStep, Passing

-----------------------------------------------------------------------------
(* The rows at the end of the loop.                                        *)

LEMMA LimitedKeeps ==
  ASSUME NEW r \in RowSet, NEW gone
  PROVE  /\ Limited(r, gone).key = r.key
         /\ Limited(r, gone).verdict = "cutshort" <=> r.verdict = "cutshort"
         /\ r.verdict = "cutshort" => Limited(r, gone) = r
         /\ Limited(r, gone).verdict = "refuted" => Limited(r, gone) = r
BY DEF Limited, RowSet

Rows == IF mode = "pr" THEN Inherit(base.rows, fresh, limited) ELSE fresh

\* A row that is not fresh is a stored one that no fresh row replaces.
LEMMA RowsFrom ==
  ASSUME LoopInv
  PROVE  /\ fresh \subseteq Rows
         /\ IsFiniteSet(base.rows) /\ base.rows \subseteq RowSet /\ RowsApart(base.rows)
         /\ \A r \in Rows : r \in fresh \/
              (mode = "pr" /\ \E s \in base.rows :
                 s.key \notin Keys(fresh) /\ ~Superseded(s, fresh) /\ r = Limited(s, limited))
         /\ mode = "pr" => \A s \in base.rows :
              s.key \notin Keys(fresh) /\ ~Superseded(s, fresh) => Limited(s, limited) \in Rows
<1>1. CASE base = NoReport
  <2>1. base.rows = {}
    BY <1>1 DEF NoReport
  <2>2. QED
    BY <2>1, FS_EmptySet DEF Rows, Inherit, RowsApart
<1>2. CASE base \in Baselines
  <2>1. IsFiniteSet(base.rows) /\ base.rows \subseteq RowSet /\ RowsApart(base.rows)
    BY <1>2, ProcessAssumption DEF Report
  <2>2. QED
    BY <2>1 DEF Rows, Inherit
<1>3. QED
  BY <1>1, <1>2 DEF LoopInv, ShapeInv

LEMMA CutFinite == LoopInv => IsFiniteSet(CutRows(Rows)) /\ CutRows(fresh) \subseteq CutRows(Rows)
<1> SUFFICES ASSUME LoopInv PROVE IsFiniteSet(CutRows(Rows)) /\ CutRows(fresh) \subseteq CutRows(Rows)
  OBVIOUS
<1>1. IsFiniteSet(fresh \cup base.rows)
  BY RowsFrom, FS_Union DEF LoopInv, FreshInv
<1>2. \A r \in CutRows(Rows) : r \in fresh \cup base.rows
  <2>1. ASSUME NEW s \in base.rows, Limited(s, limited).verdict = "cutshort"
        PROVE  Limited(s, limited) \in base.rows
    BY <2>1, RowsFrom, LimitedKeeps
  <2>2. QED
    BY <2>1, RowsFrom DEF CutRows
<1>3. IsFiniteSet(CutRows(Rows))
  BY <1>1, <1>2, FS_Subset
<1>4. QED
  BY <1>3, RowsFrom DEF CutRows

\* Of an advisory that kept no row of its own there is a stored one, and no
\* fresh row takes its place.
LEMMA StoredRow ==
  ASSUME LoopInv, NEW k \in Work, k \notin Keys(fresh), Stored(k)
  PROVE  \E s \in base.rows :
           /\ s.verdict # "cutshort" /\ s.key \notin Keys(fresh) /\ ~Superseded(s, fresh)
           /\ s.key.id = k.id
           /\ s.key = k \/ (s.key = [k EXCEPT !.source = NoSource] /\ s.key.source = NoSource)
<1>1. k = [id |-> k.id, source |-> k.source]
  BY WorkKeys DEF Key
<1>2. PICK s \in base.rows :
        s.verdict # "cutshort" /\ (s.key = k \/ s.key = [k EXCEPT !.source = NoSource])
  BY DEF Stored, HasRow, Usable, Keys, CutRows
<1>3. s.key.id = k.id /\ (s.key = k \/ s.key.source = NoSource)
  BY <1>1, <1>2
<1>4. \A f \in fresh : f.key \in Work
  BY DEF LoopInv, FreshInv
<1>5. s.key \notin Keys(fresh)
  BY <1>3, <1>4, WorkKeys DEF Keys
<1>6. ~Superseded(s, fresh)
  <2>1. ASSUME NEW f \in fresh, f.key.id = s.key.id PROVE FALSE
    <3>1. f.key = k
      BY <1>3, <1>4, <2>1, WorkKeys
    <3>2. QED
      BY <2>1, <3>1 DEF Keys
  <2>2. QED
    BY <2>1 DEF Superseded
<1>7. QED
  BY <1>2, <1>3, <1>5, <1>6

LEMMA EndStored ==
  ASSUME LoopInv, phase = "loop", doing = Idle, todo = {}, NEW k \in Work, k \notin Keys(fresh)
  PROVE  Stored(k) /\ (inventory.cut => inventory.sbom = base.sbom)
BY WorkKeys DEF LoopInv, AnsweredInv

LEMMA RowsEarned ==
  ASSUME LoopInv, phase = "loop", doing = Idle, todo = {},
         NEW r \in Rows, r.verdict = "refuted", r.key \in Work
  PROVE  r.key \in earned \/ (mode = "pr" /\ r \in base.rows /\ r.key \notin moved)
<1>1. CASE r \in fresh
  BY <1>1 DEF LoopInv, FreshInv
<1>2. CASE r \notin fresh
  <2>1. PICK s \in base.rows : s.key \notin Keys(fresh) /\ r = Limited(s, limited)
    BY <1>2, RowsFrom
  <2>2. r = s
    BY <2>1, RowsFrom, LimitedKeeps
  <2>3. Stored(r.key)
    BY <2>1, <2>2, EndStored
  <2>4. QED
    BY <2>2, <2>3 DEF Stored
<1>3. QED
  BY <1>1, <1>2

LEMMA RowsAnswer ==
  ASSUME LoopInv, phase = "loop", doing = Idle, todo = {}, NEW k \in Work
  PROVE  HasRow(Keys(Rows), k)
<1>1. CASE k \in Keys(fresh)
  BY <1>1, RowsFrom DEF HasRow, Keys
<1>2. CASE k \notin Keys(fresh)
  <2>1. Stored(k)
    BY <1>2, EndStored
  <2>2. PICK s \in base.rows :
          /\ s.key \notin Keys(fresh) /\ ~Superseded(s, fresh)
          /\ s.key = k \/ s.key = [k EXCEPT !.source = NoSource]
    BY <1>2, <2>1, StoredRow
  <2>3. Limited(s, limited) \in Rows /\ Limited(s, limited).key = s.key
    BY <2>1, <2>2, RowsFrom, LimitedKeeps DEF Stored
  <2>4. s.key \in Keys(Rows)
    BY <2>3 DEF Keys
  <2>5. QED
    BY <2>2, <2>4 DEF HasRow
<1>3. QED
  BY <1>1, <1>2

LEMMA RowsOnce ==
  ASSUME LoopInv, NEW r1 \in Rows, NEW r2 \in Rows, r1.key = r2.key
  PROVE  r1 = r2
<1>1. CASE r1 \in fresh /\ r2 \in fresh
  BY <1>1 DEF LoopInv, FreshInv
<1>2. CASE r1 \in fresh /\ r2 \notin fresh
  BY <1>2, RowsFrom, LimitedKeeps DEF Keys
<1>3. CASE r1 \notin fresh /\ r2 \in fresh
  BY <1>3, RowsFrom, LimitedKeeps DEF Keys
<1>4. CASE r1 \notin fresh /\ r2 \notin fresh
  <2>1. PICK s1 \in base.rows, s2 \in base.rows :
          r1 = Limited(s1, limited) /\ r2 = Limited(s2, limited)
    BY <1>4, RowsFrom
  <2>2. s1.key = s2.key
    BY <2>1, RowsFrom, LimitedKeeps
  <2>3. s1 = s2
    BY <2>2, RowsFrom DEF RowsApart
  <2>4. QED
    BY <2>1, <2>3
<1>5. QED
  BY <1>1, <1>2, <1>3, <1>4

LEMMA RowsReached ==
  ASSUME LoopInv, phase = "loop", doing = Idle, todo = {}, CutRows(fresh) = {}
  PROVE  Keys(CutRows(Rows)) \cap Work = {}
<1> SUFFICES ASSUME NEW r \in Rows, r.verdict = "cutshort", r.key \in Work PROVE FALSE
  BY DEF Keys, CutRows
<1>1. r \notin fresh
  BY DEF CutRows
<1>2. PICK s \in base.rows : s.key \notin Keys(fresh) /\ r = Limited(s, limited)
  BY <1>1, RowsFrom
<1>3. s.key = r.key /\ s.verdict = "cutshort"
  BY <1>2, RowsFrom, LimitedKeeps
<1>4. Stored(r.key)
  BY <1>2, <1>3, EndStored
<1>5. PICK t \in base.rows :
        /\ t.verdict # "cutshort" /\ t.key.id = r.key.id
        /\ t.key = r.key \/ t.key.source = NoSource
  BY <1>2, <1>3, <1>4, StoredRow
<1>6. t = s
  BY <1>3, <1>5, RowsFrom DEF RowsApart
<1>7. QED
  BY <1>3, <1>5, <1>6

-----------------------------------------------------------------------------
(* The report.                                                             *)

\* What the output may call complete.
Disclosed ==
  /\ Built /\ ~Truncated(report) =>
       ~inventory.cut /\ CutRows(report.rows) = {} /\ CutRows(fresh) = {}
  /\ truncated = "false" => phase \in {"publish", "over"}

BuiltInv ==
  RefutationsEarned /\ EveryAdvisoryAnswered /\ CutCountTrue /\ Disclosed /\ TruncationSaid

LEMMA RecountTrue ==
  ASSUME NEW rows, IsFiniteSet(CutRows(rows)), NEW carried, NEW own
  PROVE  LET c == Recount(rows, carried, own)
         IN  /\ c.rows = Cardinality(CutRows(rows))
             /\ c.rows > 0 <=> CutRows(rows) # {}
             /\ CutRows(rows) # {} /\ own # "none" => c.cause = own
             /\ c.rows > 0 => c.cause # "none"
<1> DEFINE n == Cardinality(CutRows(rows))
<1>1. n \in Nat /\ (n = 0 <=> CutRows(rows) = {})
  BY FS_CardinalityType, FS_EmptySet
<1>2. CASE n = 0
  BY <1>1, <1>2 DEF Recount, NoCount
<1>3. CASE n # 0
  <2>1. Recount(rows, carried, own) =
          [rows |-> n,
           cause |-> IF own # "none" THEN own
                     ELSE IF carried.cause # "none" THEN carried.cause ELSE "earlier"]
    BY <1>3 DEF Recount
  <2>2. CutRows(rows) # {} /\ n \in Nat /\ n > 0
    BY <1>1, <1>3
  <2>3. Recount(rows, carried, own).rows = n
    BY <2>1
  <2>4. Recount(rows, carried, own).cause =
          IF own # "none" THEN own
          ELSE IF carried.cause # "none" THEN carried.cause ELSE "earlier"
    BY <2>1
  <2>5. QED
    BY <2>2, <2>3, <2>4
<1>4. QED
  BY <1>2, <1>3

LEMMA BuildBuilt == LoopInv /\ CauseInv /\ Disclosed /\ Build => BuiltInv'
<1> SUFFICES ASSUME LoopInv, CauseInv, Disclosed, Build PROVE BuiltInv'
  OBVIOUS
<1>1. /\ phase = "loop" /\ doing = Idle /\ todo = {} /\ phase' \in {"publish", "write"}
      /\ report' = IF mode = "pr" THEN PRReport ELSE BaselineReport
      /\ phase' = IF mode = "pr" THEN "publish" ELSE "write"
      /\ truncated' = IF mode = "pr" THEN Said(Truncated(PRReport)) ELSE truncated
      /\ UNCHANGED <<mode, base, inventory, moved, fresh, earned, analysis, tried>>
  BY DEF Build, Running, budgetVars
<1> DEFINE carried == IF mode = "pr" THEN base.count ELSE NoCount
<1>2. report'.rows = Rows /\ report'.count = Recount(Rows, carried, Own)
  BY <1>1 DEF PRReport, BaselineReport, Rows
<1> HIDE DEF carried
<1>3. /\ report'.count.rows = Cardinality(CutRows(Rows))
      /\ report'.count.rows > 0 <=> CutRows(Rows) # {}
      /\ CutRows(Rows) # {} /\ Own # "none" => report'.count.cause = Own
      /\ report'.count.rows > 0 => report'.count.cause # "none"
  BY <1>2, CutFinite, RecountTrue
<1>4. RefutationsEarned'
  BY <1>1, <1>2, RowsEarned DEF RefutationsEarned
<1>5. EveryAdvisoryAnswered'
  BY <1>1, <1>2, RowsAnswer, RowsOnce, RowsReached DEF EveryAdvisoryAnswered
<1>6. CutCountTrue'
  <2>1. CutRows(fresh) # {} => Own = analysis /\ analysis # "none" /\ CutRows(Rows) # {}
    BY CutFinite DEF Own, CauseInv, Cause
  <2>2. QED
    BY <1>1, <1>2, <1>3, <2>1 DEF CutCountTrue
<1>7. ~Truncated(report') =>
        ~inventory'.cut /\ CutRows(report'.rows) = {} /\ CutRows(fresh') = {}
  <2>1. SUFFICES ASSUME ~Truncated(report') PROVE ~inventory.cut /\ CutRows(Rows) = {}
    BY <1>1, <1>2, CutFinite
  <2>2. CutRows(Rows) = {} /\ ~report'.gap
    BY <1>3, <2>1 DEF Truncated
  <2>3. CASE mode # "pr"
    BY <1>1, <2>2, <2>3 DEF BaselineReport
  <2>4. CASE mode = "pr"
    <3>1. ~(inventory.sbom = base.sbom /\ inventory.cut)
      BY <1>1, <2>2, <2>4 DEF PRReport
    <3>2. ASSUME inventory.cut PROVE FALSE
      <4>1. PICK k \in Work : TRUE
        BY ProcessAssumption
      <4>2. k \in Keys(fresh)
        BY <1>1, <3>1, <3>2, EndStored
      <4>3. CutRows(fresh) # {}
        BY <3>2, <4>2 DEF LoopInv, FreshInv, Keys, CutRows
      <4>4. QED
        BY <2>2, <4>3, CutFinite
    <3>3. QED
      BY <2>2, <3>2
  <2>5. QED
    BY <2>3, <2>4
<1>8. truncated' = "false" => mode = "pr" /\ ~Truncated(report')
  BY <1>1 DEF Disclosed, Said
<1>9. Disclosed' /\ TruncationSaid'
  BY <1>1, <1>7, <1>8 DEF Disclosed, TruncationSaid
<1>10. QED
  BY <1>4, <1>5, <1>6, <1>9 DEF BuiltInv

\* Once built, the report and what it is judged by stand.
LEMMA BuiltStays ==
  ASSUME LoopInv, [Next]_processVars, ~Build, Built'
  PROVE  Built /\ UNCHANGED <<report, fresh, earned, mode, base, moved, inventory>>
<1>1. CASE UNCHANGED processVars
  BY <1>1 DEF processVars, laneVars, outVars, Built
<1>2. CASE Inventoried \/ ReadBaseline \/ ReadPrior \/ Finish \/ \E k \in Work : Skip(k) \/ Begin(k)
  <2>1. phase \in Early \cup {"loop"} /\ phase' \in Early \cup {"loop"} /\ tried' = tried
    BY <1>2 DEF Inventoried, ReadBaseline, ReadPrior, Finish, Skip, Begin, LoopOnly, Running,
                outVars, Early, LoopInv, ShapeInv
  <2>2. QED
    BY <2>1 DEF Built, Early, LoopInv, ShapeInv
<1>3. CASE Acquired \/ AcquireFails \/ InventoryFails \/ ReadFails
  <2>1. phase \in Early /\ phase' \in Early \cup {"over"} /\ tried' = tried
    BY <1>3 DEF Acquired, AcquireFails, InventoryFails, ReadFails, Running, Ends, outVars, Early
  <2>2. QED
    BY <2>1 DEF Built, Early, LoopInv, ShapeInv
<1>4. CASE Write \/ WriteFails \/ Publish \/ Publishes
  BY <1>4 DEF Write, WriteFails, Publish, Publishes, Running, Ends, laneVars, Built
<1>5. CASE Budget \/ OtherBaseline
  BY <1>5 DEF Budget, OtherBaseline, laneVars, outVars, Built
<1>6. QED
  BY <1>1, <1>2, <1>3, <1>4, <1>5 DEF Next, ScanStep

\* The output is written once, when the report is there.
LEMMA OutputSaid ==
  ASSUME LoopInv, BuiltInv, [Next]_processVars, ~Build
  PROVE  Disclosed' /\ TruncationSaid'
<1>1. Built' /\ ~Truncated(report') =>
        ~inventory'.cut /\ CutRows(report'.rows) = {} /\ CutRows(fresh') = {}
  BY BuiltStays DEF BuiltInv, Disclosed
<1>2. CASE Write
  <2>1. Built /\ phase' = "publish" /\ report' = report /\ fresh' = fresh /\ inventory' = inventory
        /\ truncated' = Said(Truncated(report))
    BY <1>2 DEF Write, Running, Built
  <2>2. QED
    BY <1>1, <2>1 DEF Disclosed, TruncationSaid, Said, BuiltInv
<1>3. CASE truncated' # "false"
  BY <1>1, <1>3 DEF Disclosed, TruncationSaid
<1>4. CASE truncated' = "false" /\ ~Write
  <2>1. truncated = "false" /\ phase \in {"publish", "over"} /\ phase' \in {"publish", "over"}
        /\ UNCHANGED <<report, fresh, inventory>>
    <3>1. truncated = "false"
      BY <1>4 DEF Next, ScanStep, Acquired, AcquireFails, Inventoried, InventoryFails, ReadPrior,
        ReadBaseline, ReadFails, Skip, Begin, Write, WriteFails, Publish, Publishes, Finish,
        Budget, OtherBaseline, LoopOnly, outVars, processVars
    <3>2. phase \in {"publish", "over"}
      BY <3>1 DEF BuiltInv, Disclosed
    <3>3. QED
      BY <1>4, <3>1, <3>2 DEF Next, ScanStep, Acquired, AcquireFails, Inventoried, InventoryFails,
        ReadPrior, ReadBaseline, ReadFails, Skip, Begin, Write, WriteFails, Publish, Publishes,
        Finish, Budget, OtherBaseline, LoopOnly, outVars, laneVars, processVars, Running, Ends
  <2>2. QED
    BY <1>1, <2>1 DEF BuiltInv, Disclosed, TruncationSaid
<1>5. QED
  BY <1>2, <1>3, <1>4

LEMMA BuiltStep == LoopInv /\ CauseInv /\ BuiltInv /\ [Next]_processVars => BuiltInv'
<1> SUFFICES ASSUME LoopInv, CauseInv, BuiltInv, [Next]_processVars PROVE BuiltInv'
  OBVIOUS
<1>1. CASE Build
  BY <1>1, BuildBuilt DEF BuiltInv
<1>2. CASE ~Build
  <2>1. CASE ~Built'
    BY <1>2, <2>1, OutputSaid DEF BuiltInv, RefutationsEarned, EveryAdvisoryAnswered, CutCountTrue
  <2>2. CASE Built'
    <3>1. Built /\ UNCHANGED <<report, fresh, earned, mode, base, moved, inventory>>
      BY <1>2, <2>2, BuiltStays
    <3>2. CutRows(fresh) # {} => analysis' = analysis
      <4>1. CutRows(fresh) # {} => Stopped
        BY DEF LoopInv, FreshInv, CutRows
      <4>2. QED
        BY <4>1, StopStays
    <3>3. RefutationsEarned'
      BY <3>1 DEF BuiltInv, RefutationsEarned
    <3>4. EveryAdvisoryAnswered'
      BY <3>1 DEF BuiltInv, EveryAdvisoryAnswered
    <3>5. CutCountTrue'
      BY <3>1, <3>2 DEF BuiltInv, CutCountTrue
    <3>6. QED
      BY <1>2, <3>3, <3>4, <3>5, OutputSaid DEF BuiltInv
  <2>3. QED
    BY <2>1, <2>2
<1>3. QED
  BY <1>1, <1>2

LEMMA BuiltStarts == Init => BuiltInv
BY DEF Init, BuiltInv, Built, RefutationsEarned, EveryAdvisoryAnswered, CutCountTrue, Disclosed,
       TruncationSaid

ReportInv == LoopInv /\ CauseInv /\ BuiltInv

LEMMA ReportCorrect == Spec => []ReportInv
<1>1. ReportInv /\ [Next]_processVars => ReportInv'
  BY LoopStep, CauseStep, BuiltStep DEF ReportInv
<1>2. Init => ReportInv
  BY LoopStarts, BuiltStarts DEF ReportInv, CauseInv, Init, BudgetInit, Cause
<1>3. QED
  BY <1>1, <1>2, PTL DEF Spec

\* No refutation rests on an assessment that a stop cut off, nor on a stored
\* row of which a package changed.
THEOREM EarnedRefutations == Spec => []RefutationsEarned
<1>1. ReportInv => RefutationsEarned
  BY DEF ReportInv, BuiltInv
<1>2. QED
  BY <1>1, ReportCorrect, PTL

\* Whenever the stop comes, every advisory of the work set has one row.
THEOREM AnsweredAll == Spec => []EveryAdvisoryAnswered
<1>1. ReportInv => EveryAdvisoryAnswered
  BY DEF ReportInv, BuiltInv
<1>2. QED
  BY <1>1, ReportCorrect, PTL

\* The disclosed count of rows the scan never reached is theirs.
THEOREM CountIsTrue == Spec => []CutCountTrue
<1>1. ReportInv => CutCountTrue
  BY DEF ReportInv, BuiltInv
<1>2. QED
  BY <1>1, ReportCorrect, PTL

\* No scan that a stop cut anything out of is called complete.
THEOREM TruncationIsSaid == Spec => []TruncationSaid
<1>1. ReportInv => TruncationSaid
  BY DEF ReportInv, BuiltInv
<1>2. QED
  BY <1>1, ReportCorrect, PTL

-----------------------------------------------------------------------------
(* The sinks.                                                              *)

LEMMA OutageStep == LoopInv /\ OutageContained /\ [Next]_processVars => OutageContained'
<1> SUFFICES ASSUME LoopInv, OutageContained, [Next]_processVars PROVE OutageContained'
  OBVIOUS
<1>1. CASE Publishes
  BY <1>1 DEF Publishes, Running, Ends, PublishResult, OutageContained
<1>2. CASE phase # "over" /\ ~Publishes
  <2>1. phase' = "over" => tried' = tried /\ phase \in Early \cup {"write"}
    BY <1>2 DEF Next, ScanStep, Acquired, AcquireFails, Inventoried, InventoryFails, ReadPrior,
      ReadBaseline, ReadFails, Skip, Begin, Build, Write, WriteFails, Publish, Finish, Budget,
      OtherBaseline, LoopOnly, outVars, laneVars, processVars, Running, Ends, Early
  <2>2. phase' = "over" => tried' = 0
    BY <2>1 DEF LoopInv, ShapeInv, Early
  <2>3. QED
    BY <2>2 DEF OutageContained
<1>3. CASE phase = "over"
  <2>1. UNCHANGED <<tried, failed, result>>
    BY <1>3 DEF Next, ScanStep, Acquired, AcquireFails, Inventoried, InventoryFails, ReadPrior,
      ReadBaseline, ReadFails, Skip, Begin, Build, Write, WriteFails, Publish, Publishes, Finish,
      Budget, OtherBaseline, LoopOnly, outVars, laneVars, processVars, Running
  <2>2. QED
    BY <1>3, <2>1 DEF OutageContained
<1>4. QED
  BY <1>1, <1>2, <1>3

\* Every sink is tried, and only one that is not best-effort fails the run.
THEOREM OutageHolds == Spec => []OutageContained
<1>1. Init => OutageContained
  BY DEF Init, OutageContained
<1>2. ReportInv /\ OutageContained /\ [Next]_processVars => OutageContained'
  BY OutageStep DEF ReportInv
<1>3. QED
  BY <1>1, <1>2, ReportCorrect, PTL DEF Spec

-----------------------------------------------------------------------------
(* The SBOM a stopped baseline carries.                                    *)

\* Inductive: until another baseline writes, what was read is what is stored.
SbomInv ==
  /\ mode = "baseline" /\ inventory.cut /\ ~raced /\ phase \in {"loop", "write"} =>
       prior = stored.sbom
  /\ phase = "write" /\ inventory.cut => report.sbom = prior

LEMMA SbomStep == LoopInv /\ SbomInv /\ [Next]_processVars => SbomInv'
<1> SUFFICES ASSUME LoopInv, SbomInv, [Next]_processVars PROVE SbomInv'
  OBVIOUS
<1>1. CASE Build
  <2>1. phase = "loop" /\ (phase' = "write" => mode = "baseline" /\ report' = BaselineReport)
        /\ UNCHANGED <<mode, inventory, raced, prior, stored>>
    BY <1>1 DEF Build, Running, LoopInv, ShapeInv
  <2>2. inventory.cut => BaselineReport.sbom = prior
    BY DEF BaselineReport
  <2>3. QED
    BY <2>1, <2>2 DEF SbomInv
<1>2. CASE ReadPrior
  BY <1>2 DEF ReadPrior, Running, SbomInv
<1>3. CASE ReadBaseline
  BY <1>3 DEF ReadBaseline, Running, SbomInv, LoopInv, ShapeInv
<1>4. CASE Inventoried
  <2>1. inventory'.cut /\ mode' = "baseline" => phase' = "prior"
    BY <1>4 DEF Inventoried
  <2>2. phase' # "write"
    BY <1>4 DEF Inventoried
  <2>3. QED
    BY <2>1, <2>2 DEF SbomInv
<1>5. CASE OtherBaseline
  <2>1. raced' => raced \/ (inventory.cut /\ phase # "prior")
    BY <1>5 DEF OtherBaseline
  <2>2. ~raced' => ~inventory.cut \/ phase = "prior"
    BY <1>5 DEF OtherBaseline
  <2>3. UNCHANGED <<mode, inventory, phase, prior, report>>
    BY <1>5 DEF OtherBaseline
  <2>4. QED
    BY <2>2, <2>3 DEF SbomInv
<1>6. CASE Write \/ Acquired \/ AcquireFails \/ InventoryFails \/ ReadFails \/ WriteFails \/ Publishes
  BY <1>6 DEF Write, Acquired, AcquireFails, InventoryFails, ReadFails, WriteFails, Publishes,
              Running, Ends, SbomInv
<1>7. CASE Publish \/ Budget \/ Finish \/ (\E k \in Work : Skip(k) \/ Begin(k)) \/ UNCHANGED processVars
  BY <1>7 DEF Publish, Budget, Finish, Skip, Begin, LoopOnly, processVars, laneVars, SbomInv
<1>8. QED
  BY <1>1, <1>2, <1>3, <1>4, <1>5, <1>6, <1>7 DEF Next, ScanStep

\* A baseline stopped before its inventory resolved keeps the stored SBOM.
THEOREM StoppedKeepsSbom == Spec => UnracedSbomKept
<1>1. Init => SbomInv
  BY DEF Init, SbomInv
<1>2. ReportInv /\ SbomInv /\ [Next]_processVars => SbomInv'
  BY SbomStep DEF ReportInv
<1>3. ReportInv /\ SbomInv /\ [Next]_processVars =>
        [Write /\ inventory.cut /\ ~raced => stored'.sbom = stored.sbom]_processVars
  <2>1. ReportInv /\ SbomInv /\ Write /\ inventory.cut /\ ~raced => stored'.sbom = stored.sbom
    BY DEF ReportInv, LoopInv, ShapeInv, SbomInv, Write, Running
  <2>2. QED
    BY <2>1
<1>4. QED
  BY <1>1, <1>2, <1>3, ReportCorrect, PTL DEF Spec, UnracedSbomKept

-----------------------------------------------------------------------------
(* Types.                                                                  *)

LEMMA NoCountType == NoCount \in CutShortCount
<1>1. 0 \in Nat /\ "none" \in CountCause
  BY DEF CountCause
<1>2. QED
  BY <1>1 DEF NoCount, CutShortCount

LEMMA NoReportType == NoReport \in Report
<1>1. {} \in SUBSET RowSet /\ 0 \in Nat /\ FALSE \in BOOLEAN
  OBVIOUS
<1>2. QED
  BY <1>1, NoCountType DEF NoReport, Report

LEMMA RecountType ==
  ASSUME NEW rows, IsFiniteSet(CutRows(rows)),
         NEW carried \in CutShortCount, NEW own \in CountCause
  PROVE  Recount(rows, carried, own) \in CutShortCount
<1>1. Cardinality(CutRows(rows)) \in Nat
  BY FS_CardinalityType
<1>2. CASE Cardinality(CutRows(rows)) = 0
  BY <1>2, NoCountType DEF Recount
<1>3. CASE Cardinality(CutRows(rows)) # 0
  <2> DEFINE why == IF own # "none" THEN own
                    ELSE IF carried.cause # "none" THEN carried.cause ELSE "earlier"
  <2>1. why \in CountCause
    BY DEF CutShortCount, CountCause
  <2>2. Recount(rows, carried, own) = [rows |-> Cardinality(CutRows(rows)), cause |-> why]
    BY <1>3 DEF Recount
  <2>3. QED
    BY <1>1, <2>1, <2>2 DEF CutShortCount
<1>4. QED
  BY <1>2, <1>3

LEMMA BuiltType ==
  ASSUME LoopInv, CauseInv, TypeOK
  PROVE  IF mode = "pr" THEN PRReport \in Report ELSE BaselineReport \in Report
<1>1. Own \in CountCause
  <2>1. CASE CutRows(fresh) = {}
    BY <2>1 DEF Own, CountCause
  <2>2. CASE CutRows(fresh) # {}
    <3>1. Stopped
      BY <2>2 DEF LoopInv, FreshInv, CutRows
    <3>2. QED
      BY <2>2, <3>1 DEF Own, CauseInv, Cause, Stopped, CountCause
  <2>3. QED
    BY <2>1, <2>2
<1>2. /\ base.count \in CutShortCount /\ base.gap \in BOOLEAN
      /\ NoCount \in CutShortCount
      /\ inventory.cut \in BOOLEAN /\ inventory.sbom \in Nat /\ prior \in Nat
  BY NoCountType DEF TypeOK, Report
<1>3. Rows \subseteq RowSet
  <2>1. \A s \in RowSet : Limited(s, limited) \in RowSet
    BY DEF Limited, RowSet, Verdict
  <2>2. QED
    BY <2>1, RowsFrom DEF LoopInv, FreshInv
<1>4. CASE mode = "pr"
  <2>1. Recount(Rows, base.count, Own) \in CutShortCount
    BY <1>1, <1>2, CutFinite, RecountType
  <2>2. PRReport = [rows |-> Rows, count |-> Recount(Rows, base.count, Own),
                    sbom |-> inventory.sbom,
                    gap |-> base.gap \/ (inventory.sbom = base.sbom /\ inventory.cut)]
    BY <1>4 DEF PRReport, Rows
  <2>3. (base.gap \/ (inventory.sbom = base.sbom /\ inventory.cut)) \in BOOLEAN
    OBVIOUS
  <2>4. QED
    BY <1>2, <1>3, <1>4, <2>1, <2>2, <2>3 DEF Report
<1>5. CASE mode # "pr"
  <2>1. Recount(Rows, NoCount, Own) \in CutShortCount
    BY <1>1, <1>2, CutFinite, RecountType
  <2>2. BaselineReport = [rows |-> Rows, count |-> Recount(Rows, NoCount, Own),
          gap |-> inventory.cut, sbom |-> IF inventory.cut THEN prior ELSE inventory.sbom]
    BY <1>5 DEF BaselineReport, Rows
  <2>3. (IF inventory.cut THEN prior ELSE inventory.sbom) \in Nat
    BY <1>2
  <2>4. QED
    BY <1>2, <1>3, <1>5, <2>1, <2>2, <2>3 DEF Report
<1>6. QED
  BY <1>4, <1>5

LEMMA BudgetType ==
  ASSUME TypeOK, BudgetStep
  PROVE  sent' \in 0..MaxSignals /\ analysis' \in Cause /\ flush' \in Cause
         /\ window' \in {"off", "armed", "fired"} /\ process' \in {"running", "released", "killed"}
BY SignalAssumption DEF TypeOK, BudgetStep, BudgetTimers, Signal, FirstSignal, SecondSignal,
   WindowCloses, TimePasses, AnalysisLimit, FlushLimit, Cancelled, Cause

LEMMA TypeStep == ReportInv /\ TypeOK /\ [Next]_processVars => TypeOK'
<1> SUFFICES ASSUME ReportInv, TypeOK, [Next]_processVars PROVE TypeOK'
  OBVIOUS
<1>1. todo' \subseteq Work /\ doing' \in (Work \ todo') \cup {Idle} /\ fresh' \subseteq RowSet
      /\ tried' \in 0..Len(Sinks)
  BY LoopStep DEF ReportInv, LoopInv, ShapeInv, FreshInv
<1>2. CASE Budget
  BY <1>1, <1>2, BudgetType DEF Budget, laneVars, outVars, TypeOK
<1>3. CASE Acquired \/ AcquireFails \/ InventoryFails \/ ReadFails \/ WriteFails \/ Publishes \/ Publish
  BY <1>1, <1>3 DEF Acquired, AcquireFails, InventoryFails, ReadFails, WriteFails, Publishes, Publish,
     Ends, budgetOnly, budgetVars, laneVars, outVars, TypeOK
<1>4. CASE Inventoried
  <2>1. limited' \subseteq Key
    BY <1>4, ProcessAssumption DEF Inventoried
  <2>2. inventory' \in [cut: BOOLEAN, sbom: Nat]
    BY <1>4 DEF Inventoried
  <2>3. QED
    BY <1>1, <1>4, <2>1, <2>2 DEF Inventoried, budgetVars, outVars, TypeOK
<1>5. CASE ReadPrior
  <2>1. stored.sbom \in Nat
    BY DEF TypeOK, Report
  <2>2. QED
    BY <1>1, <1>5, <2>1 DEF ReadPrior, budgetVars, outVars, TypeOK
<1>6. CASE ReadBaseline
  <2>1. moved' \subseteq Work
    BY <1>6 DEF ReadBaseline
  <2>2. QED
    BY <1>1, <1>6, <2>1 DEF ReadBaseline, budgetVars, outVars, TypeOK
<1>7. CASE Finish \/ \E k \in Work : Skip(k) \/ Begin(k)
  <2>1. earned' \subseteq Work
    <3>1. Finish => doing \in Work
      BY DEF Finish, TypeOK
    <3>2. QED
      BY <1>7, <3>1 DEF Finish, Add, Skip, Begin, TypeOK
  <2>2. QED
    BY <1>1, <1>7, <2>1 DEF Finish, Skip, Begin, LoopOnly, budgetVars, outVars, TypeOK
<1>8. CASE Build
  <2>1. report' \in Report
    BY <1>8, BuiltType DEF Build, ReportInv
  <2>2. QED
    BY <1>1, <1>8, <2>1 DEF Build, budgetVars, TypeOK
<1>9. CASE Write
  BY <1>1, <1>9 DEF Write, budgetVars, TypeOK
<1>10. CASE OtherBaseline
  <2>1. stored' \in Report
    <3>1. stored.sbom + 1 \in Nat
      BY DEF TypeOK, Report
    <3>2. QED
      BY <1>10, <3>1 DEF OtherBaseline, TypeOK, Report
  <2>2. QED
    BY <1>1, <1>10, <2>1 DEF OtherBaseline, budgetVars, outVars, TypeOK
<1>11. CASE UNCHANGED processVars
  BY <1>1, <1>11 DEF processVars, laneVars, outVars, budgetVars, TypeOK
<1>12. QED
  BY <1>2, <1>3, <1>4, <1>5, <1>6, <1>7, <1>8, <1>9, <1>10, <1>11 DEF Next, ScanStep

LEMMA InitType == Init => TypeOK
<1> SUFFICES ASSUME Init PROVE TypeOK
  OBVIOUS
<1>1. stored \in Report
  <2>1. CASE mode = "pr"
    BY <2>1, ProcessAssumption DEF Init
  <2>2. CASE mode # "pr"
    <3>1. PICK s \in {0, 1} : stored = [NoReport EXCEPT !.sbom = s]
      BY <2>2 DEF Init
    <3>2. stored = [rows |-> {}, count |-> NoCount, sbom |-> s, gap |-> FALSE]
      BY <3>1 DEF NoReport
    <3>3. s \in Nat /\ {} \in SUBSET RowSet /\ FALSE \in BOOLEAN
      OBVIOUS
    <3>4. QED
      BY <3>2, <3>3, NoCountType DEF Report
  <2>3. QED
    BY <2>1, <2>2
<1>2. LoopInv
  BY LoopStarts
<1>3. QED
  BY <1>1, <1>2, NoReportType, SignalAssumption, ProcessAssumption
     DEF Init, BudgetInit, TypeOK, LoopInv, ShapeInv, FreshInv, Cause

\* Every variable of the process keeps its type.
THEOREM ProcessTypeCorrect == Spec => []TypeOK
<1>1. ReportInv /\ TypeOK /\ [Next]_processVars => TypeOK'
  BY TypeStep
<1>2. QED
  BY <1>1, InitType, ReportCorrect, PTL DEF Spec
==============================================================================
