----------------------------- MODULE ScanProcess -----------------------------
(***************************************************************************)
(* One scan process from start to exit: a baseline (cmd/ferralon-assay's   *)
(* runBaseline over trigger.RunBaseline) or a pull request's run           *)
(* (runPRInherit over trigger.RunPRInherit), while signals, the time limit *)
(* and another baseline's write fall between any two of its steps.         *)
(* ScanBudget is its two contexts and PRInherit the rows it builds.        *)
(*                                                                         *)
(* An SBOM is a number: 0 is the empty one, a larger one was resolved      *)
(* later.  The merge of overlapping writes is StateStore's: here the other *)
(* baseline's write is over before this one reads the state it replaces.   *)
(***************************************************************************)
EXTENDS ScanBudget, PRInherit, Sequences

CONSTANTS
  Work,        \* the work set: the keys the run is asked to assess
  Baselines,   \* the stored reports the run may start from
  Gaps,        \* the sets of keys whose packages a head's inventory may leave out
  Sinks,       \* the sinks composed for the run, in order
  BestEffort,  \* those that never decide the result
  Idle,        \* no assessment is under way
  MaxSbom      \* bound: the newest SBOM another baseline resolves

\* Why a report's rows were cut short, as it discloses it.
CountCause == {"none", "limit", "stopped", "earlier"}

CutShortCount == [rows: Nat, cause: CountCause]

Report == [rows: SUBSET RowSet, count: CutShortCount, sbom: Nat, gap: BOOLEAN]

\* One row for a key, and none beside a row migrated from a v1 report: what
\* merges and runs leave in a stored report (MergeRaces, OneRowPerAdvisory).
RowsApart(rows) ==
  \A r, s \in rows :
    /\ r.key.id = s.key.id
    /\ r.key.source = s.key.source \/ r.key.source = NoSource
    => r = s

\* scanWorkSet refuses an empty work set and takes an id from one source.
ASSUME ProcessAssumption ==
  /\ Work \subseteq Key /\ Work # {}
  /\ \A k, l \in Work : k.id = l.id => k = l
  /\ \A k \in Work : k.source # NoSource
  /\ Baselines \subseteq Report
  /\ \A b \in Baselines : IsFiniteSet(b.rows) /\ RowsApart(b.rows)
  /\ Gaps \subseteq SUBSET Key
  /\ Idle \notin Key
  /\ MaxSbom \in Nat

VARIABLES
  mode,      \* "baseline" or "pr"
  phase,     \* where the run is
  stored,    \* the stored report
  base,      \* a pull request's baseline, as read
  inventory, \* [cut, sbom]: what the inventory came to
  prior,     \* the SBOM a baseline without an inventory carries
  moved,     \* the keys with a package that changed
  limited,   \* the keys with a package the head could not inventory
  todo,      \* the advisories left
  doing,     \* the one being assessed
  fresh,     \* the rows assessed so far
  earned,    \* history: the keys this run refuted before any stop
  report,    \* the report built
  truncated, \* the scan-truncated output: "unset", "true" or "false"
  tried,     \* the sinks tried
  failed,    \* those that failed
  result,    \* "none", "ok" or "failed"
  raced      \* history: another baseline wrote after this one read the stored SBOM

laneVars == <<mode, stored, base, inventory, prior, moved, limited, todo, doing, fresh, earned,
              report, raced>>
outVars == <<truncated, tried, failed, result>>
processVars == <<budgetVars, laneVars, outVars, phase>>

NoReport == [rows |-> {}, count |-> NoCount, sbom |-> 0, gap |-> FALSE]

Init ==
  /\ BudgetInit
  /\ mode \in {"baseline", "pr"}
  /\ phase = "acquire"
  /\ stored \in IF mode = "pr" THEN Baselines ELSE {[NoReport EXCEPT !.sbom = s] : s \in {0, 1}}
  /\ base = NoReport
  /\ inventory = [cut |-> FALSE, sbom |-> 0]
  /\ prior = 0
  /\ moved = {} /\ limited = {}
  /\ todo = {} /\ doing = Idle /\ fresh = {} /\ earned = {}
  /\ report = NoReport
  /\ truncated = "unset"
  /\ tried = 0 /\ failed = {} /\ result = "none"
  /\ raced = FALSE

Running(p) == process = "running" /\ phase = p

Said(b) == IF b THEN "true" ELSE "false"

\* Fault: only the rows this run cut short count.
OwnCut(rep) == CutRows(fresh) # {} \/ rep.gap

Truncated(rep) == rep.count.rows > 0 \/ rep.gap

\* The run returns an error, or nil.
Ends(how) == phase' = "over" /\ result' = how /\ process' = "released"

budgetOnly == <<timed, time, sent, pending, analysis, flush, window>>

-----------------------------------------------------------------------------
(* Acquisition, the work set and the inventory, under analysis.            *)

Acquired ==
  /\ Running("acquire")
  /\ phase' = "inventory"
  /\ UNCHANGED <<budgetVars, laneVars, outVars>>

\* markIfStopped, for the checkout and the work set; a store or an option that
\* fails between them is returned without it.
AcquireFails ==
  /\ Running("acquire")
  /\ \/ Stopped /\ truncated' = "true"
     \/ UNCHANGED truncated
  /\ Ends("failed")
  /\ UNCHANGED <<budgetOnly, laneVars, tried, failed>>

\* inventoryWithin: an inventory that returns after a stop is declared
\* unresolved whether it resolved or failed.
Inventoried ==
  /\ Running("inventory")
  /\ \E s \in 1..MaxSbom, l \in Gaps :
       /\ inventory' = IF Stopped THEN [cut |-> TRUE, sbom |-> 0] ELSE [cut |-> FALSE, sbom |-> s]
       /\ limited' = IF Stopped THEN Key ELSE l
  /\ phase' = IF mode = "pr" THEN "base" ELSE IF Stopped THEN "prior" ELSE "loop"
  /\ todo' = IF mode = "baseline" THEN Work ELSE {}
  /\ UNCHANGED <<budgetVars, mode, stored, base, prior, moved, doing, fresh, earned, report, raced,
                 outVars>>

InventoryFails ==
  /\ Running("inventory") /\ ~Stopped
  /\ Ends("failed")
  /\ UNCHANGED <<budgetOnly, laneVars, truncated, tried, failed>>

\* Fault: the empty SBOM is what a stopped baseline carries.
CarryNothing ==
  /\ Running("prior") /\ flush = "live"
  /\ prior' = 0
  /\ phase' = "loop"
  /\ UNCHANGED <<budgetVars, mode, stored, base, inventory, moved, limited, todo, doing, fresh,
                 earned, report, raced, outVars>>

\* A baseline stopped before its inventory resolved reads the stored SBOM.
ReadPrior ==
  /\ Running("prior") /\ flush = "live"
  /\ prior' = stored.sbom
  /\ phase' = "loop"
  /\ UNCHANGED <<budgetVars, mode, stored, base, inventory, moved, limited, todo, doing, fresh,
                 earned, report, raced, outVars>>

\* RunPRInherit: nothing changed, and only the advisories without a usable
\* row are assessed; or every advisory is, and moved says which rows may stand.
ReadBaseline ==
  /\ Running("base") /\ flush = "live"
  /\ base' = stored
  /\ IF inventory.sbom = stored.sbom
     THEN moved' = {} /\ todo' = Unrowed(stored.rows, Work)
     ELSE moved' \in SUBSET Work /\ todo' = Work
  /\ phase' = "loop"
  /\ UNCHANGED <<budgetVars, mode, stored, inventory, prior, limited, doing, fresh, earned, report,
                 raced, outVars>>

\* A state read fails, and always does once flush is over.
ReadFails ==
  /\ Running("prior") \/ Running("base")
  /\ Ends("failed")
  /\ UNCHANGED <<budgetOnly, laneVars, truncated, tried, failed>>

-----------------------------------------------------------------------------
(* The advisory loop.                                                      *)

LoopOnly == UNCHANGED <<budgetVars, mode, phase, stored, base, inventory, prior, moved, limited,
                        report, raced, outVars>>

CutShort(k) == fresh' = fresh \cup {[key |-> k, verdict |-> "cutshort"]}

Skip(k) ==
  /\ Running("loop") /\ doing = Idle /\ k \in todo
  /\ Stopped
  /\ CutShort(k)
  /\ todo' = todo \ {k}
  /\ LoopOnly /\ UNCHANGED <<doing, earned>>

Begin(k) ==
  /\ Running("loop") /\ doing = Idle /\ k \in todo
  /\ ~Stopped
  /\ doing' = k
  /\ todo' = todo \ {k}
  /\ LoopOnly /\ UNCHANGED <<fresh, earned>>

\* How an assessment comes out; "limit" is an undetermined row that owes a note.
Outcome == {"reachable", "refuted", "undetermined", "limit", "failed"}

VerdictOf(o) == IF o \in {"limit", "failed"} THEN "undetermined" ELSE o

\* On the slow path a completed assessment may leave the stored row standing.
Keeps(k, o) ==
  /\ mode = "pr" /\ inventory.sbom # base.sbom
  /\ o # "failed"
  /\ Stands(k, base.rows, o, moved)

Add(k, o) ==
  /\ fresh' = IF Keeps(k, o) THEN fresh
              ELSE fresh \cup {Limited([key |-> k, verdict |-> VerdictOf(o)], limited)}
  /\ earned' = IF o = "refuted" /\ ~Stopped THEN earned \cup {k} ELSE earned

\* Fault: only an assessment that had not begun is cut short.
FinishUnread ==
  /\ Running("loop") /\ doing # Idle
  /\ \E o \in Outcome : Add(doing, o)
  /\ doing' = Idle
  /\ LoopOnly /\ UNCHANGED todo

\* assessWithin: what returns after a stop is discarded, whatever it says.
Finish ==
  /\ Running("loop") /\ doing # Idle
  /\ IF Stopped THEN CutShort(doing) /\ UNCHANGED earned
     ELSE \E o \in Outcome : Add(doing, o)
  /\ doing' = Idle
  /\ LoopOnly /\ UNCHANGED todo

Own == IF CutRows(fresh) = {} THEN "none" ELSE analysis

\* baselineReport: the prior SBOM takes the place of one never resolved.
BaselineReport ==
  [rows |-> fresh, count |-> Recount(fresh, NoCount, Own), gap |-> inventory.cut,
   sbom |-> IF inventory.cut THEN prior ELSE inventory.sbom]

\* The head's own limits are disclosed on the fast path alone.
PRReport ==
  LET rows == Inherit(base.rows, fresh, limited)
      fast == inventory.sbom = base.sbom
  IN [rows |-> rows, count |-> Recount(rows, base.count, Own), sbom |-> inventory.sbom,
      gap |-> base.gap \/ (fast /\ inventory.cut)]

Build ==
  /\ Running("loop") /\ doing = Idle /\ todo = {}
  /\ report' = IF mode = "pr" THEN PRReport ELSE BaselineReport
  /\ phase' = IF mode = "pr" THEN "publish" ELSE "write"
  /\ truncated' = IF mode = "pr" THEN Said(Truncated(PRReport)) ELSE truncated
  /\ UNCHANGED <<budgetVars, mode, stored, base, inventory, prior, moved, limited, todo, doing,
                 fresh, earned, raced, tried, failed, result>>

-----------------------------------------------------------------------------
(* The state write and the sinks, under flush.                             *)

Write ==
  /\ Running("write") /\ flush = "live"
  /\ stored' = report
  /\ truncated' = Said(Truncated(report))
  /\ phase' = "publish"
  /\ UNCHANGED <<budgetVars, mode, base, inventory, prior, moved, limited, todo, doing, fresh,
                 earned, report, raced, tried, failed, result>>

WriteFails ==
  /\ Running("write")
  /\ Ends("failed")
  /\ UNCHANGED <<budgetOnly, laneVars, truncated, tried, failed>>

\* Fault: the first sink that fails ends the publishing.
PublishUntilFailure ==
  /\ Running("publish") /\ tried < Len(Sinks)
  /\ tried' = tried + 1
  /\ \/ UNCHANGED <<budgetVars, laneVars, phase, truncated, result, failed>>
     \/ /\ failed' = {Sinks[tried + 1]}
        /\ Ends("failed")
        /\ UNCHANGED <<budgetOnly, laneVars, truncated>>

\* publishAll: every sink is tried.  The best-effort ones write over the
\* network, under flush.
Publish ==
  /\ Running("publish") /\ tried < Len(Sinks)
  /\ \E ok \in BOOLEAN :
       /\ ok => Sinks[tried + 1] \notin BestEffort \/ flush = "live"
       /\ failed' = IF ok THEN failed ELSE failed \cup {Sinks[tried + 1]}
  /\ tried' = tried + 1
  /\ UNCHANGED <<budgetVars, laneVars, phase, truncated, result>>

PublishResult == IF failed \subseteq BestEffort THEN "ok" ELSE "failed"

Publishes ==
  /\ Running("publish") /\ tried = Len(Sinks)
  /\ Ends(PublishResult)
  /\ UNCHANGED <<budgetOnly, laneVars, truncated, tried, failed>>

-----------------------------------------------------------------------------

\* Another baseline stores a newer SBOM.
OtherBaseline ==
  /\ process = "running" /\ mode = "baseline" /\ stored.sbom < MaxSbom
  /\ phase \notin {"publish", "over"}
  /\ stored' = [stored EXCEPT !.sbom = @ + 1]
  /\ raced' = (raced \/ (inventory.cut /\ phase # "prior"))
  /\ UNCHANGED <<budgetVars, phase, mode, base, inventory, prior, moved, limited, todo, doing,
                 fresh, earned, report, outVars>>

ScanStep ==
  \/ Acquired \/ AcquireFails \/ Inventoried \/ InventoryFails
  \/ ReadPrior \/ ReadBaseline \/ ReadFails
  \/ \E k \in Work : Skip(k) \/ Begin(k)
  \/ Build \/ Write \/ WriteFails \/ Publish \/ Publishes

Budget == BudgetStep /\ UNCHANGED <<laneVars, outVars, phase>>

Next == ScanStep \/ Finish \/ Budget \/ OtherBaseline

\* An assessment need not return of itself, only when its context is done; so
\* does the inventory's or the clone's, but those have no work of the scan's
\* behind them and are given to return.
Fairness ==
  /\ WF_processVars(ScanStep)
  /\ WF_processVars(Stopped /\ Finish)
  /\ WF_processVars(BudgetTimers /\ UNCHANGED <<laneVars, outVars, phase>>)

Spec == Init /\ [][Next]_processVars /\ Fairness

-----------------------------------------------------------------------------
(* Properties.                                                             *)

TypeOK ==
  /\ sent \in 0..MaxSignals
  /\ analysis \in Cause /\ flush \in Cause
  /\ window \in {"off", "armed", "fired"}
  /\ process \in {"running", "released", "killed"}
  /\ stored \in Report /\ base \in Report /\ report \in Report
  /\ inventory \in [cut: BOOLEAN, sbom: Nat] /\ prior \in Nat
  /\ todo \subseteq Work /\ doing \in (Work \ todo) \cup {Idle}
  /\ fresh \subseteq RowSet
  /\ moved \subseteq Work /\ limited \subseteq Key /\ earned \subseteq Work
  /\ tried \in 0..Len(Sinks)

Built == phase \in {"write", "publish"} \/ tried > 0

\* "A stopped assessment's result is discarded ... a refutation resting on
\* that would be a false negative" (cutshort.go), and a pull request keeps a
\* stored refutation only where nothing it rests on changed.
RefutationsEarned ==
  Built =>
    \A r \in report.rows :
      r.verdict = "refuted" /\ r.key \in Work =>
        \/ r.key \in earned
        \/ mode = "pr" /\ r \in base.rows /\ r.key \notin moved

\* Whenever the stop came, every advisory of the work set has a row, no two
\* rows share a key, and one that no stop of this run reached is not left
\* cut short by an earlier one.
EveryAdvisoryAnswered ==
  Built =>
    /\ \A k \in Work : HasRow(Keys(report.rows), k)
    /\ \A r1, r2 \in report.rows : r1.key = r2.key => r1 = r2
    /\ CutRows(fresh) = {} => Keys(CutRows(report.rows)) \cap Work = {}

\* The count a report discloses is that of the rows it holds, under the cause
\* of the stop that cut them.
CutCountTrue ==
  Built =>
    /\ report.count.rows = Cardinality(CutRows(report.rows))
    /\ CutRows(fresh) # {} => report.count.cause = analysis
    /\ report.count.rows > 0 => report.count.cause # "none"

\* The output never calls a scan complete that a stop cut anything out of.
TruncationSaid ==
  truncated = "false" => ~inventory.cut /\ CutRows(report.rows) = {} /\ CutRows(fresh) = {}

\* "A baseline stopped before its dependency inventory resolved keeps the
\* stored SBOM" (trigger.go), when no other baseline finished in between.
UnracedSbomKept ==
  [][Write /\ inventory.cut /\ ~raced => stored'.sbom = stored.sbom]_processVars

\* An outage of one surface neither hides the result from another nor fails
\* the run, unless the surface is load-bearing (run.go).
OutageContained ==
  phase = "over" /\ tried > 0 =>
    /\ tried = Len(Sinks)
    /\ result = "ok" <=> failed \subseteq BestEffort

\* A scan that was told to stop comes to an end, whatever it was at and however
\* long its assessments would have run.
StoppedScanEnds == Stopped \/ pending ~> process # "running"

=============================================================================
