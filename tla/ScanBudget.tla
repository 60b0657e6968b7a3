----------------------------- MODULE ScanBudget -----------------------------
(***************************************************************************)
(* A scan's two contexts, cmd/ferralon-assay/scanbudget.go.  analysis      *)
(* bounds acquisition, inventory and the advisory loop; flush bounds the   *)
(* state read and write and the publishing that follow.  A time limit ends *)
(* analysis a reserve before it ends flush; the first signal ends analysis *)
(* and gives flush a window; a second signal ends the process.             *)
(*                                                                         *)
(* A context is "live" or holds the cause that ended it first.             *)
(***************************************************************************)
EXTENDS Naturals

CONSTANT MaxSignals  \* bound: the signals the runner sends

ASSUME SignalAssumption == MaxSignals \in Nat

VARIABLES
  timed,     \* the scan has a time limit
  time,      \* "early", in the "reserve" kept for publishing, or "past" the limit
  sent,      \* the signals sent so far
  pending,   \* the one-place signal channel holds a signal
  analysis, flush,
  window,    \* the flush window: "off", "armed" or "fired"
  process    \* "running", "released" when the run returned, "killed" by the second signal

budgetVars == <<timed, time, sent, pending, analysis, flush, window, process>>

Cause == {"live", "limit", "stopped"}

\* The first cause of a context stands.
Cancelled(context, cause) == IF context = "live" THEN cause ELSE context

Stopped == analysis # "live"

BudgetInit ==
  /\ timed \in BOOLEAN
  /\ time = "early"
  /\ sent = 0
  /\ pending = FALSE
  /\ analysis = "live"
  /\ flush = "live"
  /\ window = "off"
  /\ process = "running"

\* A signal that finds the channel full is dropped.
Signal ==
  /\ process = "running"
  /\ sent < MaxSignals
  /\ sent' = sent + 1
  /\ pending' = TRUE
  /\ UNCHANGED <<timed, time, analysis, flush, window, process>>

\* Fault: the first signal opens the window and lets the analysis run on.
OnlyArm ==
  /\ process = "running" /\ pending /\ window = "off"
  /\ pending' = FALSE
  /\ window' = "armed"
  /\ UNCHANGED <<timed, time, sent, analysis, flush, process>>

FirstSignal ==
  /\ process = "running" /\ pending /\ window = "off"
  /\ pending' = FALSE
  /\ analysis' = Cancelled(analysis, "stopped")
  /\ window' = "armed"
  /\ UNCHANGED <<timed, time, sent, flush, process>>

SecondSignal ==
  /\ process = "running" /\ pending /\ window # "off"
  /\ pending' = FALSE
  /\ process' = "killed"
  /\ UNCHANGED <<timed, time, sent, analysis, flush, window>>

WindowCloses ==
  /\ process = "running" /\ window = "armed"
  /\ window' = "fired"
  /\ flush' = Cancelled(flush, "stopped")
  /\ UNCHANGED <<timed, time, sent, pending, analysis, process>>

TimePasses ==
  /\ process = "running" /\ timed
  /\ \/ time = "early" /\ time' = "reserve"
     \/ time = "reserve" /\ time' = "past"
  /\ UNCHANGED <<timed, sent, pending, analysis, flush, window, process>>

AnalysisLimit ==
  /\ process = "running" /\ time # "early" /\ analysis = "live"
  /\ analysis' = Cancelled(analysis, "limit")
  /\ UNCHANGED <<timed, time, sent, pending, flush, window, process>>

FlushLimit ==
  /\ process = "running" /\ time = "past" /\ flush = "live"
  /\ flush' = Cancelled(flush, "limit")
  /\ UNCHANGED <<timed, time, sent, pending, analysis, window, process>>

\* The watcher's reactions, and the timers: none of them waits on the scan.
BudgetTimers == FirstSignal \/ SecondSignal \/ WindowCloses \/ TimePasses \/ AnalysisLimit \/ FlushLimit

BudgetStep == Signal \/ BudgetTimers

=============================================================================
