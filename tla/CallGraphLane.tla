---------------------------- MODULE CallGraphLane ----------------------------
(***************************************************************************)
(* A scan's callers of the call graph: the memo in the host, and behind it *)
(* the operation that reads the dependency code.  The operation runs under *)
(* the context of the caller that happens to run it, and its answer is     *)
(* handed to all of them.                                                  *)
(***************************************************************************)
EXTENDS PluginMemo, Naturals, FiniteSets

CONSTANTS Entry, Size, Cap, Worker, NoEntry

ASSUME ReadersAssumption ==
  /\ IsFiniteSet(Entry) /\ Size \in [Entry -> Nat] /\ Cap \in Nat
  /\ NoEntry \notin Entry
  /\ \A c, d \in Caller : KeyOf[c] = KeyOf[d]

VARIABLES run, work, worker, sent, out, parsed, budget

\* The caller whose run of the operation is on: at most one, with one key.
Running == {c \in Caller : asker[c].pc = "run"}

R == INSTANCE DepReaders WITH ended <- Running \cap cancelled # {}

opVars == <<run, work, worker, sent, out, parsed, budget>>
laneVars == <<memoVars, opVars>>

Init == MemoInit /\ R!Off

\* The operation starts with the run that asks for it.
BeginRun(c) == Create(c) /\ R!Start

\* And the run returns what it came to.
EndRun(c) ==
  /\ \/ run \in {"graph", "bare"} /\ Return(c)
     \/ run = "error" /\ Fail(c)
  /\ UNCHANGED opVars

\* The plugin's process dies under it.
Panic(c) ==
  /\ run \in {"read", "link"}
  /\ Fail(c)
  /\ run' = "error"
  /\ UNCHANGED <<work, worker, sent, out, parsed, budget>>

Wait(c) == (Find(c) \/ Release(c) \/ Wake(c) \/ Leave(c)) /\ UNCHANGED opVars

Operation == R!CollectStep /\ UNCHANGED memoVars

Next ==
  \/ \E c \in Caller :
       \/ (Ask(c) \/ Cancel(c)) /\ UNCHANGED opVars
       \/ BeginRun(c) \/ EndRun(c) \/ Panic(c) \/ Wait(c)
  \/ Operation
  \/ R!BudgetOver /\ UNCHANGED memoVars
  \/ \E w \in Worker : R!ReadStep(w) /\ UNCHANGED memoVars

Spec == Init /\ [][Next]_laneVars

\* Callers, the collector and the budget's timer go on.  A worker need not: a
\* parse that never ends is only ever abandoned.
FairSpec ==
  /\ Spec
  /\ \A c \in Caller : WF_laneVars(BeginRun(c) \/ EndRun(c) \/ Wait(c))
  /\ WF_laneVars(Operation)
  /\ WF_laneVars(R!BudgetOver /\ UNCHANGED memoVars)

-----------------------------------------------------------------------------
(* Properties.                                                             *)

CapHolds == R!CapHolds

\* The graph in the memo is the operation's: an answer that others are handed
\* leaves nothing out on account of the caller it was computed for.
SharedGraphWhole ==
  good # {} /\ (run = "bare" \/ \E e \in Entry : out[e] = "left") => budget

\* A caller that did not run the operation is never told it failed.
FailureNotInherited ==
  [][\A c \in Caller :
       asker'[c].out = "failed" /\ asker[c].out # "failed" => asker[c].pc = "failing"]_laneVars

\* Whoever asks comes back, though a parse hangs, a run dies or its caller is
\* cancelled.
EveryCallerReturns ==
  \A c \in Caller : asker[c].pc = "fill" ~> asker[c].pc = "back"
=============================================================================
