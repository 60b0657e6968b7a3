----------------------------- MODULE DepReaders -----------------------------
(***************************************************************************)
(* Reading the dependency code for one call graph, callGraphWithDeps and   *)
(* readDeps in internal/plugin/jsanalysis: workers take packages off a     *)
(* channel, read and parse them under the run's byte cap, and send what    *)
(* came out; the collector returns when every package is decided or when   *)
(* its context ends, whichever is first, and drops what arrives later.     *)
(* That context is the caller's, cut short by a read budget: an ended      *)
(* budget leaves packages out and says so, an ended caller gets an error.  *)
(***************************************************************************)
EXTENDS Naturals, FiniteSets, FiniteSetsExt

CONSTANTS
  Entry,          \* the packages of the layout that can be read
  Size,           \* of each, the source bytes it unpacks to
  Cap,            \* depRunSourceCap
  Worker,         \* GOMAXPROCS of them
  NoEntry         \* a worker between two packages

VARIABLES
  run,    \* "off", reading, linking, and how the call graph came out
  work,   \* packages in the channel
  worker, \* what each worker is doing with which package
  sent,   \* results in the channel, none for a package not sent
  out,    \* what the collector holds of each package
  parsed, \* the atomic byte counter
  budget, \* the read budget has run out
  ended   \* the caller's context has ended

readVars == <<run, work, worker, sent, out, parsed, budget>>

\* A parse that ran past the backstop is "overran", one the cap refused "capped".
Result == {"parsed", "unread", "left", "capped", "overran"}

\* Nothing is running; a run begins from a clean slate of its own.
Off ==
  /\ run = "off" /\ work = {} /\ parsed = 0 /\ budget = FALSE
  /\ worker = [w \in Worker |-> [pc |-> "take", on |-> NoEntry]]
  /\ sent = [e \in Entry |-> "none"] /\ out = [e \in Entry |-> "none"]

-----------------------------------------------------------------------------
\* bctx: the caller's context under the budget's deadline, cancelled on return.
Cut == ended \/ budget \/ run \notin {"read", "link"}

Start ==
  /\ run' = "read" /\ work' = Entry /\ parsed' = 0 /\ budget' = FALSE
  /\ worker' = [w \in Worker |-> [pc |-> "take", on |-> NoEntry]]
  /\ sent' = [e \in Entry |-> "none"] /\ out' = [e \in Entry |-> "none"]

BudgetOver ==
  /\ run \in {"read", "link"} /\ ~budget
  /\ budget' = TRUE
  /\ UNCHANGED <<run, work, worker, sent, out, parsed>>

Send(w, result) ==
  /\ sent' = [sent EXCEPT ![worker[w].on] = result]
  /\ worker' = [worker EXCEPT ![w] = [pc |-> "take", on |-> NoEntry]]

Advance(w, pc) == worker' = [worker EXCEPT ![w].pc = pc]

Take(w) ==
  /\ run # "off" /\ worker[w].pc = "take"
  /\ \E e \in work :
       /\ work' = work \ {e}
       /\ worker' = [worker EXCEPT ![w] = [pc |-> "read", on |-> e]]
  /\ UNCHANGED <<run, sent, out, parsed, budget>>

\* readOneDep up to the counter: a package is not begun under an ended
\* context, and an error under one is not held against the package.
ReadPackage(w) ==
  /\ worker[w].pc = "read"
  /\ \/ Cut /\ Send(w, "left")
     \/ ~Cut /\ Send(w, "unread")
     \/ Advance(w, "add") /\ UNCHANGED sent
  /\ UNCHANGED <<run, work, out, parsed, budget>>

\* Fault: the counter is read before the parse and raised after it.
CountLater(w) ==
  /\ worker[w].pc = "add"
  /\ IF parsed + Size[worker[w].on] > Cap THEN Send(w, "capped")
     ELSE Advance(w, "parse") /\ UNCHANGED sent
  /\ UNCHANGED <<run, work, out, parsed, budget>>

\* One atomic add, and the sum it returns decides.
Count(w) ==
  /\ worker[w].pc = "add"
  /\ parsed' = parsed + Size[worker[w].on]
  /\ IF parsed' > Cap THEN Send(w, "capped") ELSE Advance(w, "parse") /\ UNCHANGED sent
  /\ UNCHANGED <<run, work, out, budget>>

\* parseDepSource per file: the parse, its backstop, the context.
Parse(w) ==
  /\ worker[w].pc = "parse"
  /\ \/ Send(w, "parsed")
     \/ Send(w, "overran")
     \/ Cut /\ Send(w, "left")
  /\ UNCHANGED <<run, work, out, parsed, budget>>

ReadStep(w) == Take(w) \/ ReadPackage(w) \/ Count(w) \/ Parse(w)

-----------------------------------------------------------------------------
(* The collector, and callGraphWithDeps after it.                          *)

Pending == {e \in Entry : out[e] = "none"}

Collect ==
  /\ run = "read"
  /\ \E e \in Pending : sent[e] # "none" /\ out' = [out EXCEPT ![e] = sent[e]]
  /\ UNCHANGED <<run, work, worker, sent, parsed, budget>>

\* Fault: the caller is not asked again, so what its end left out is linked.
GatherAny ==
  /\ run = "read"
  /\ Pending = {} \/ Cut
  /\ out' = [e \in Entry |-> IF e \in Pending THEN "left" ELSE out[e]]
  /\ run' = "link"
  /\ UNCHANGED <<work, worker, sent, parsed, budget>>

\* readDeps returns, and an ended caller gets an error whatever was read.
Gather ==
  /\ run = "read"
  /\ Pending = {} \/ Cut
  /\ out' = [e \in Entry |-> IF e \in Pending THEN "left" ELSE out[e]]
  /\ run' = IF ended THEN "error" ELSE "link"
  /\ UNCHANGED <<work, worker, sent, parsed, budget>>

\* augment gives up when the context ends; then nothing of the dependency code
\* is linked and the limit is run-wide, or the caller gets an error.
Link ==
  /\ run = "link"
  /\ \/ run' = "graph"
     \/ Cut /\ run' = IF ended THEN "error" ELSE "bare"
  /\ UNCHANGED <<work, worker, sent, out, parsed, budget>>

CollectStep == Collect \/ Gather \/ Link

-----------------------------------------------------------------------------
(* Properties.                                                             *)

\* A package is linked only as its worker parsed it, and the packages parsed
\* are within the cap however many workers add at once.
CapHolds ==
  LET whole == {e \in Entry : sent[e] = "parsed"}
                 \cup {worker[w].on : w \in {v \in Worker : worker[v].pc = "parse"}}
  IN MapThenSumSet(LAMBDA e : Size[e], whole) <= Cap
=============================================================================
