----------------------------- MODULE StateStore -----------------------------
(***************************************************************************)
(* The state ref and the writers that compare-and-swap it: Read, Write,    *)
(* tryWrite and buildTree of statestore/gitref.go, which the REST adapter  *)
(* of statestore/github.go follows step for step.                          *)
(*                                                                         *)
(* A state commit is deterministic (fixed author, committer and date), so  *)
(* its SHA is a function of its tree and its parent's SHA, and a ref that  *)
(* is deleted and created again alike points at the same commit again.     *)
(* The model keeps a commit's tree and its depth.  Two commits that differ *)
(* in an older ancestor only are one value here: their writers read the    *)
(* same State, so this only allows more.                                   *)
(*                                                                         *)
(* What a caller writes between its Read and its Write is left open here   *)
(* (Submit); module ScanRuns plugs the real callers in.                    *)
(***************************************************************************)
EXTENDS StateMerge

CONSTANTS
  Writer,      \* processes that read and write the ref
  MaxRetries,  \* GitRefConfig.MaxRetries: attempts after the first
  MaxEvents,   \* bound: Reads, deletions and foreign writes in a behaviour
  MaxRevoke,   \* bound: the largest counter a caller writes
  Foreign,     \* tree entries only another version of the tool writes
  Fresh,       \* the Reports a caller may write
  Records      \* the DepFetch records a caller may write

ASSUME StoreAssumption ==
  /\ MaxRetries \in Nat
  /\ MaxEvents \in Nat
  /\ MaxRevoke \in Nat
  /\ Fresh \subseteq Report
  /\ Records \subseteq DepFetch
  /\ \A d \in Records : HoldStamped(d)
  /\ NoReport \notin Report

VARIABLES
  ref,      \* the commit the state ref points at
  stage,    \* where each writer is in its Read..Write
  cur,      \* the State each writer carries
  token,    \* cur's CommitSHA: the commit it was read from
  attempt,  \* retries used by the Write in progress
  mine,     \* ghost: the Content each writer submitted to Write
  events    \* how much of MaxEvents is used

vars == <<ref, stage, cur, token, attempt, mine, events>>

-----------------------------------------------------------------------------
(* Trees and commits.                                                      *)

\* depfetch.json is stamped with the report.json it was written beside;
\* extra is the entries this version does not model.
Tree ==
  [content: Content, boundTo: Report \cup {NoReport}, extra: SUBSET Foreign]

Commit == [depth: Nat, tree: Tree]

\* The ref that does not exist and, in a State, the empty CommitSHA.
NoCommit ==
  [depth |-> 0,
   tree |-> [content |-> EmptyContent, boundTo |-> NoReport, extra |-> {}]]

Exists(c) == c.depth > 0

Child(parent, tree) == [depth |-> parent.depth + 1, tree |-> tree]

State == [content: Content, remerge: BOOLEAN]
FreshState == [content |-> EmptyContent, remerge |-> FALSE]

\* decodeDepFetch: a record bound to another report.json is nil.
ReadContent(t) ==
  IF t.boundTo = t.content.report THEN t.content
  ELSE [t.content EXCEPT !.dep = EmptyDep]

\* Read, with ErrNotFound translated by readForUpdate to an empty State.
ReadState(c) ==
  IF Exists(c) THEN [content |-> ReadContent(c.tree), remerge |-> FALSE]
  ELSE FreshState

\* The SBOM file mirrors the Report's when there is one.
Persisted(c) == IF c.report = NoReport THEN c ELSE [c EXCEPT !.sbom = c.report.sbom]

\* Fault: the tree is built from the State alone.
BareTree(s, parent) ==
  [content |-> Persisted(s.content), boundTo |-> s.content.report, extra |-> {}]

\* buildTree: modelled files from the State, the others from the parent.
BuildTree(s, parent) ==
  [content |-> Persisted(s.content), boundTo |-> s.content.report,
   extra |-> IF Exists(parent) THEN parent.tree.extra ELSE {}]

-----------------------------------------------------------------------------
Stages == {"idle", "read", "trying", "conflict"}

TypeOK ==
  /\ ref \in Commit
  /\ stage \in [Writer -> Stages]
  /\ cur \in [Writer -> State]
  /\ token \in [Writer -> Commit]
  /\ attempt \in [Writer -> 0..MaxRetries]
  /\ mine \in [Writer -> Content]
  /\ events \in 0..MaxEvents

Init ==
  /\ ref = NoCommit
  /\ stage = [w \in Writer |-> "idle"]
  /\ cur = [w \in Writer |-> FreshState]
  /\ token = [w \in Writer |-> NoCommit]
  /\ attempt = [w \in Writer |-> 0]
  /\ mine = [w \in Writer |-> EmptyContent]
  /\ events = 0

Event == events < MaxEvents /\ events' = events + 1

Become(w, s) == stage' = [stage EXCEPT ![w] = s]

\* resolveRef: a rev-parse that fails and prints nothing is taken for a ref that
\* does not exist, whatever made it fail.
Resolved == {ref, NoCommit}

\* Read -> mutate -> Write: a caller takes the State and its CAS token.
ReadForUpdate(w) ==
  /\ stage[w] = "idle"
  /\ Event
  /\ \E c \in Resolved :
       /\ cur' = [cur EXCEPT ![w] = ReadState(c)]
       /\ token' = [token EXCEPT ![w] = c]
  /\ Become(w, "read")
  /\ UNCHANGED <<ref, attempt, mine>>

\* The caller hands Write a State built from the one it read: it may replace
\* the Report, the cursor, the counter and the record, and only adds to the
\* VEX log.
MayWrite(old, new) ==
  /\ new.report \in Fresh \cup {old.report}
  /\ new.dep \in Records \cup {old.dep}
  /\ old.vex \subseteq new.vex

Submit(w, next, hook) ==
  /\ stage[w] = "read"
  /\ MayWrite(cur[w].content, next)
  /\ cur' = [cur EXCEPT ![w] = [content |-> next, remerge |-> hook]]
  /\ mine' = [mine EXCEPT ![w] = next]
  /\ Become(w, "trying")
  /\ UNCHANGED <<ref, token, attempt, events>>

\* What a caller can pass to Submit after reading old.  With a Report the SBOM
\* is that Report's, as every caller sets it.
Intents(old) ==
  {Persisted(c) : c \in
     [report: Fresh \cup {old.report}, sbom: {old.sbom},
      cursor: SUBSET Advisory, vex: {old.vex \cup v : v \in SUBSET Entry},
      revoke: 0..MaxRevoke, dep: Records \cup {old.dep}]}

\* The caller's Read..Write is over and what it carried goes out of scope.
Return(w) ==
  /\ Become(w, "idle")
  /\ cur' = [cur EXCEPT ![w] = FreshState]
  /\ token' = [token EXCEPT ![w] = NoCommit]
  /\ attempt' = [attempt EXCEPT ![w] = 0]
  /\ mine' = [mine EXCEPT ![w] = EmptyContent]

\* The caller stops between its Read and its Write (an analysis error, a
\* read-only run).
Abandon(w) ==
  /\ stage[w] = "read"
  /\ Return(w)
  /\ UNCHANGED <<ref, events>>

\* update-ref with the expected old value still in place.  Whether the call
\* comes back or is lost after it took effect, the commit stands.
TryWrite(w) ==
  /\ stage[w] = "trying"
  /\ token[w] = ref
  /\ ref' = Child(token[w], BuildTree(cur[w], token[w]))
  /\ Return(w)
  /\ UNCHANGED events

\* ErrConflict: the ref moved, the parent is gone, or (with the expected
\* value in place) update-ref failed because another process held the ref's
\* lock, a failure tryWrite reports alike.
Conflict(w) ==
  /\ stage[w] = "trying"
  /\ Become(w, "conflict")
  /\ UNCHANGED <<ref, cur, token, attempt, mine, events>>

\* Any other failure of a try or of the re-read, and a cancelled context.
Fail(w) ==
  /\ stage[w] \in {"trying", "conflict"}
  /\ Return(w)
  /\ UNCHANGED <<ref, events>>

\* Faults: the retry swaps in the new token and nothing else, or adopts the
\* winner's State.
RetryUnmerged(w, c) == cur[w]
RetryWinner(w, c) == ReadState(c)

\* The State the next attempt writes after the re-read found c: the caller's
\* own, as a create, when there is no ref, and its merge onto the winner
\* otherwise.
RetryState(w, c) ==
  IF Exists(c)
  THEN [cur[w] EXCEPT !.content =
          MergeForRetry(ReadContent(c.tree), cur[w].content, cur[w].remerge)]
  ELSE cur[w]

\* Faults: one attempt too many, or attempts that are not counted.
RetryOnceMore(w) ==
  /\ stage[w] = "conflict"
  /\ attempt[w] <= MaxRetries
  /\ \E c \in Resolved :
       /\ cur' = [cur EXCEPT ![w] = RetryState(w, c)]
       /\ token' = [token EXCEPT ![w] = c]
  /\ attempt' = [attempt EXCEPT ![w] = @ + 1]
  /\ Become(w, "trying")
  /\ UNCHANGED <<ref, mine, events>>

RetryUncounted(w) ==
  /\ stage[w] = "conflict"
  /\ attempt[w] < MaxRetries
  /\ \E c \in Resolved :
       /\ cur' = [cur EXCEPT ![w] = RetryState(w, c)]
       /\ token' = [token EXCEPT ![w] = c]
  /\ Become(w, "trying")
  /\ UNCHANGED <<ref, attempt, mine, events>>

Retry(w) ==
  /\ stage[w] = "conflict"
  /\ attempt[w] < MaxRetries
  /\ \E c \in Resolved :
       /\ cur' = [cur EXCEPT ![w] = RetryState(w, c)]
       /\ token' = [token EXCEPT ![w] = c]
  /\ attempt' = [attempt EXCEPT ![w] = @ + 1]
  /\ Become(w, "trying")
  /\ UNCHANGED <<ref, mine, events>>

\* The retry budget is spent: Write returns ErrConflict.
Exhaust(w) ==
  /\ stage[w] = "conflict"
  /\ attempt[w] = MaxRetries
  /\ Return(w)
  /\ UNCHANGED <<ref, events>>

\* Self-cleanup, or an operator, deletes the ref.
DeleteRef ==
  /\ Exists(ref)
  /\ Event
  /\ ref' = NoCommit
  /\ UNCHANGED <<stage, cur, token, attempt, mine>>

\* A version that does not model depfetch.json rewrites report.json and
\* carries the record unchanged; a newer one adds an entry of its own.
ForeignTree(c, r, x) ==
  [c.tree EXCEPT !.content = [@ EXCEPT !.report = r, !.sbom = r.sbom],
                 !.extra = @ \cup x]

ForeignCommit(r, x) ==
  /\ Exists(ref)
  /\ Event
  /\ ref' = Child(ref, ForeignTree(ref, r, x))
  /\ UNCHANGED <<stage, cur, token, attempt, mine>>

ForeignWrite == \E r \in Fresh, x \in SUBSET Foreign : ForeignCommit(r, x)

\* The steps of Write, once a caller has submitted.
WriteStep(w) ==
  \/ TryWrite(w)
  \/ Conflict(w)
  \/ Fail(w)
  \/ Retry(w)
  \/ Exhaust(w)

Next ==
  \/ \E w \in Writer :
       \/ ReadForUpdate(w)
       \/ Abandon(w)
       \/ \E next \in Intents(cur[w].content), hook \in BOOLEAN : Submit(w, next, hook)
       \/ WriteStep(w)
  \/ DeleteRef
  \/ ForeignWrite

Spec == Init /\ [][Next]_vars

-----------------------------------------------------------------------------
(* Properties.                                                             *)

\* Write returns: its steps are fair, because a runner that is alive keeps
\* executing the loop and its backoff is bounded.
FairSpec == Spec /\ \A w \in Writer : WF_vars(WriteStep(w))

\* The commit w makes in this step, if it makes one.
Commits(w) == stage[w] = "trying" /\ stage'[w] = "idle" /\ ref' # ref

\* "a race-loser does not clobber the winner's work" (merge.go): a commit made
\* by a retry keeps every advisory answered, limit, VEX entry, revoke
\* increment and fetch record of the commit it supersedes.  Reading before the
\* race or writing after a delete cannot break it.
RaceLoserKeepsWinner ==
  [][\A w \in Writer : Commits(w) /\ attempt[w] > 0 /\ Exists(ref)
       => KeepsWork(ReadContent(ref.tree), ref'.tree.content)]_vars

\* The other half: however many merges a Write went through, the commit it
\* makes still carries what its caller handed it.
CommitCarriesIntent ==
  [][\A w \in Writer : Commits(w) => KeepsWork(mine[w], ref'.tree.content)]_vars

\* FirstHeldAt is "zero while HeldRuns is zero" (depfetch.go) and only then:
\* merging two records that say so cannot produce one that does not.
StoredHoldsAreStamped == HoldStamped(ref.tree.content.dep)

\* Every Write ends, committed or not: conflicts are bounded by MaxRetries.
WriteReturns ==
  \A w \in Writer : (stage[w] = "trying") ~> (stage[w] = "idle")

Ledger == INSTANCE StateLedger WITH ledger <- ref

\* The ref implements the ledger: commits extend it one at a time, on top of
\* the commit they were derived from, and none rewrites the VEX log or drops
\* an entry another version owns.
ImplementsLedger == Ledger!Spec

-----------------------------------------------------------------------------
(* The inductive invariant.  Each part speaks of what a writer carries while *)
(* it is in its Read..Write, before the commit that publishes it.            *)

\* A commit at depth zero is the ref that does not exist.
Rooted(c) == c.depth = 0 => c = NoCommit

RootInv == Rooted(ref) /\ \A w \in Writer : Rooted(token[w])

\* Retries are counted from the Write, not from the Read.
AttemptInv == \A w \in Writer : stage[w] \in {"idle", "read"} => attempt[w] = 0

\* What a writer carries has the whole log of the commit it will supersede,
LogInv ==
  \A w \in Writer :
    stage[w] # "idle" => token[w].tree.content.vex \subseteq cur[w].content.vex

\* after a merge all of that commit's work,
WinnerInv ==
  \A w \in Writer :
    attempt[w] > 0 /\ Exists(token[w]) =>
      KeepsWork(ReadContent(token[w].tree), cur[w].content)

\* and, throughout, all of its caller's.
OwnInv ==
  \A w \in Writer :
    stage[w] \in {"trying", "conflict"} => KeepsWork(mine[w], cur[w].content)

CarriedHoldInv == \A w \in Writer : HoldStamped(cur[w].content.dep)

\* A writer carries, at every moment of its Write, both its own work and the
\* commit's it is about to supersede: the strengthening of the properties
\* above that every step preserves.
CarriesBoth ==
  RootInv /\ AttemptInv /\ LogInv /\ WinnerInv /\ OwnInv

=============================================================================
