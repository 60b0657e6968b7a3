------------------------------ MODULE RestStore ------------------------------
(***************************************************************************)
(* The state ref over the GitHub Git Data API, statestore/github.go and    *)
(* capability.go: the probe, the requests of a Read, the requests of one   *)
(* try, and the server that answers them.  Where GitRefStore compares the  *)
(* ref with an expected old value, the PATCH of this adapter asks for a    *)
(* fast-forward; the module shows how far that gives the same store.       *)
(*                                                                         *)
(* A commit is the sequence of trees from its root to its own, because its *)
(* SHA is a function of its tree and its parent's SHA.  Blobs, trees and   *)
(* commits never change under their SHA, so what the requests of one Read  *)
(* return is fixed when the first is answered, and the objects of a try    *)
(* are seen by nobody before its ref request.                              *)
(***************************************************************************)
EXTENDS StateMerge, Sequences, SequencesExt

CONSTANTS
  Writer, MaxRetries, MaxEvents, MaxRevoke,  \* as in StateStore
  Foreign, Fresh, Records,
  Hooks        \* whether a caller sets the Remerge hook

ASSUME RestAssumption ==
  /\ MaxRetries \in Nat
  /\ MaxEvents \in Nat
  /\ Hooks \subseteq BOOLEAN

VARIABLES
  hist,     \* the commit the ref points at
  pc,       \* where each writer is in its Read..Write
  token,    \* its CommitSHA
  cur,      \* the State it carries
  mine,     \* ghost: what it submitted
  attempt,  \* retries used
  made,     \* the commit its try created
  probe,    \* its capability probe: "unasked", "passed" or "failed"
  gone,     \* ghost: the ref was deleted since the writer took its token
  acked,    \* ghost: the commits the server accepted since the ref last vanished
  events

restVars == <<hist, pc, token, cur, mine, attempt, made, probe, gone, acked, events>>

\* No ref, and the empty CommitSHA.
NoRef == <<>>

\* A commit as StateStore keeps it.
CommitOf(h) ==
  IF h = NoRef
  THEN [depth |-> 0, tree |-> [content |-> EmptyContent, boundTo |-> NoReport, extra |-> {}]]
  ELSE [depth |-> Len(h), tree |-> h[Len(h)]]

\* A Read takes effect when its first request is answered, and so does the
\* re-read of a retry.
StageOf(p) ==
  CASE p = "idle" -> "idle"
    [] p \in {"fetching", "read"} -> "read"
    [] p \in {"refetching", "building", "swapping"} -> "trying"
    [] p = "conflict" -> "conflict"

Store == INSTANCE StateStore WITH
  ref <- CommitOf(hist),
  stage <- [w \in Writer |-> StageOf(pc[w])],
  token <- [w \in Writer |-> CommitOf(token[w])]

Init ==
  /\ hist = NoRef
  /\ pc = [w \in Writer |-> "idle"]
  /\ token = [w \in Writer |-> NoRef]
  /\ cur = [w \in Writer |-> [content |-> EmptyContent, remerge |-> FALSE]]
  /\ mine = [w \in Writer |-> EmptyContent]
  /\ attempt = [w \in Writer |-> 0]
  /\ made = [w \in Writer |-> NoRef]
  /\ probe = [w \in Writer |-> "unasked"]
  /\ gone = [w \in Writer |-> FALSE]
  /\ acked = {}
  /\ events = 0

At(w, p) == pc[w] = p
Goes(w, p) == pc' = [pc EXCEPT ![w] = p]
Event == events < MaxEvents /\ events' = events + 1

\* The caller's Read..Write is over.
Return(w) ==
  /\ Goes(w, "idle")
  /\ token' = [token EXCEPT ![w] = NoRef]
  /\ cur' = [cur EXCEPT ![w] = [content |-> EmptyContent, remerge |-> FALSE]]
  /\ mine' = [mine EXCEPT ![w] = EmptyContent]
  /\ attempt' = [attempt EXCEPT ![w] = 0]
  /\ made' = [made EXCEPT ![w] = NoRef]
  /\ gone' = [gone EXCEPT ![w] = FALSE]

-----------------------------------------------------------------------------
(* Read.                                                                   *)

\* ensureRef asks once and keeps the answer, an error included.
Probe(w) ==
  /\ At(w, "idle") /\ probe[w] = "unasked"
  /\ \E answer \in {"passed", "failed"} : probe' = [probe EXCEPT ![w] = answer]
  /\ UNCHANGED <<hist, pc, token, cur, mine, attempt, made, gone, acked, events>>

ReadRef(w) ==
  /\ At(w, "idle") /\ probe[w] = "passed"
  /\ Event
  /\ token' = [token EXCEPT ![w] = hist]
  /\ cur' = [cur EXCEPT ![w] = Store!ReadState(CommitOf(hist))]
  /\ gone' = [gone EXCEPT ![w] = FALSE]
  /\ Goes(w, "fetching")
  /\ UNCHANGED <<hist, mine, attempt, made, probe, acked>>

Fetched(w) ==
  /\ At(w, "fetching")
  /\ Goes(w, "read")
  /\ UNCHANGED <<hist, token, cur, mine, attempt, made, probe, gone, acked, events>>

\* A request fails, a deleted commit is collected, or the caller stops.
Abandon(w) ==
  /\ pc[w] \in {"fetching", "read"}
  /\ Return(w)
  /\ UNCHANGED <<hist, probe, acked, events>>

Submit(w, next, hook) ==
  /\ At(w, "read")
  /\ Store!MayWrite(cur[w].content, next)
  /\ cur' = [cur EXCEPT ![w] = [content |-> next, remerge |-> hook]]
  /\ mine' = [mine EXCEPT ![w] = next]
  /\ Goes(w, "building")
  /\ UNCHANGED <<hist, token, attempt, made, probe, gone, acked, events>>

-----------------------------------------------------------------------------
(* Write.                                                                  *)

\* The blobs, the tree with the parent's unmodelled entries, and the commit.
Build(w) ==
  /\ At(w, "building")
  /\ made' = [made EXCEPT ![w] = Append(token[w], Store!BuildTree(cur[w], CommitOf(token[w])))]
  /\ Goes(w, "swapping")
  /\ UNCHANGED <<hist, token, cur, mine, attempt, probe, gone, acked, events>>

\* errParentGone: a deleted parent was collected.
ParentGone(w) ==
  /\ At(w, "building") /\ gone[w]
  /\ Goes(w, "conflict")
  /\ UNCHANGED <<hist, token, cur, mine, attempt, made, probe, gone, acked, events>>

\* Fault: a PATCH with force=true moves any ref there is.
Forced(w) == hist = NoRef <=> token[w] = NoRef

\* POST creates a ref that does not exist, PATCH moves one that does to a
\* commit that descends from it.
Accepts(w) ==
  IF token[w] = NoRef THEN hist = NoRef
  ELSE hist # NoRef /\ IsPrefix(hist, made[w])

\* 201 or 200; the caller learns of it, or the answer is lost on the way.
Swap(w) ==
  /\ At(w, "swapping")
  /\ Accepts(w)
  /\ hist' = made[w]
  /\ acked' = acked \cup {made[w]}
  /\ Return(w)
  /\ UNCHANGED <<probe, events>>

\* 422 or 409; the server may answer 409 for a ref another request holds.
Conflict(w) ==
  /\ At(w, "swapping")
  /\ Goes(w, "conflict")
  /\ UNCHANGED <<hist, token, cur, mine, attempt, made, probe, gone, acked, events>>

\* Any other status, an error, or a cancelled context.
Fail(w) ==
  /\ pc[w] \in {"refetching", "building", "swapping", "conflict"}
  /\ Return(w)
  /\ UNCHANGED <<hist, probe, acked, events>>

\* Fault: the re-read takes the new token and not the winner's State.
TokenOnly(w) ==
  /\ At(w, "conflict") /\ attempt[w] < MaxRetries
  /\ token' = [token EXCEPT ![w] = hist]
  /\ attempt' = [attempt EXCEPT ![w] = @ + 1]
  /\ gone' = [gone EXCEPT ![w] = FALSE]
  /\ Goes(w, "refetching")
  /\ UNCHANGED <<hist, cur, mine, made, probe, acked, events>>

Reread(w) ==
  /\ At(w, "conflict") /\ attempt[w] < MaxRetries
  /\ cur' = [cur EXCEPT ![w] = Store!RetryState(w, CommitOf(hist))]
  /\ token' = [token EXCEPT ![w] = hist]
  /\ attempt' = [attempt EXCEPT ![w] = @ + 1]
  /\ gone' = [gone EXCEPT ![w] = FALSE]
  /\ Goes(w, "refetching")
  /\ UNCHANGED <<hist, mine, made, probe, acked, events>>

Refetched(w) ==
  /\ At(w, "refetching")
  /\ Goes(w, "building")
  /\ UNCHANGED <<hist, token, cur, mine, attempt, made, probe, gone, acked, events>>

\* The last re-read comes to nothing: ErrConflict.
Exhaust(w) ==
  /\ At(w, "conflict") /\ attempt[w] = MaxRetries
  /\ Return(w)
  /\ UNCHANGED <<hist, probe, acked, events>>

-----------------------------------------------------------------------------
(* The ref's other writers.                                                *)

DeleteRef ==
  /\ hist # NoRef
  /\ Event
  /\ hist' = NoRef
  /\ acked' = {}
  /\ gone' = [w \in Writer |-> gone[w] \/ pc[w] # "idle"]
  /\ UNCHANGED <<pc, token, cur, mine, attempt, made, probe>>

ForeignCommit(r, x) ==
  /\ hist # NoRef
  /\ Event
  /\ hist' = Append(hist, Store!ForeignTree(CommitOf(hist), r, x))
  /\ UNCHANGED <<pc, token, cur, mine, attempt, made, probe, gone, acked>>

WriteStep(w) ==
  \/ Build(w) \/ ParentGone(w) \/ Swap(w) \/ Conflict(w) \/ Fail(w)
  \/ Reread(w) \/ Refetched(w) \/ Exhaust(w)

Next ==
  \/ \E w \in Writer :
       \/ Probe(w) \/ ReadRef(w) \/ Fetched(w) \/ Abandon(w)
       \/ \E next \in Store!Intents(cur[w].content), hook \in Hooks : Submit(w, next, hook)
       \/ WriteStep(w)
  \/ DeleteRef
  \/ \E r \in Fresh, x \in SUBSET Foreign : ForeignCommit(r, x)

Spec == Init /\ [][Next]_restVars

-----------------------------------------------------------------------------
(* Properties.                                                             *)

\* A commit the server accepted stays in the ref's history until the ref is
\* deleted, whatever the other writers were in the middle of.
AcknowledgedStays == \A h \in acked : IsPrefix(h, hist)

\* Every other step is one of StateStore: what is shown of the git adapter
\* holds of this one.
StoreStep ==
  \/ \E w \in Writer :
       \/ Store!ReadForUpdate(w)
       \/ Store!Abandon(w)
       \/ Store!Submit(w, cur'[w].content, cur'[w].remerge)
       \/ Store!WriteStep(w)
  \/ Store!DeleteRef
  \/ \E r \in Fresh, x \in SUBSET Foreign : Store!ForeignCommit(r, x)

\* A swap of a recreated ref: gone is set and the ref is not the one read.
Recreated == \E w \in Writer : pc[w] = "swapping" /\ gone[w] /\ Accepts(w) /\ hist # token[w]

StoreVars == <<CommitOf(hist), [w \in Writer |-> StageOf(pc[w])], cur,
               [w \in Writer |-> CommitOf(token[w])], attempt, mine, events>>

ImplementsStore == Store!Init /\ [][Recreated \/ StoreStep]_StoreVars

=============================================================================
