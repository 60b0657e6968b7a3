------------------------------- MODULE DepCode -------------------------------
(***************************************************************************)
(* The dependency-code policy of a JS scan, cmd/ferralon-assay/depcode.go: *)
(* what a run that read less dependency code than its lock pins does to    *)
(* the registry's hold count, to the advisory cursor and to the list of    *)
(* advisories a later run assesses again.  Pure operators: ScanRuns plays  *)
(* them.                                                                   *)
(*                                                                         *)
(* A registry's tally keeps, for each kind of outcome, whether the run saw *)
(* any: the policy never compares two counts but failed with missing,      *)
(* which asks whether some failure was not a missing credential.           *)
(***************************************************************************)
EXTENDS StateMerge

Reads == {"network", "cache"}

\* A refused token, a token the run did not have, a transient answer, and
\* every other failure (not served, unreachable, refused, mismatched).
Failures == {"rejected", "missing", "unavailable", "other"}

Kind == Reads \cup Failures \cup {"cancelled"}

\* One run's acquisition.  closed: it fell back for a reason that names no
\* registry, a failed inventory or an npm configuration that failed closed.
Fetch ==
  [source: {"fetch", "off"}, observed: BOOLEAN, closed: BOOLEAN,
   tally: [Registry -> SUBSET Kind]]

Failed(t) == t \cap Failures # {}
Unread(t) == t \cap (Failures \cup {"cancelled"}) # {}
ReadSome(t) == t \cap Reads # {}

\* classifyRegistry, in the order of its cases.
ClassifyRegistry(t, prior) ==
  IF "rejected" \in t THEN "red"
  ELSE IF ~Unread(t) THEN "read"
  ELSE IF ReadSome(t) THEN "partial"
  ELSE IF /\ Failed(t)
          /\ "unavailable" \in t \/ (prior.served /\ t \cap (Failures \ {"missing"}) # {})
  THEN "hold" ELSE "fallback"

HoldsRegistry(t, prior) == ClassifyRegistry(t, prior) = "hold"

\* Only registries with an outcome are tallied.
Tallied(f) == {g \in Registry : f.tally[g] # {}}

Holds(f, stored) == \E g \in Tallied(f) : HoldsRegistry(f.tally[g], stored.regs[g])

\* fallbackCause: a failed package forces the fallback unless its registry
\* served something and refused no token.
FellBack(f) ==
  \/ f.closed
  \/ \E g \in Tallied(f) :
       Unread(f.tally[g]) /\ (~ReadSome(f.tally[g]) \/ "rejected" \in f.tally[g])

Incomplete(f) == FellBack(f) \/ \E g \in Tallied(f) : Unread(f.tally[g])

-----------------------------------------------------------------------------
(* record.  A run is [baseline, held, assessed, missed, undetermined]: the *)
(* advisories it assessed to completion, those that concern (or may        *)
(* concern) a package it missed, those with an undetermined fresh finding. *)

CountHold(e, now) ==
  [e EXCEPT !.held = @ + 1, !.first = IF @ = 0 THEN now ELSE @]

\* The served mark goes on before the hold rule is asked, which reads the
\* stored entry and not the marked one.
RecordRegistry(e, t, run, now) ==
  LET marked == [e EXCEPT !.served = @ \/ "network" \in t]
  IN IF run.baseline THEN marked
     ELSE IF run.held /\ HoldsRegistry(t, e) THEN CountHold(marked, now)
     ELSE IF ReadSome(t) THEN [marked EXCEPT !.held = 0, !.first = 0]
     ELSE marked

RecordRegistries(f, prior, run, now) ==
  [g \in Registry |->
     IF g \in Tallied(f) THEN RecordRegistry(prior.regs[g], f.tally[g], run, now)
     ELSE prior.regs[g]]

\* The assessed advisories that a run that read less than its lock pins lists.
\* One that fell back cannot say which packages it missed (missedLocked).
Relisted(f, run) ==
  IF FellBack(f) THEN run.assessed
  ELSE run.assessed \cap (run.missed \cup run.undetermined)

RecordReassess(f, listed, run) ==
  IF ~Incomplete(f) THEN listed \ run.assessed
  ELSE IF run.baseline THEN listed
  ELSE (listed \ run.assessed) \cup Relisted(f, run)

\* A run that observed no acquisition carries the record, and drops its list
\* when dependency code is off.
Record(f, prior, run, now) ==
  IF ~f.observed
  THEN [prior EXCEPT !.reassess = IF f.source = "off" THEN {} ELSE @]
  ELSE [regs |-> RecordRegistries(f, prior, run, now),
        reassess |-> RecordReassess(f, prior.reassess, run)]

=============================================================================
