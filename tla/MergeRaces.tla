----------------------------- MODULE MergeRaces -----------------------------
(***************************************************************************)
(* Scans that overlap: each read the same state, each built a State of its *)
(* own, and they reach the ref in some order, the first by its CAS and     *)
(* every later one by merging onto what is stored (statestore/merge.go).   *)
(* The question is what the stored State is once some of them are in, as a *)
(* function of what they wrote and not of who came first.                  *)
(***************************************************************************)
EXTENDS StateMerge

CONSTANTS
  Racer,     \* overlapping scan runs
  Written,   \* the Contents a scan may write
  NoContent  \* no run has committed yet

\* Only upgradeV1 makes a row without a source, and it makes it undetermined.
ASSUME RaceAssumption ==
  /\ Written \subseteq Content
  /\ \A c \in Written :
       /\ c.report # NoReport
       /\ \A k \in Key : ~SupersededMigrated(c.report.rows, k)
       /\ \A k \in Key : k.source = NoSource => c.report.rows[k] \in Undetermined \cup {"none"}

VARIABLES
  wrote,   \* what each racer submitted to Write
  stored,  \* the State the ref holds
  arrived  \* the racers whose commit is in

raceVars == <<wrote, stored, arrived>>

RaceInit ==
  /\ wrote \in [Racer -> Written]
  /\ stored = NoContent
  /\ arrived = {}

\* The first try of the first racer finds its token in place; every other
\* racer lost a CAS, and all of them are scans, which set the Remerge hook.
Arrive(r) ==
  /\ r \notin arrived
  /\ arrived' = arrived \cup {r}
  /\ stored' = IF arrived = {} THEN wrote[r] ELSE MergeForRetry(stored, wrote[r], TRUE)
  /\ UNCHANGED wrote

RaceNext == \E r \in Racer : Arrive(r)

RaceSpec == RaceInit /\ [][RaceNext]_raceVars

-----------------------------------------------------------------------------
(* Properties.                                                             *)

TimeOf(r) == wrote[r].report.ts
RowIn(r, k) == wrote[r].report.rows[k]
Untied == \A r, q \in arrived : r # q => TimeOf(r) # TimeOf(q)

\* One advisory is not reported twice, as the row migrated from a v1 report
\* and as the sourced row that answers it.
OneRowPerAdvisory ==
  arrived # {} => \A k \in Key : ~SupersededMigrated(stored.report.rows, k)

\* The cursor two scans leave does not depend on the CAS: the later report has
\* one, or there is at most one beside the reports.
CursorSettled(later, earlier) ==
  \/ wrote[later].report.cursor # {}
  \/ wrote[later].cursor = {} \/ wrote[earlier].cursor = {}
  \/ wrote[later].cursor = wrote[earlier].cursor

\* Two scans with different timestamps store what they would have stored had
\* they committed in that order, record and notes included, whichever of them
\* won the CAS; and the cursor too, except that after a later report without
\* one laterCursor takes the cursor of whoever lost (README, section 5).
OrderInsensitive ==
  \A r, q \in arrived : arrived = {r, q} /\ TimeOf(q) < TimeOf(r) =>
    LET inOrder == MergeForRetry(wrote[q], wrote[r], TRUE)
    IN /\ [stored EXCEPT !.cursor = {}] = [inOrder EXCEPT !.cursor = {}]
       /\ CursorSettled(r, q) => stored.cursor = inOrder.cursor

\* Of two scans the later one's verdict is stored, whichever won the CAS.
LaterOfTwoWins ==
  \A r, q \in arrived : arrived = {r, q} /\ TimeOf(q) < TimeOf(r) =>
    \A k \in Key : RowIn(r, k) # "none" /\ k.source # NoSource
                     /\ k.id \notin stored.dep.reassess
      => stored.report.rows[k] = RowIn(r, k)

=============================================================================
