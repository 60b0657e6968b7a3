------------------------------ MODULE PRInherit ------------------------------
(***************************************************************************)
(* The rows a run builds, trigger/state.go and trigger/cutshort.go: which  *)
(* advisories of the work set a pull request's run assesses, which rows it *)
(* takes from the stored baseline, and the count it discloses of the rows  *)
(* the scan never reached.  Pure operators: ScanProcess plays them.        *)
(*                                                                         *)
(* A report's rows are a set of [key, verdict], so that two rows of one    *)
(* advisory would show.                                                    *)
(***************************************************************************)
EXTENDS Naturals, FiniteSets

CONSTANTS Advisory, Source, NoSource

ASSUME RowAssumption == NoSource \in Source

Key == [id: Advisory, source: Source]
Verdict == {"reachable", "refuted", "undetermined", "cutshort"}
RowSet == [key: Key, verdict: Verdict]

Keys(rows) == {r.key : r \in rows}
CutRows(rows) == {r \in rows : r.verdict = "cutshort"}

\* Fault: a row the scan never reached counts as one.
AnyRow(rows) == Keys(rows)

\* A scan_cut_short row says nothing: it is no row to inherit.
Usable(rows) == Keys(rows \ CutRows(rows))

\* A row under the key, or a migrated one under its id.
HasRow(usable, k) == k \in usable \/ [k EXCEPT !.source = NoSource] \in usable

Unrowed(rows, work) == {k \in work : ~HasRow(Usable(rows), k)}

\* supersededByFresh: a migrated row yields to a fresh one for its advisory.
Superseded(r, fresh) ==
  /\ r.verdict = "undetermined"
  /\ r.key.source = NoSource
  /\ \E f \in fresh : f.key.id = r.key.id

\* withInventoryLimits: limited are the keys whose packages the head could
\* not inventory.
Limited(r, limited) ==
  IF r.verdict = "refuted" /\ r.key \in limited THEN [r EXCEPT !.verdict = "undetermined"] ELSE r

\* inheritBaseline and reanalyzeSlice assemble their rows alike.
Inherit(stored, fresh, limited) ==
  fresh \cup
    {Limited(r, limited) : r \in {s \in stored : s.key \notin Keys(fresh) /\ ~Superseded(s, fresh)}}

\* reanalyzeSlice: a completed assessment leaves the stored row standing when
\* no package the advisory affects changed and it met no limit of its own.
Stands(k, stored, verdict, moved) ==
  /\ HasRow(Usable(stored), k)
  /\ k \notin moved
  /\ verdict # "limit"

\* The cut-short count of a report and the cause it states: 0 rows, no note.
NoCount == [rows |-> 0, cause |-> "none"]

\* Fault: the baseline's count is carried as it stood.
CarryCount(rows, carried, own) == carried

\* recountCutShort: own is the stop that cut this run's rows, "none" without.
Recount(rows, carried, own) ==
  LET n == Cardinality(CutRows(rows))
  IN IF n = 0 THEN NoCount
     ELSE [rows |-> n,
           cause |-> IF own # "none" THEN own
                     ELSE IF carried.cause # "none" THEN carried.cause ELSE "earlier"]

=============================================================================
