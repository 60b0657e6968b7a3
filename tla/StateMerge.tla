----------------------------- MODULE StateMerge -----------------------------
(***************************************************************************)
(* The durable per-repository state of statestore/ and the convergence     *)
(* rule a writer applies to it after a lost compare-and-swap:              *)
(* statestore/merge.go, statestore/depfetch.go and the not-fetched         *)
(* projection of trigger/not_fetched.go that the rule re-runs.             *)
(*                                                                         *)
(* Rows are a total function over (advisory, source) keys with "none" for  *)
(* an absent row; the advisory cursor, a sorted comma-joined string in the *)
(* code, is the set of its IDs, so the empty string is the empty set; the  *)
(* VEX log is the set of its entries (mergeVEXLogs deduplicates them).     *)
(***************************************************************************)
EXTENDS Integers

CONSTANTS
  Advisory,   \* advisory IDs
  Source,     \* advisory sources, NoSource included
  NoSource,   \* the empty source of a row migrated from a v1 report
  Registry,   \* npm registry identities
  Limit,      \* partiality notes other than dependency_not_fetched
  Sbom,       \* dependency inventories
  EmptySbom,  \* the inventory with no packages
  Digest,     \* signals-file digests
  NoDigest,   \* no signals file recorded
  Entry,      \* OpenVEX statements
  NoReport    \* a State whose Report is nil

ASSUME DataAssumption ==
  /\ NoSource \in Source
  /\ EmptySbom \in Sbom
  /\ NoDigest \in Digest

-----------------------------------------------------------------------------
(* The data.                                                               *)

Key == [id: Advisory, source: Source]

\* disqualified and not_exploitable are "refuted"; every verdict that claims
\* the advisory may apply is "reachable"; undetermined is split by its reason.
Undetermined == {"cutshort", "notfetched", "undetermined"}
Row == {"none", "reachable", "refuted"} \cup Undetermined

Report ==
  [ts: Nat, cursor: SUBSET Advisory, rows: [Key -> Row], sbom: Sbom,
   digest: Digest, limits: SUBSET Limit, notes: SUBSET Advisory]

RegistryFetch == [served: BOOLEAN, held: Nat, first: Nat]

\* A nil record and an empty one are the same value: a store writes neither.
DepFetch == [regs: [Registry -> RegistryFetch], reassess: SUBSET Advisory]

NeverFetched == [served |-> FALSE, held |-> 0, first |-> 0]
EmptyDep == [regs |-> [g \in Registry |-> NeverFetched], reassess |-> {}]

\* The part of statestore.State that merges and persists.
Content ==
  [report: Report \cup {NoReport}, sbom: Sbom, cursor: SUBSET Advisory,
   vex: SUBSET Entry, revoke: Nat, dep: DepFetch]

EmptyContent ==
  [report |-> NoReport, sbom |-> EmptySbom, cursor |-> {}, vex |-> {},
   revoke |-> 0, dep |-> EmptyDep]

NoRows == [k \in Key |-> "none"]
RowsOf(r) == IF r = NoReport THEN NoRows ELSE r.rows
LimitsOf(r) == IF r = NoReport THEN {} ELSE r.limits

\* The advisories a row table answers for, under any source.
Answered(rows) == {k.id : k \in {j \in Key : rows[j] # "none"}}

-----------------------------------------------------------------------------
(* mergeReports.                                                           *)

\* Fault: the committed winner is the primary whatever the timestamps.
WinnerIsPrimary(base, mine) == base

\* The strictly later report is the primary; on a tie the committed winner is.
Primary(base, mine) == IF mine.ts > base.ts THEN mine ELSE base
Secondary(base, mine) == IF mine.ts > base.ts THEN base ELSE mine

\* Fault: the older report's row is kept where both have one.
OlderRows(p, s) ==
  [k \in Key |-> IF s.rows[k] # "none" THEN s.rows[k] ELSE p.rows[k]]

UnionRows(p, s) ==
  [k \in Key |-> IF p.rows[k] # "none" THEN p.rows[k] ELSE s.rows[k]]

\* A source-less undetermined row yields to a sourced row for its advisory.
SupersededMigrated(rows, k) ==
  /\ k.source = NoSource
  /\ rows[k] \in Undetermined
  /\ \E j \in Key : j.id = k.id /\ j.source # NoSource /\ rows[j] # "none"

\* Fault: a migrated row stays beside the row that answers it.
EveryRow(rows) == rows

KeptRows(rows) ==
  [k \in Key |-> IF SupersededMigrated(rows, k) THEN "none" ELSE rows[k]]

\* The merged report names a signals file only if that file ranked every row.
MergedDigest(p, s, kept) ==
  IF \E k \in Key : kept[k] # "none" /\ p.rows[k] = "none" /\ s.digest # p.digest
  THEN NoDigest ELSE p.digest

MergeBothReports(base, mine) ==
  LET p == Primary(base, mine)
      s == Secondary(base, mine)
      kept == KeptRows(UnionRows(p, s))
  IN [ts |-> p.ts, cursor |-> p.cursor, rows |-> kept, sbom |-> p.sbom,
      digest |-> MergedDigest(p, s, kept),
      limits |-> p.limits \cup s.limits, notes |-> p.notes \cup s.notes]

MergeReports(base, mine) ==
  IF base = NoReport THEN mine
  ELSE IF mine = NoReport THEN base ELSE MergeBothReports(base, mine)

-----------------------------------------------------------------------------
(* mergeDepFetch.                                                          *)

Larger(a, b) == IF a > b THEN a ELSE b

\* Fault: the retry restamps the hold it counts.
OwnHold(a, b) == IF b # 0 THEN b ELSE a

EarliestHold(a, b) ==
  IF b # 0 /\ (a = 0 \/ b < a) THEN b ELSE a

\* Fault: the retry forgets that the registry had served the winner.
OwnServedRegistry(a, b) ==
  [served |-> b.served, held |-> Larger(a.held, b.held), first |-> EarliestHold(a.first, b.first)]

MergeRegistry(a, b) ==
  [served |-> a.served \/ b.served, held |-> Larger(a.held, b.held),
   first |-> EarliestHold(a.first, b.first)]

MergeDepFetch(base, mine) ==
  [regs |-> [g \in Registry |-> MergeRegistry(base.regs[g], mine.regs[g])],
   reassess |-> base.reassess \cup mine.reassess]

-----------------------------------------------------------------------------
(* Merge and the Remerge hook.                                             *)

LaterCursor(base, mine) == IF mine.cursor # {} THEN mine.cursor ELSE base.cursor

MergedCursor(r, base, mine) ==
  IF r # NoReport /\ r.cursor # {} THEN r.cursor ELSE LaterCursor(base, mine)

\* Without a Report the merged State's SBOM field stays zero, and so is not
\* persisted: Merge copies it from the merged Report only.
Merge(base, mine) ==
  LET r == MergeReports(base.report, mine.report)
  IN [report |-> r,
      sbom |-> IF r = NoReport THEN EmptySbom ELSE r.sbom,
      cursor |-> MergedCursor(r, base, mine),
      vex |-> base.vex \cup mine.vex,
      revoke |-> Larger(base.revoke, mine.revoke),
      dep |-> MergeDepFetch(base.dep, mine.dep)]

\* withNotFetched: a listed advisory's refuting row is withheld, and the
\* dependency_not_fetched notes are exactly those of the rows so withheld.
WithheldRows(rows, reassess) ==
  [k \in Key |-> IF rows[k] = "refuted" /\ k.id \in reassess
                 THEN "notfetched" ELSE rows[k]]

WithNotFetched(r, reassess) ==
  LET rows == WithheldRows(r.rows, reassess)
  IN [r EXCEPT !.rows = rows,
               !.notes = {k.id : k \in {j \in Key : rows[j] = "notfetched"}}]

\* Fault: the merged State is written as it is.
NotRemerged(c) == c

Remerged(c) ==
  IF c.report = NoReport THEN c
  ELSE [c EXCEPT !.report = WithNotFetched(c.report, c.dep.reassess)]

\* mergeForRetry: hook says whether the writer set State.Remerge.
MergeForRetry(winner, mine, hook) ==
  IF hook THEN Remerged(Merge(winner, mine)) ELSE Merge(winner, mine)

-----------------------------------------------------------------------------
(* What a merge owes the two sides.                                        *)

\* new carries everything old disclosed or counted.
KeepsRecord(old, new) ==
  /\ old.reassess \subseteq new.reassess
  /\ \A g \in Registry :
       /\ old.regs[g].served => new.regs[g].served
       /\ old.regs[g].held <= new.regs[g].held
       /\ old.regs[g].first # 0 =>
            new.regs[g].first # 0 /\ new.regs[g].first <= old.regs[g].first

KeepsWork(old, new) ==
  /\ Answered(RowsOf(old.report)) \subseteq Answered(RowsOf(new.report))
  /\ LimitsOf(old.report) \subseteq LimitsOf(new.report)
  /\ old.vex \subseteq new.vex
  /\ old.revoke <= new.revoke
  /\ KeepsRecord(old.dep, new.dep)

\* A hold is stamped with its first time, and only a hold is.
HoldStamped(d) ==
  \A g \in Registry : d.regs[g].held = 0 <=> d.regs[g].first = 0

=============================================================================
