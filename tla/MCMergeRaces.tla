---------------------------- MODULE MCMergeRaces ----------------------------
(* MergeRaces on three racers and two advisories under two sources.        *)
EXTENDS MergeRaces, TLC

CONSTANTS a1, a2, osv, migrated, npm, cut, d1, sbom1, empty

Listing(listed) ==
  [regs |-> [g \in Registry |-> NeverFetched], reassess |-> listed]

\* A scan withholds its own listed advisories before it writes.
Scanned(ts, cursor, rows, digest, listed) ==
  LET r == [ts |-> ts, cursor |-> cursor, rows |-> rows, sbom |-> sbom1,
            digest |-> digest, limits |-> {}, notes |-> {}]
  IN Remerged([report |-> r, sbom |-> sbom1, cursor |-> cursor, vex |-> {},
               revoke |-> 0, dep |-> Listing(listed)])

\* At most one row, on the first advisory: under OSV, or migrated from a v1
\* report and unresolved.
OnFirst(source, v) == [k \in Key |-> IF k.id = a1 /\ k.source = source THEN v ELSE "none"]
Sourced == {OnFirst(osv, v) : v \in {"none", "reachable", "refuted"}}
Migrated == {OnFirst(migrated, "undetermined")}

\* Scans of every shape at two times.
EveryScan ==
  {Scanned(ts, cursor, rows, d, l) :
     ts \in 1..2, cursor \in {{}, {a1}}, rows \in Sourced \cup Migrated,
     d \in Digest, l \in {{}, {a1}}}

\* A scan that answered both advisories.
BothAnswered ==
  Scanned(1, {a1, a2}, [k \in Key |-> IF k.source = osv THEN "refuted" ELSE "none"], d1, {})

\* Heartbeats leave the report and write another cursor beside it: one that
\* emptied, and, beside a report without one, the current list.
Beat(c, cursor) == [c EXCEPT !.cursor = cursor]
Heartbeats ==
  {Beat(Scanned(1, {a1}, rows, d1, {}), {}) : rows \in Migrated}
    \cup {Beat(Scanned(ts, {}, OnFirst(osv, "reachable"), NoDigest, {}), cursor) :
            ts \in 1..2, cursor \in {{a1}, {a1, a2}}}

EveryWrite == EveryScan \cup {BothAnswered} \cup Heartbeats

RacerSymmetry == Permutations(Racer)
=============================================================================
