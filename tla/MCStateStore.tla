---------------------------- MODULE MCStateStore ----------------------------
(* StateStore on two writers and one advisory under two sources.           *)
EXTENDS StateStore, TLC

CONSTANTS a1, osv, migrated, npm, cut, d1, sbom1, empty, w1, w2

\* An older scan that refuted the advisory under OSV and discloses a limit,
\* and a newer one that holds a row migrated from a v1 report.
Scan(ts, source, row, lims) ==
  [ts |-> ts, cursor |-> {}, sbom |-> sbom1, digest |-> d1,
   rows |-> [k \in Key |-> IF k.source = source THEN row ELSE "none"],
   limits |-> lims, notes |-> {}]

OldScan == Scan(1, osv, "refuted", {cut})
NewScan == Scan(2, migrated, "undetermined", {})
BothScans == {OldScan, NewScan}

\* A record of a registry that served, was held twice since, and lists the
\* advisory.
OneRecord ==
  {[regs |-> [g \in Registry |-> [served |-> TRUE, held |-> 2, first |-> 1]],
    reassess |-> {a1}]}
=============================================================================
