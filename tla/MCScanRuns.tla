----------------------------- MODULE MCScanRuns -----------------------------
(* ScanRuns on one or two writers and one advisory.                        *)
EXTENDS ScanRuns, TLC

CONSTANTS a1, osv, migrated, npm, cut, empty, w1, w2

\* Every report and record the runs below can write.
AnyReport ==
  [ts: 1..MaxEvents, cursor: SUBSET Advisory, rows: [Key -> Row], sbom: Sbom,
   digest: Digest, limits: SUBSET Limit, notes: SUBSET Advisory]

AnyRecord ==
  {d \in [regs: [Registry -> [served: BOOLEAN, held: 0..MaxHeld, first: 0..MaxEvents]],
          reassess: SUBSET Advisory] : HoldStamped(d)}

Fetched(observed, source, t) ==
  [source |-> source, observed |-> observed, closed |-> FALSE,
   tally |-> [g \in Registry |-> t]]

ReadAll == Fetched(TRUE, "fetch", {"network"})
Stuck == Fetched(TRUE, "fetch", {"unavailable"})

\* A full read, and a registry that answers nothing (README, section 5, on runs
\* with dependency code off).
FetchOnly == {ReadAll, Stuck}

WriterSymmetry == Permutations(Writer)
=============================================================================
