----------------------------- MODULE MCRestStore -----------------------------
(* RestStore on two writers, one advisory and one report, which both may   *)
(* write: so the same commit can be made twice.                            *)
EXTENDS RestStore, TLC

CONSTANTS a1, osv, migrated, npm, cut, sbom1, empty, w1, w2

Scan ==
  [ts |-> 1, cursor |-> {}, sbom |-> sbom1, digest |-> NoDigest,
   rows |-> [k \in Key |-> IF k.source = osv THEN "refuted" ELSE "none"],
   limits |-> {cut}, notes |-> {}]

\* Writers run the same steps.
WriterSymmetry == Permutations(Writer)

OneScan == {Scan}
=============================================================================
