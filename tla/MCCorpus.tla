------------------------------ MODULE MCCorpus ------------------------------
(* Corpus with two callers and two manifests that pin every document anew. *)
EXTENDS Corpus, TLC

CONSTANTS a1, a2, d1, d2, c1, c2

TheManifests == {[a \in Advisory |-> d] : d \in Digest}

CallerSymmetry == Permutations(Caller)
=============================================================================
