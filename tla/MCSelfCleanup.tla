---------------------------- MODULE MCSelfCleanup ----------------------------
(* SelfCleanup on one or two runs at a time and no report data.            *)
EXTENDS SelfCleanup, TLC

CONSTANTS none, npm, empty, w1, w2

RunSymmetry == Permutations(Writer)
=============================================================================
