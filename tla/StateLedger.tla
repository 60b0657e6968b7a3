----------------------------- MODULE StateLedger ----------------------------
(***************************************************************************)
(* What the state ref promises whoever reads it, with no writer in sight:  *)
(* a history that only grows, one commit at a time, each commit keeping    *)
(* the VEX log and the foreign entries of the one before, until the whole  *)
(* ref is deleted.  StateStore implements it with ledger <- ref.           *)
(***************************************************************************)
EXTENDS Naturals

CONSTANT NoCommit

VARIABLE ledger   \* the newest commit, [depth, tree]

Init == ledger = NoCommit

\* The log is append-only, and entries of other versions are never dropped.
Succeeds(old, new) ==
  /\ old.content.vex \subseteq new.content.vex
  /\ old.extra \subseteq new.extra

Extend ==
  /\ ledger'.depth = ledger.depth + 1
  /\ Succeeds(ledger.tree, ledger'.tree)

Delete == ledger' = NoCommit

Next == Extend \/ Delete

Spec == Init /\ [][Next]_ledger

=============================================================================
