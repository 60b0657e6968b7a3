---------------------------- MODULE MCVersionAxis ----------------------------
(* VersionAxis on a toolchain, a module with a nested one, and two packages  *)
(* of a plugin; three versions.                                              *)
EXTENDS VersionAxis, TLC

CONSTANTS stdlib, net, http, npm, npm2

R(lo, hi, last, odd) == [lo |-> lo, hi |-> hi, last |-> last, odd |-> odd]

\* None; fixed in 2; from 2 on; a commit range.
TheRanges == {{}, {R(0, 2, FALSE, {})}, {R(2, 0, FALSE, {})}, {R(1, 2, FALSE, {"lo", "hi"})}}

Of(es, e) == [entries |-> es, primary |-> e, trusted |-> TRUE]
EntriesOf(ps) == [pkg : ps, ranges : TheRanges]
Fixed(p) == [pkg |-> p, ranges |-> {R(0, 2, FALSE, {})}]

\* Advisories of no entries, of two, and of three: one package named twice, or
\* every Go package once.
TheAdvisories ==
  {Of(<<>>, e) : e \in EntriesOf(Package)}
    \cup UNION {{Of(<<e, f>>, e) : e, f \in EntriesOf(lane)} : lane \in {Package \ Coordinate, Coordinate}}
    \cup {Of(<<Fixed(stdlib), Fixed(net), e>>, e) : e \in EntriesOf({net, http})}

\* net's name is a prefix of http's paths.
TheOwned ==
  [p \in Package |-> [q \in Package |->
     CASE p = q -> 2 [] p = net /\ q = http -> 1 [] OTHER -> 0]]
=============================================================================
