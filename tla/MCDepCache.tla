----------------------------- MODULE MCDepCache -----------------------------
(* DepCache with two overlapping runs over one or two pins.                *)
EXTENDS DepCache, TLC

CONSTANTS r1, r2, open, priv, w1, w2, w3

\* w1 and w3 fill the same pin; w2's package has an auth entry in r1.
TheRunOf == w1 :> r1 @@ w2 :> r1 @@ w3 :> r2
ThePinOf == w1 :> open @@ w2 :> priv @@ w3 :> open

\* w1's pin in any state in either directory; w2's left in the shared
\* one by a run that had no auth entry for it.
TheSeeds ==
  {e \in [Dir -> [Pin -> Bytes]] : e["read"][priv] = "absent" /\ e["shared"][priv] = "good"}
=============================================================================
