----------------------------- MODULE MCRegistry -----------------------------
(* Two hosts, of which one is also known by a name; three devices.         *)
EXTENDS Registry, TLC

CONSTANTS quad1, quad2, name1

MCText == {quad1, quad2, name1}

MCHeard == (quad1 :> quad1) @@ (quad2 :> quad2) @@ (name1 :> quad1)

Symmetric == Permutations(Id) \cup Permutations(Block)
=============================================================================
