----------------------------- MODULE MCPresence -----------------------------
(* Instances of Presence for TLC. *)
EXTENDS Presence, TLC

CONSTANTS n1, n2, u1, u2

(* One agent; Central has no source of its own. *)
TwoEpochs == (n1 :> 2) @@ (Central :> 1)
ThreeEpochs == (n1 :> 3) @@ (Central :> 1)
ThreeSamples == (n1 :> 3) @@ (Central :> 0)

(* Two agents and Central's own source. *)
OneEpochEach == [n \in Nodes |-> 1]
OneSampleEach == [n \in Nodes |-> 1]

(* Accounts are interchangeable. *)
Accounts == Permutations(Users)
=============================================================================
