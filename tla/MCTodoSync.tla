----------------------------- MODULE MCTodoSync -----------------------------
(* Small clusters for TLC. *)
EXTENDS TodoSync, Config, TLC

CONSTANTS a, b, c, t1, t2, none

(* "peer-1", "peer-2" and "peer-3" *)
PeerId == (a :> <<NoDigit, 1>>) @@ (b :> <<NoDigit, 2>>) @@ (c :> <<NoDigit, 3>>)

Replicas(peers) == [n \in peers |-> ReplicaIdOf(PeerId[n])]

TwoPeers    == {a, b}
OneWay      == {<<a, b>>}
BothWays    == {<<a, b>>, <<b, a>>}
TwoReplicas == Replicas(TwoPeers)

Each1       == (a :> 1) @@ (b :> 1)
Two1        == (a :> 2) @@ (b :> 1)
OnlyA1      == (a :> 1) @@ (b :> 0)
OnlyA2      == (a :> 2) @@ (b :> 0)
Never       == (a :> 0) @@ (b :> 0)

ThreePeers    == {a, b, c}
Chain         == {<<a, b>>, <<b, c>>}
ThreeReplicas == Replicas(ThreePeers)
ChainEdits    == (a :> 1) @@ (b :> 0) @@ (c :> 0)
MiddleOnce    == (a :> 0) @@ (b :> 1) @@ (c :> 0)

TextSymmetry == Permutations({t1, t2})
=============================================================================
