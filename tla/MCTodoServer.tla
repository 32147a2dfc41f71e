---------------------------- MODULE MCTodoServer ----------------------------
(* Small processes for TLC: peer a with pages p and q, and a peer b.        *)
EXTENDS TodoServer, TLC

CONSTANTS a, b, p, q, t1, none, fwd

PeerA    == {a, b}
BothPages == {p, q}

(* The list of b after its first add, and after a second one. *)
FirstOfB  == Add(NewState, b, 2, 1, t1)
SecondOfB == Add(FirstOfB, b, 2, 2, t1)
OneFrame  == {FirstOfB}
TwoFrames == {FirstOfB, SecondOfB}
NoFrames  == {}

PSends3   == (p :> 3) @@ (q :> 0)
PSends1   == (p :> 1) @@ (q :> 0)
NoSends   == (p :> 0) @@ (q :> 0)
=============================================================================
