--------------------------- MODULE MCFollowGraph ---------------------------
(* FollowGraph where alice and carol may follow bob; alice and bob have    *)
(* two calls each, from a second device or a client that did not wait.     *)
EXTENDS FollowGraph, TLC

CONSTANTS alice, bob, carol, c1, c2, c3, c4, c5

MCUsers  == {alice, bob, carol}
MCPairs  == {<<alice, bob>>, <<carol, bob>>}
MCCalls  == {c1, c2, c3, c4, c5}
MCCaller == (c1 :> alice @@ c2 :> alice @@ c3 :> bob @@ c4 :> carol @@ c5 :> bob)

(* The two calls of a user are interchangeable. *)
Interchangeable == Permutations({c1, c2}) \cup Permutations({c3, c5})
=============================================================================
