----------------------------- MODULE MCComments -----------------------------
(* Comments on a small instance: alice wrote p1 and bob p2; bob and carol  *)
(* comment, and carol's view of p1 may come and go.                        *)
EXTENDS Comments, TLC

CONSTANTS alice, bob, carol, p1, p2, k1, k2, c1, c2

MCPostAuthor == (p1 :> alice @@ p2 :> bob)
MCCaller     == (c1 :> bob @@ c2 :> carol)
MCFickle     == {<<carol, p1>>}

(* Identifiers of comments are interchangeable. *)
Interchangeable == Permutations({k1, k2})
=============================================================================
