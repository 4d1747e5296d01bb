------------------------------ MODULE MCLikes ------------------------------
(* Likes on a small instance: a post of alice, and a comment of bob under  *)
(* a post of somebody who stays; bob has two calls in flight.              *)
EXTENDS Likes, TLC

CONSTANTS alice, bob, post, comment, c1, c2, c3

MCAuthorOf == (post :> alice @@ comment :> bob)
MCGoesWith == (post :> {alice} @@ comment :> {bob})
MCCaller   == (c1 :> bob @@ c2 :> bob @@ c3 :> alice)
MCFickle   == {<<bob, post>>}

(* The two calls of bob are interchangeable. *)
Interchangeable == Permutations({c1, c2})
=============================================================================
