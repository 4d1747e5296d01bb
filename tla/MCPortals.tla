----------------------------- MODULE MCPortals -----------------------------
(* Portals on a small instance: two portals, two names of which one is    *)
(* spelt in two ways, and a post.                                          *)
EXTENDS Portals, TLC

CONSTANTS p1, p2, trips, TRIPS, food, post, a1, a2, o1, o2

MCFolded == (trips :> trips @@ TRIPS :> trips @@ food :> food)

(* Portals and calls are interchangeable. *)
Interchangeable ==
    Permutations({p1, p2}) \cup Permutations({a1, a2}) \cup Permutations({o1, o2})
=============================================================================
