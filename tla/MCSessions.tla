----------------------------- MODULE MCSessions -----------------------------
(* Sessions on a small instance: two devices of alice, one of which may    *)
(* have two calls in flight, and two admins.                               *)
EXTENDS Sessions, TLC

CONSTANTS alice, s1, s2, c1, c2, c3, a1, a2

MCOwner     == (s1 :> alice @@ s2 :> alice)
MCSessionOf == (c1 :> s1 @@ c2 :> s1 @@ c3 :> s2)
=============================================================================
