--------------------------- MODULE MCRegistration ---------------------------
(* Registration on a small instance: root invites three, ann one; two     *)
(* calls compete for three names.                                          *)
EXTENDS Registration, TLC

CONSTANTS root, ann, ben, i1, i2, c1, c2

MCCreator == (i1 :> root @@ i2 :> ann)
MCMaxUses == (i1 :> 3 @@ i2 :> 1)

(* Calls are interchangeable. *)
Interchangeable == Permutations({c1, c2})
=============================================================================
