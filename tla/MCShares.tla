------------------------------ MODULE MCShares ------------------------------
EXTENDS Shares, TLC

CONSTANTS alice, bob, phone, tablet, dev, prod, c1, c2

(* Both shares go to alice, who passes her devices on to bob. *)
MCRecipient == (c1 :> alice) @@ (c2 :> alice)

SharesAlike == Permutations({c1, c2})

(* The tablet runs a build from the store; the server's default is dev. *)
MCTrueEnv == (phone :> dev) @@ (tablet :> prod)
=============================================================================
