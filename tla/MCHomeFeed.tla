----------------------------- MODULE MCHomeFeed -----------------------------
(* HomeFeed on a small instance: alice posts, bob and carol may follow.    *)
EXTENDS HomeFeed

CONSTANTS alice, bob, carol, p1

OnePost    == {p1}
OneAuthor  == [p \in OnePost |-> alice]
BothFollow == {<<bob, alice>>, <<carol, alice>>}
=============================================================================
