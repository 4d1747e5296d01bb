\* The fan-out of a private post.
CONSTANTS
    alice = alice
    bob = bob
    carol = carol
    p1 = p1
    Users = {alice, bob, carol}
    Posts <- OnePost
    Author <- OneAuthor
    Pairs <- BothFollow
    MaxAttempts = 2
SPECIFICATION Spec
INVARIANT OnlyAllowedInFeed
