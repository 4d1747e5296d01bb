\* A post of alice is fanned out while bob and carol follow and unfollow her.
CONSTANTS
    alice = alice
    bob = bob
    carol = carol
    p1 = p1
    Users = {alice, bob, carol}
    Posts <- OnePost
    Author <- OneAuthor
    Pairs <- BothFollow
    MaxAttempts = 2
SPECIFICATION Spec
INVARIANTS
    FollowersServed
    EntriesHaveReason
    NotifiedOncePerPost
PROPERTY ImplementsLifecycle
