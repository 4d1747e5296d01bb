\* Two comments on two posts by two users, deleted while others reply.
CONSTANTS
    alice = alice
    bob = bob
    carol = carol
    p1 = p1
    p2 = p2
    k1 = k1
    k2 = k2
    c1 = c1
    c2 = c2
    Users = {alice, bob, carol}
    Posts = {p1, p2}
    Comments = {k1, k2}
    Nothing = Nothing
    PostAuthor <- MCPostAuthor
    Calls = {c1, c2}
    Caller <- MCCaller
    Fickle <- MCFickle
    Doomed = {p2}
    MaxConnections = 2
SYMMETRY Interchangeable
SPECIFICATION Spec
INVARIANTS
    CommentCountsExact
    ThreadsStayOnPost
    NotifiedOnce
    StuckInPoolOnly
