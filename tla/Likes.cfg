\* Overlapping likes and unlikes of a post and a comment; bob has two calls.
CONSTANTS
    alice = alice
    bob = bob
    post = post
    comment = comment
    c1 = c1
    c2 = c2
    c3 = c3
    Users = {alice, bob}
    Targets = {post, comment}
    Nothing = Nothing
    AuthorOf <- MCAuthorOf
    GoesWith <- MCGoesWith
    Calls = {c1, c2, c3}
    Caller <- MCCaller
    Fickle <- MCFickle
    MaxLikes = 2
SYMMETRY Interchangeable
SPECIFICATION Spec
INVARIANTS
    LikeCountExact
    LikeNotifiesOnce
