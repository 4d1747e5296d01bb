\* alice and carol follow bob, in overlapping calls; accounts are deleted.
CONSTANTS
    alice = alice
    bob = bob
    carol = carol
    c1 = c1
    c2 = c2
    c3 = c3
    c4 = c4
    c5 = c5
    Users <- MCUsers
    Pairs <- MCPairs
    NoPair = NoPair
    Calls <- MCCalls
    Caller <- MCCaller
    MuteRequests = {}
    MuteActivity = {carol}
    MaxOverlaps = 2
SYMMETRY Interchangeable
SPECIFICATION Spec
INVARIANTS
    CountersExact
    FeedFollowsGraph
    OneUnread
    UnreadIsPending
PROPERTIES
    NoDowngrade
    RequestNotifies
    SilencedByFollowee
