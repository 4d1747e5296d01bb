\* What the guide says of the counters, which deleted accounts and overlaps break.
CONSTANTS
    alice = alice
    bob = bob
    carol = carol
    c1 = c1
    c2 = c2
    c3 = c3
    c4 = c4
    c5 = c5
    Users <- MCUsers
    Pairs <- MCPairs
    NoPair = NoPair
    Calls <- MCCalls
    Caller <- MCCaller
    MuteRequests = {}
    MuteActivity = {carol}
    MaxOverlaps = 2
SYMMETRY Interchangeable
SPECIFICATION Spec
INVARIANT CountersAreFollows
