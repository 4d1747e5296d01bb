\* Portals are created, renamed and reordered by overlapping calls.
CONSTANTS
    p1 = p1
    p2 = p2
    trips = trips
    TRIPS = TRIPS
    food = food
    post = post
    a1 = a1
    a2 = a2
    o1 = o1
    o2 = o2
    Ids = {p1, p2}
    Names = {trips, TRIPS, food}
    Folded <- MCFolded
    PostIds = {post}
    Adders = {a1, a2}
    Orderers = {o1, o2}
    None = None
SYMMETRY Interchangeable
SPECIFICATION PortalsSpec
INVARIANTS
    PortalsTypeOK
    OrderIsTotal
    AddedByName
