\* Two registrations overlap while invites are created, closed and deleted.
CONSTANTS
    root = root
    ann = ann
    ben = ben
    i1 = i1
    i2 = i2
    c1 = c1
    c2 = c2
    Names = {root, ann, ben}
    Founders = {root}
    Invites = {i1, i2}
    NoInvite = NoInvite
    Nobody = Nobody
    Creator <- MCCreator
    MaxUses <- MCMaxUses
    Calls = {c1, c2}
SYMMETRY Interchangeable
SPECIFICATION Spec
INVARIANTS
    InvitesHonoured
    ClosedInvitesEnd
