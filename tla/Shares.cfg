\* Two shares to one user, whose two devices another user registers as well.
CONSTANTS
    alice = alice
    bob = bob
    phone = phone
    tablet = tablet
    dev = dev
    prod = prod
    c1 = c1
    c2 = c2
    Users = {alice, bob}
    NoUser = NoUser
    Devices = {phone, tablet}
    Envs = {dev, prod}
    DefaultEnv = dev
    TrueEnv <- MCTrueEnv
    Calls = {c1, c2}
    Recipient <- MCRecipient
    NoTarget = NoTarget
    MaxTries = 2
SYMMETRY SharesAlike
SPECIFICATION SharesSpec
INVARIANTS
    SharesTypeOK
    NoticePerShare
    AskedOnce
PROPERTIES
    RevokedByLateAnswer
