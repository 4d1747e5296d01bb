\* alice logs in on two devices and refreshes, while she is suspended and back.
CONSTANTS
    alice = alice
    s1 = s1
    s2 = s2
    c1 = c1
    c2 = c2
    c3 = c3
    a1 = a1
    a2 = a2
    Users = {alice}
    Nobody = Nobody
    Sessions = {s1, s2}
    Owner <- MCOwner
    Calls = {c1, c2, c3}
    SessionOf <- MCSessionOf
    Admins = {a1, a2}
    MaxTokens = 3
SPECIFICATION Spec
\* Once her account is deleted and her devices know it, nothing is left to do.
CHECK_DEADLOCK FALSE
INVARIANTS
    ClientsKeepUp
    SuspendedAreOut
PROPERTIES
    RevokedForGood
