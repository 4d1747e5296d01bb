\* Two workers compete for three jobs that keep being renewed.
CONSTANTS
    Jobs = {j1, j2, j3}
    Workers = {w1, w2}
    NoJob = NoJob
    BatchLimit = 2
    MaxAttempts = 2
    MaxFaults = 1
    MaxMisreads = 1
SPECIFICATION FairSpec
INVARIANTS
    HeldOnce
    AttemptsBounded
PROPERTIES
    ImplementsLifecycle
    PendingSettles
