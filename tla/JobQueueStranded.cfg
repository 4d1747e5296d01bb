\* One worker, one fault: what becomes of the batch it held.
CONSTANTS
    Jobs = {j1, j2}
    Workers = {w1}
    NoJob = NoJob
    BatchLimit = 1
    MaxAttempts = 2
    MaxFaults = 1
    MaxMisreads = 0
SPECIFICATION FairSpec
PROPERTY RunningEnds
