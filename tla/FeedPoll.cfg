SPECIFICATION PollSpec
CONSTANTS
    Procs = {serve, once}
    Once = {once}
    Hashes = {h1, h2}
    Bad = bad
    Faults = {"open", "write", "torn", "crash"}
    MaxLegacy = 2
    MaxBatch = 2
    MaxLines = 3
    MaxVersions = 2
    MaxDelay = 2
    MaxClock = 4
CHECK_DEADLOCK FALSE
INVARIANTS
    PollTypeOK
    NoDuplicateLines
    IndexCoversDisk
    LossIsLoud
    ValidatorImpliesServedAlone
    ShownOnce
    HealthTold
