SPECIFICATION PollSpec
CONSTANTS
    Procs = {serve, once}
    Once = {once}
    Hashes = {h1}
    Bad = bad
    Faults = {}
    MaxLegacy = 0
    MaxBatch = 1
    MaxLines = 2
    MaxVersions = 2
    MaxDelay = 1
    MaxClock = 3
CHECK_DEADLOCK FALSE
INVARIANTS
    ValidatorImpliesServed
