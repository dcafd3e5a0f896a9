SPECIFICATION LoginSpec
CONSTANTS
    Requests = {r1, r2}
    Legacy = {legacy}
    Keys = {k1}
    Absent = absent
    Faults = {"save", "crash"}
    MaxHashes = 2
    MaxSessions = 2
    MaxChallenges = 2
SYMMETRY RequestSymmetry
CHECK_DEADLOCK FALSE
INVARIANTS
    LoginTypeOK
    HandedHonoured
    RevokedForGood
    ChallengeSpent
    CounterNeverAhead
    PasskeysHonoured
    RemovedForGood
