SPECIFICATION ReaderSpec
CONSTANTS
    Hashes = {1, 2, 3}
    Feeds = {{1}, {2, 3}}
    Junk = junk
    Garbled = garbled
    Down = down
    NoBody = nobody
    SlowRestart = FALSE
    Faults = {"append", "crash"}
    CompactMin = 32
    CompactRatio = 10
    TicksPerSecond = 2
    MaxClock = 12
    FutureDated = {2}
    PageSize = 1
CHECK_DEADLOCK FALSE
INVARIANTS
    ReaderTypeOK
    SyncComplete
    MarksOnlySeen
    OkMeansDurable
