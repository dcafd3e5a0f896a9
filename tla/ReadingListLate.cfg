SPECIFICATION ReaderSpec
CONSTANTS
    Hashes = {1, 2}
    Feeds = {{1}, {2}}
    Junk = junk
    Garbled = garbled
    Down = down
    NoBody = nobody
    SlowRestart = FALSE
    Faults = {}
    CompactMin = 32
    CompactRatio = 10
    TicksPerSecond = 2
    MaxClock = 12
    FutureDated = {}
    PageSize = 2
CHECK_DEADLOCK FALSE
INVARIANTS
    ReadingListComplete
