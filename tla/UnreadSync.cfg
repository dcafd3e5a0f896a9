SPECIFICATION SyncSpec
CONSTANTS
    h1 = h1
    h2 = h2
    Hashes <- TwoEntries
    Feeds <- TwoFeeds
    Junk = junk
    Garbled = garbled
    Down = down
    NoBody = nobody
    SlowRestart = TRUE
    Faults = {"append", "crash"}
    CompactMin = 32
    CompactRatio = 10
    TicksPerSecond = 3
    MaxClock = 11
SYMMETRY EntriesAlike
CHECK_DEADLOCK FALSE
INVARIANTS
    NoStale304
