SPECIFICATION WebSpec
CONSTANTS
    Hashes = {h1, h2}
    Feeds = {{h1}, {h2}}
    Junk = junk
    Garbled = garbled
    Down = down
    NoBody = nobody
    SlowRestart = FALSE
    Faults = {"append"}
    CompactMin = 32
    CompactRatio = 10
    TicksPerSecond = 2
    MaxClock = 9
CHECK_DEADLOCK FALSE
INVARIANTS
    PageCurrent
