SPECIFICATION Spec
CONSTANTS
    Hashes = {h1, h2}
    Junk = junk
    Garbled = garbled
    Down = down
    Faults = {"append", "compact", "crash"}
    CompactMin = 2
    CompactRatio = 2
    TicksPerSecond = 2
    MaxClock = 15
CHECK_DEADLOCK FALSE
INVARIANTS
    FlagsDurable
    CountersExact
PROPERTIES
    LogBounded
    ImplementsFlagStore
