SPECIFICATION Spec
CONSTANTS
    Hashes = {h1, h2}
    Junk = junk
    Garbled = garbled
    Down = down
    Faults = {"append", "torn", "close", "compact", "sync", "crash"}
    CompactMin = 2
    CompactRatio = 2
    TicksPerSecond = 2
    MaxClock = 11
CHECK_DEADLOCK FALSE
INVARIANTS
    TypeOK
PROPERTIES
    DamageLocal
