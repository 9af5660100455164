SPECIFICATION FairSpec
CONSTANTS
    Producers = {p1, p2}
    Logs = {m1, m2, m3, m4}
    COUNT_THRESHOLD = 1
    Spurious = TRUE
    LateLogs = TRUE
INVARIANTS
    TypeOK
    FirstInFirstOut
    RemainingLogRecorded
PROPERTIES
    OverfullQueueFlushed
CHECK_DEADLOCK FALSE
