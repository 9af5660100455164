CONSTANTS
    Workers = {w1, w2}
    MaxFiles = 3
SPECIFICATION FairSpec
INVARIANTS
    TypeOK
    EachFileOnce
    ExitZeroMeansClean
PROPERTY EndsUnlessStuck
CHECK_DEADLOCK FALSE
