CONSTANTS
    Workers = {w1, w2, w3}
    Owner = Owner
    Tasks = {t1, t2, t3, t4}
    Endless = {t1, t2}
    None = None
    Spurious = TRUE
SPECIFICATION FairSpec
INVARIANTS
    TypeOK
    NoPopOfEmptyQueue
    NoTaskLostOrDuplicated
    DestroyedPoolIsDrained
PROPERTY EveryTaskStarts
CHECK_DEADLOCK FALSE
