CONSTANTS
    Workers = {w1, w2}
    Owner = Owner
    Tasks = {t1, t2}
    Endless = {}
    None = None
    Spurious = FALSE
SPECIFICATION FairSpec
PROPERTY DestructorReturns
CHECK_DEADLOCK FALSE
