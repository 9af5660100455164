SPECIFICATION Spec
CONSTANTS
    Threads = {t1, t2}
    Urls = {u1, u2}
    Nodes = {n1, n2}
    Header = Header
    Tailer = Tailer
    None = None
    Sizes = {1}
    Capacity = 1
    Word = 16
    MayClear = FALSE
INVARIANT
    EvictFindsNode
CHECK_DEADLOCK FALSE
