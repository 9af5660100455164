SPECIFICATION Spec
CONSTANTS
    Threads = {t1}
    Urls = {u1, u2, u3}
    Nodes = {n1, n2, n3}
    Header = Header
    Tailer = Tailer
    None = None
    Sizes <- MCSizes
    Capacity = 3
    Word = 16
    MayClear = TRUE
SYMMETRY Symmetry
INVARIANTS
    TypeOK
    ListInOrderOfUse
    OccupancyExact
PROPERTIES
    ImplementsLRU
