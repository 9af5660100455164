CONSTANTS
    Loops = {l1, l2}
    Clients = {c1, c2, c3}
    Fds = {f1, f2}
    Conns = {p1, p2}
    None = None
    Main = Main
    ResultFile = ResultFile
    Steady = {}
    PollSize = 2
    MaxRx = 1
    MaxReqs = 1
    CgiEnabled = FALSE
    CtlMayFail = TRUE
SPECIFICATION Spec
SYMMETRY Symmetry
INVARIANTS
    TypeOK
    NoDanglingEvent
    LoopOwnsItsConnections
    DeleteFindsConnection
    HandoverSafe
    NoLeak
    NoStuckInput
PROPERTIES
    ImplementsSessions
