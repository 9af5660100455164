CONSTANTS
    Loops = {l1, l2}
    Clients = {c1, c2}
    Fds = {f1, f2, f3}
    Conns = {p1, p2}
    None = None
    Main = Main
    ResultFile = ResultFile
    Steady = {}
    PollSize = 1
    MaxRx = 1
    MaxReqs = 1
    CgiEnabled = TRUE
    CtlMayFail = FALSE
SPECIFICATION Spec
SYMMETRY Symmetry
INVARIANT NoDanglingEvent
