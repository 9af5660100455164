CONSTANTS
    Loops = {l1, l2}
    Clients = {c1, c2}
    Fds = {f1, f2}
    Conns = {p1, p2}
    None = None
    Main = Main
    ResultFile = ResultFile
    Steady = {c1}
    PollSize = 2
    MaxRx = 1
    MaxReqs = 1
    CgiEnabled = TRUE
    CtlMayFail = FALSE
SPECIFICATION FairSpec
INVARIANT MapRegistered
PROPERTIES
    EveryClientAccepted
    EveryExitReleased
    LoopReturnsToPoll
