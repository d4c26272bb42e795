SPECIFICATION FairSpec
CONSTANTS
    Chans = {a, b}
    Pids = {p, q}
    Pty = {b}
    PipeCap = 1
    MaxOut = 1
CHECK_DEADLOCK FALSE
INVARIANTS
    ExitMatched
    OwnStatus
    OutputDrained
PROPERTIES
    ExitCloses
