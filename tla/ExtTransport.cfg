CONSTANTS
    Shapes <- MCShapes
    Timeouts = {0, 1}
    MaxRequests = 2
    MaxHandles = 2
    MaxConns = 2
    MaxDepth = 2
    MaxNow = 3
    MaxPoll = 2
SPECIFICATION Spec
CHECK_DEADLOCK FALSE
INVARIANTS
    HandleRespected
    WireWhole
    WakesInTime
