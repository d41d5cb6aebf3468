SPECIFICATION FairSpec
CONSTANTS
    NAddrs = 4
    MaxFd = 5
    MaxConnects = 2
    SockSize = 4
INVARIANTS
    ReportedOnce
    ArrayBound
    SocketsAccounted
PROPERTY
    EventuallyReported
CHECK_DEADLOCK FALSE
