CONSTANTS
    Conns = {c1}
    FileCommands = {"ECHO", "CREATE", "CLOSE", "FLUSH", "READ", "WRITE", "LOCK", "IOCTL", "QUERY_DIRECTORY", "CHANGE_NOTIFY", "QUERY_INFO", "SET_INFO", "OPLOCK_BREAK"}
    LongCommands = {"READ"}
    MaxRequests = 4
    FewRequests = 3
    MaxLogins = 6
    MaxNest = 2
    NULL = NULL
SPECIFICATION Spec

CHECK_DEADLOCK FALSE
INVARIANTS
    RepliesMatched
    NoneForgotten
    TreeOfRequest
