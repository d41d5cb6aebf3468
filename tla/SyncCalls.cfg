SPECIFICATION FairSpec
CONSTANTS
    NCalls = 3
    Kinds = {"single", "compound", "fsync", "close", "open", "opendir",
             "notify", "enum", "connect", "disconnect"}
    Timeout = TRUE
INVARIANTS
    BlocksSafe
    BlocksFreed
    OwnSuccess
PROPERTY
    EventuallyReturns
CHECK_DEADLOCK FALSE
