SPECIFICATION Spec
CONSTANTS
    NCalls = 2
    Kinds = {"connect", "disconnect"}
    Timeout = TRUE
INVARIANT
    DisconnectWaits
CHECK_DEADLOCK FALSE
