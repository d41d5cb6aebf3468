CONSTANTS
    Calls <- MCCalls
    FragmentSizes = {8, 40, 4096}
    NULL = NULL
SPECIFICATION Spec
CHECK_DEADLOCK FALSE
INVARIANTS
    CallEndsOnce
    ContextAccepted
    Understood
