SPECIFICATION FairSpec
CONSTANTS
    n = n
    a = a
    b = b
    c = c
    NoPdu = NoPdu
    BreakPdu = BreakPdu
    Pdus = {n, a, b}
    Negotiates = {n}
    CallerFrees = {b}
    Charges = {1, 2}
    Dialects = {1, 2}
    Timeout = 1
    Grants = {2}
    Liberties = {"cancel_receiving", "cancel_in_sweep", "free_after_abort"}
    MaxFrame = 2
    MaxCredits = 4
    MaxMid = 8
    MaxTime = 4
INVARIANTS
    TypeOK
    
    
    NoLeftover
    CreditWindow
    MidsDisjoint
    CompoundInOrder
    
PROPERTIES
    
    EventuallyReleased
CHECK_DEADLOCK FALSE
