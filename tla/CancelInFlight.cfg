SPECIFICATION Spec
CONSTANTS
    n = n
    a = a
    b = b
    c = c
    NoPdu = NoPdu
    BreakPdu = BreakPdu
    Pdus = {n, a, b}
    Negotiates = {n}
    CallerFrees = {}
    Charges = {1}
    Dialects = {2}
    Timeout = 1
    Grants = {2}
    Liberties = {"cancel_receiving", "cancel_in_sweep"}
    MaxFrame = 2
    MaxCredits = 4
    MaxMid = 8
    MaxTime = 4
INVARIANT CancelSafe
CHECK_DEADLOCK FALSE
