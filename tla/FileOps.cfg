SPECIFICATION Spec
CONSTANTS
    Ops = {o1, o2}
    Handles = {h1}
    Counts = {131073}
    Credits = {0, 1}
    MaxSize = 131072
    DirSize = 2
    MaxOffset = 1
    NULL = NULL
SYMMETRY Symmetry
INVARIANTS
    MemoryHeld
    SuccessIsTrue
    ListingWhole
    TransferFits
CHECK_DEADLOCK FALSE
