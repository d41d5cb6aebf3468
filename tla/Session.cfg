SPECIFICATION FairSpec
CONSTANTS
    MaxOps = 4
    Dialects = {300, 311}
    TreeIds = {1, 2}
    MaxTree = 3
    MaxRounds = 2
    MaxMid = 4
INVARIANTS
    EndsOnce
    KeysAgree
    SignedWithOwn
    RepliesMatched
    TreesConnected
PROPERTY
    EventuallyEnds
CHECK_DEADLOCK FALSE
