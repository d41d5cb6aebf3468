SPECIFICATION Spec
CONSTANTS
    Lengths = {0, 9}
    MaxChain = 2
    MaxEntries = 3
    Names <- MCNames
    Texts <- MCTexts
    Utf16s <- MCUtf16s
INVARIANTS
    InStep
    
    DataSurvives
CHECK_DEADLOCK FALSE
