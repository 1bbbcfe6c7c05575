CONSTANTS
    NPages = 15
    NLow = 1
    NVA = 2
    NProc = 3
    NInitial = 1
    Values = {0}
    Remap = FALSE
    KillStale = TRUE
SPECIFICATION Spec
INVARIANTS NoPanic
CHECK_DEADLOCK FALSE
