CONSTANTS
    NPages = 20
    NLow = 2
    NVA = 3
    NProc = 4
    NInitial = 1
    Values = {0, 1}
    Remap = FALSE
    KillStale = FALSE
SPECIFICATION FairSpec
INVARIANTS RefcountsExact PrivatePages WholeTables NoPanic KeepsBusy ViewerRight
PROPERTIES ForkAllOrNothing ImplementsProcSpace RoundRobin
VIEW SansBoot
CHECK_DEADLOCK FALSE
