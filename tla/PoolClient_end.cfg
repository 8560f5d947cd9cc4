\* The end of the client: the primary and a data session, either may be lost.
SPECIFICATION FairSpec
CONSTANTS
    D <- One
    MinSessions = 2
    MaxSessions = 2
    InitialSessions = 2
    Capacity = 1
    MaxBurst = 4
    MaxStreams = 1
    Mortal <- AnyDies
    MayClose = TRUE
    MaySilent = TRUE
INVARIANTS OpenIsOwned WaitAfterClose
PROPERTIES PrimaryLossEnds
CHECK_DEADLOCK FALSE
