\* The pool while the primary lives: three sessions, every load band.
SPECIFICATION Spec
CONSTANTS
    D <- Two
    MinSessions = 1
    MaxSessions = 3
    InitialSessions = 2
    Capacity = 2
    MaxBurst = 4
    MaxStreams = 3
    Mortal <- DataDies
    MayClose = FALSE
    MaySilent = FALSE
INVARIANTS PoolBound
CHECK_DEADLOCK FALSE
