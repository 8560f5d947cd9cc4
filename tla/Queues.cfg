\* Three jobs on two workers; two data frames and a control frame.
SPECIFICATION MCSpec
CONSTANTS
    f1 = f1  f2 = f2  c1 = c1
    Job = {j1, j2, j3}
    Worker = {w1, w2}
    QueueSize = 1
    None = None
    Data = {f1, f2}
    Control = {c1, c2}
    DataCap = 1
    ControlCap = 1
    MaxBatch = 2
    LowDepth = 0
    Beat = Beat
    NoFrame = NoFrame
    MaxToggles = 2
INVARIANTS CloseWaitsForQueued CountedOnce InOrder
PROPERTIES EveryJobRuns ConnectionEnds 
CHECK_DEADLOCK FALSE
