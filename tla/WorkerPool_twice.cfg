\* Three jobs, one worker: what a caller does with a job it was refused.
SPECIFICATION FairSpec
CONSTANTS
    Job = {j1, j2, j3}
    Worker = {w1}
    QueueSize = 1
    None = None
INVARIANTS RefusedRunsOnce
CHECK_DEADLOCK FALSE
