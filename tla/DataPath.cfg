SPECIFICATION FairSpec
CONSTANTS
    Data = {d1, d2}
    Primary = primary
    Conn = {"c1", "c2"}
    Opener = {"c1", "c2"}
    StreamCap = 1
    MaxRetries = 2
    MaxFailures = 2
    StaleRounds = 3
    None = None
    Chunks <- OneChunk
    Allowed = {"c1", "c2"}
    MaxConns = 1
INVARIANTS OrphanOnlyInBuffer DrainedIsQuiet  SteadyServes
PROPERTIES  HandlersReturn
CHECK_DEADLOCK FALSE
