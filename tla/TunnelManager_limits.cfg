\* All of the manager: addresses, limits, cleanup task, Shutdown.
SPECIFICATION Spec
CONSTANTS
    s1 = s1  s2 = s2  s3 = s3
    Session = {s1, s2, s3}
    None = None
    NoIP = NoIP
    NoName = NoName
    IP <- IPs
    RemoteIP <- SharedIP
    Subdomain <- Names
    Request <- AnyRequest
    ShortNames <- Draws
    LongNames <- Fallback
    Invalid <- Nobody
    Reserved <- ReservedName
    NumShards = 2
    ShardOf <- TwoShards
    MaxTunnels = 2
    MaxTunnelsPerIP = 1
    RateLimit = 2
    MaxAttempts = 1
    CleanupTask = TRUE
    MayShutdown = TRUE
SYMMETRY Interchangeable
INVARIANTS NoSlotLeak EntryHasOwner
CHECK_DEADLOCK FALSE
