\* The drip server again: is a drawn name free when it is registered?
SPECIFICATION Spec
CONSTANTS
    s1 = s1  s2 = s2  s3 = s3
    Session = {s1, s2, s3}
    None = None
    NoIP = NoIP
    NoName = NoName
    IP <- Nobody
    RemoteIP <- NoAddress
    Subdomain <- Names
    Request <- AnyName
    ShortNames <- Draws
    LongNames <- Fallback
    Invalid <- Nobody
    Reserved <- ReservedName
    NumShards = 1
    ShardOf <- OneShard
    MaxTunnels = 2
    MaxTunnelsPerIP = 1
    RateLimit = 1
    MaxAttempts = 2
    CleanupTask = FALSE
    MayShutdown = FALSE
PROPERTIES RandomSubdomainUnique
CHECK_DEADLOCK FALSE
