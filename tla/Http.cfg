\* Hand-off, login, registration and exchanges, three requests.
SPECIFICATION Spec
CONSTANTS
    pub = pub
    priv = priv
    Addr = {pub, priv}
    Private = {priv}
    Token = {"tk"}
    MaxFailures = 1
    Threshold = 2
    NoEntry = NoEntry
    NoHeader = NoHeader
    Malformed = Malformed
    r1 = r1
    r2 = r2
    Req = {r1, r2, r3}
    Ask <- AllAsks
    Setup <- Setups
    Http = {"h1", "h2", "h3"}
    QueueSize = 1
INVARIANTS AdmittedByRules NothingLeft LockNeedsBurst ServedIsOpen NobodyForgets
PROPERTIES LockLasts 
CHECK_DEADLOCK FALSE
