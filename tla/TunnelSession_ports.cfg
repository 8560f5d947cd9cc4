\* Three tunnels that want the same names and ports, or one of them and a data
\* connection, and Stop.
SPECIFICATION Spec
CONSTANTS
    t1 = t1  t2 = t2  h = h  d1 = d1
    Primary = {t1, t2, h}
    Data = {d1}
    TCP = {t1, t2}
    Pooled = {t1}
    Custom <- Wants
    PrimaryOf <- JoinsT1
    Name <- Names
    Port <- Ports
    TcpName <- TcpNames
    Busy = {}
    MayStop = TRUE
    None = None
INVARIANTS PortLease ProxyOwnsPort UpIsComplete NoLeak
CONSTRAINT OneCrowd
CHECK_DEADLOCK FALSE
