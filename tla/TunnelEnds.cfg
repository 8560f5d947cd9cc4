\* A pooled TCP tunnel with a data connection, and Stop; two daemons of one type
\* and port.
SPECIFICATION MCSpec
CONSTANTS
    t1 = t1  t2 = t2  h = h  d1 = d1
    Primary = {t1}
    Data = {d1}
    TCP = {t1}
    Pooled = {t1}
    Custom <- Wants
    PrimaryOf <- JoinsT1
    Name <- Names
    Port <- Ports
    TcpName <- TcpNames
    Busy = {2}
    MayStop = TRUE
    None = None
    Proc = {p1, p2}
    PID = {1, 2}
    Reused = {1}
    Command = {k1}
    MaxAttempts = 2
    NoFile = NoFile
    Torn = Torn
INVARIANTS  UpHasFile
PROPERTIES GoneEnds StopEnds
CHECK_DEADLOCK FALSE
