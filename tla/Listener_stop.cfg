\* Two TCP connections and a WebSocket tunnel, a queue of one.
SPECIFICATION FairSpec
CONSTANTS
    t1 = t1  t2 = t2  t3 = t3  w1 = w1  w2 = w2
    Conn = {t1, t2, w1}
    WS = {w1}
    Key <- OneHost
    Worker = {wk1}
    QueueSize = 1
    None = None
INVARIANTS StopWaitsForHandlers TableExact
PROPERTIES StopReturns
CHECK_DEADLOCK FALSE
