------------------------------- MODULE HandOff -------------------------------
(***************************************************************************)
(* How an HTTP connection changes hands on the tunnel port: the handler of *)
(* the connection (internal/server/tcp/http_request_handler.go and         *)
(* connection.go) puts it into a queue (http_conn_listener.go), from which *)
(* the http.Server accepts, and marks it handed off, so that nobody on the *)
(* tunnel side closes it.  Listener.Stop shuts the server down, which      *)
(* closes the queue, and closes every connection still in its table.       *)
(***************************************************************************)
EXTENDS Integers, FiniteSets

CONSTANTS
    Http,       \* HTTP connections
    QueueSize   \* buffer of the queue (4096)

ASSUME HandOffAssumption == IsFiniteSet(Http) /\ QueueSize \in Nat \ {0}

VARIABLES
    hand,       \* handler: "none", "check", "send", "mark", "close", "leave", "done"
    table,      \* Listener.connections
    queue,      \* conns of the queue
    handedOff,  \* connections marked
    onced,      \* connections whose Close has run
    cut,        \* connections closed on the tunnel side
    http,       \* the server's side: "no", "serving", "over"
    qclosed,    \* the closed flag of the queue
    drained,    \* done is closed and drain has run
    serve,      \* Serve is accepting
    hstop,      \* Stop: "no", "shutdown", "close", "waits"
    gauge       \* activeConnections of protocol.AdaptivePoolManager

handvars == <<hand, table, queue, handedOff, onced, cut, http, qclosed, drained,
              serve, hstop, gauge>>

HandInit ==
    /\ hand = [c \in Http |-> "none"] /\ table = {} /\ queue = {} /\ handedOff = {}
    /\ onced = {} /\ cut = {} /\ http = [c \in Http |-> "no"]
    /\ qclosed = FALSE /\ drained = FALSE /\ serve = TRUE /\ hstop = "no" /\ gauge = 0

HTo(c, step) == hand' = [hand EXCEPT ![c] = step]

-----------------------------------------------------------------------------
(* The handler                                                             *)

\* handleConnection enters it in the table; Handle counts it and peeks.
Handle(c) ==
    /\ hand[c] = "none" /\ hstop \in {"no", "shutdown"}
    /\ HTo(c, "check") /\ table' = table \cup {c} /\ gauge' = gauge + 1
    /\ UNCHANGED <<queue, handedOff, onced, cut, http, qclosed, drained, serve, hstop>>

\* Enqueue looks at the closed flag; a refused connection gets a 503.
EnqueueCheck(c) ==
    /\ hand[c] = "check" /\ HTo(c, IF qclosed THEN "close" ELSE "send")
    /\ UNCHANGED <<table, queue, handedOff, onced, cut, http, qclosed, drained, serve, hstop, gauge>>

\* Wrong variant: it is marked although the queue is full.
Mut_EnqueueSend(c) ==
    /\ hand[c] = "send"
    /\ HTo(c, "mark")
    /\ queue' = IF Cardinality(queue) < QueueSize THEN queue \cup {c} ELSE queue
    /\ UNCHANGED <<table, handedOff, onced, cut, http, qclosed, drained, serve, hstop, gauge>>

EnqueueSend(c) ==
    /\ hand[c] = "send"
    /\ IF Cardinality(queue) < QueueSize
       THEN HTo(c, "mark") /\ queue' = queue \cup {c}
       ELSE HTo(c, "close") /\ UNCHANGED queue
    /\ UNCHANGED <<table, handedOff, onced, cut, http, qclosed, drained, serve, hstop, gauge>>

MarkHandedOff(c) ==
    /\ hand[c] = "mark" /\ handedOff' = handedOff \cup {c} /\ HTo(c, "close")
    /\ UNCHANGED <<table, queue, onced, cut, http, qclosed, drained, serve, hstop, gauge>>

\* Wrong variant: the flag is not looked at.
Mut_CloseConn(c) ==
    /\ onced' = onced \cup {c}
    /\ IF c \in onced THEN UNCHANGED <<cut, gauge>>
       ELSE cut' = cut \cup {c} /\ gauge' = gauge - 1

\* Connection.Close: once; a connection handed off stays open, and counted.
CloseConn(c) ==
    /\ onced' = onced \cup {c}
    /\ IF c \in onced \cup handedOff THEN UNCHANGED <<cut, gauge>>
       ELSE cut' = cut \cup {c} /\ gauge' = gauge - 1

\* The deferred Close of Handle.
HandleReturns(c) ==
    /\ hand[c] = "close" /\ CloseConn(c) /\ HTo(c, "leave")
    /\ UNCHANGED <<table, queue, handedOff, http, qclosed, drained, serve, hstop>>

\* The deferred function of handleConnection.
Leave(c) ==
    /\ hand[c] = "leave" /\ HTo(c, "done") /\ table' = table \ {c}
    /\ cut' = IF c \in handedOff THEN cut ELSE cut \cup {c}
    /\ UNCHANGED <<queue, handedOff, onced, http, qclosed, drained, serve, hstop, gauge>>

-----------------------------------------------------------------------------
(* The http.Server                                                         *)

\* Accept takes from the queue; when done is closed too it may still do so.
ServerAccepts(c) ==
    /\ serve /\ c \in queue
    /\ queue' = queue \ {c} /\ http' = [http EXCEPT ![c] = "serving"]
    /\ UNCHANGED <<hand, table, handedOff, onced, cut, qclosed, drained, serve, hstop, gauge>>

\* The last response, an idle timeout, or the connection's end.
ServerCloses(c) ==
    /\ http[c] = "serving" /\ http' = [http EXCEPT ![c] = "over"]
    /\ UNCHANGED <<hand, table, queue, handedOff, onced, cut, qclosed, drained, serve, hstop, gauge>>

ServeReturns ==
    /\ serve /\ qclosed /\ serve' = FALSE
    /\ UNCHANGED <<hand, table, queue, handedOff, onced, cut, http, qclosed, drained, hstop, gauge>>

-----------------------------------------------------------------------------
(* Stop                                                                    *)

\* Shutdown closes the listeners first: the flag,
StopShutdown ==
    /\ hstop = "no" /\ hstop' = "shutdown" /\ qclosed' = TRUE
    /\ UNCHANGED <<hand, table, queue, handedOff, onced, cut, http, drained, serve, gauge>>

\* done, and drain, which closes what is queued.
QueueDrain ==
    /\ qclosed /\ ~drained /\ drained' = TRUE
    /\ queue' = {} /\ http' = [c \in Http |-> IF c \in queue THEN "over" ELSE http[c]]
    /\ UNCHANGED <<hand, table, handedOff, onced, cut, qclosed, serve, hstop, gauge>>

\* It waits for the server's connections, thirty seconds at most; then the
\* listener is closed and the table is swept under its lock.
StopCloses(c) ==
    /\ hstop \in {"shutdown", "close"} /\ drained /\ c \in table \ onced
    /\ hstop' = "close" /\ CloseConn(c)
    /\ UNCHANGED <<hand, table, queue, handedOff, http, qclosed, drained, serve>>

StopSwept ==
    /\ hstop \in {"shutdown", "close"} /\ drained /\ table \subseteq onced /\ hstop' = "waits"
    /\ UNCHANGED <<hand, table, queue, handedOff, onced, cut, http, qclosed, drained, serve, gauge>>

-----------------------------------------------------------------------------
HandOffStep ==
    \/ ServeReturns \/ StopShutdown \/ QueueDrain \/ StopSwept
    \/ \E c \in Http : Handle(c) \/ EnqueueCheck(c) \/ EnqueueSend(c) \/ MarkHandedOff(c)
                    \/ HandleReturns(c) \/ Leave(c) \/ ServerAccepts(c) \/ ServerCloses(c)
                    \/ StopCloses(c)

\* Only Stop takes a connection away from the HTTP server, and only one that
\* it found between the queue and the mark.
ServedIsOpen ==
    \A c \in Http : http[c] = "serving" /\ c \in cut => hstop # "no" /\ c \in onced
=============================================================================
