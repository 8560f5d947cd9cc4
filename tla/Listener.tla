------------------------------- MODULE Listener -------------------------------
(***************************************************************************)
(* The server's TCP listener (internal/server/tcp/listener.go): the accept *)
(* loop that hands connections to the worker pool, the handlers, the table *)
(* of connections and Stop.  WebSocket tunnels enter through the HTTP      *)
(* server (HandleWSConnection), outside the pool, under the address of     *)
(* their client only.                                                      *)
(*                                                                         *)
(* A connection may get two handlers: Submit starts one and answers false  *)
(* when the queue is full, and the accept loop then starts another.        *)
(***************************************************************************)
EXTENDS Integers, Sequences, FiniteSets

CONSTANTS
    Conn,        \* connections that may arrive
    WS,          \* those that are WebSocket tunnels
    Key,         \* connection -> key in l.connections
    Worker, QueueSize, None

ASSUME ListenerAssumption ==
    /\ IsFiniteSet(Conn) /\ WS \subseteq Conn /\ None \notin Conn
    /\ DOMAIN Key = Conn

VARIABLES
    queue, busy, exited, direct, submit, closing, started,  \* the pool
    acc,         \* acceptLoop: "check", "accept", "submit", "exit"
    cur,         \* the connection acceptLoop holds
    arrived,     \* connections the network has delivered
    run,         \* handlers: run[c][k], k = 1 the pool's or the WebSocket
                 \* one, k = 2 the fallback of the accept loop
    table,       \* l.connections: key -> connection
    shut,        \* connections whose socket is closed on this side
    wg,          \* l.wg
    http,        \* whether the HTTP server runs
    stop         \* Stop: "no", "http", "listener", "sweep", "wait", "pool", "groups", "done"

poolVars == <<queue, busy, exited, direct, submit, closing, started>>
vars == <<poolVars, acc, cur, arrived, run, table, shut, wg, http, stop>>

Pool == INSTANCE WorkerPool
            WITH Job <- Conn \ WS, fallback <- [c \in Conn \ WS |-> run[c][2]], finished <- 0

Keys == {Key[c] : c \in Conn}

Init ==
    /\ queue = <<>> /\ busy = [w \in Worker |-> None] /\ exited = {} /\ direct = {}
    /\ submit = [c \in Conn \ WS |-> "no"] /\ closing = "open"
    /\ started = [c \in Conn \ WS |-> 0]
    /\ acc = "check" /\ cur = None /\ arrived = {}
    /\ run = [c \in Conn |-> [k \in {1, 2} |-> "none"]]
    /\ table = [x \in Keys |-> None]
    /\ shut = {}
    /\ wg = 2              \* Start: the HTTP server and acceptLoop
    /\ http = TRUE
    /\ stop = "no"

-----------------------------------------------------------------------------
(* acceptLoop                                                              *)

StopSignalled == stop # "no"
ListenerClosed == stop \in {"sweep", "wait", "pool", "groups", "done"}

\* A connection reaches the listener's backlog.
Arrive(c) ==
    /\ c \notin arrived /\ c \notin WS /\ ~ListenerClosed
    /\ arrived' = arrived \cup {c}
    /\ UNCHANGED <<poolVars, acc, cur, run, table, shut, wg, http, stop>>

AcceptCheck ==
    /\ acc = "check"
    /\ IF StopSignalled THEN acc' = "exit" /\ wg' = wg - 1
                        ELSE acc' = "accept" /\ UNCHANGED wg
    /\ UNCHANGED <<poolVars, cur, arrived, run, table, shut, http, stop>>

\* Accept, then wg.Add(1).
Accept(c) ==
    /\ acc = "accept" /\ ~ListenerClosed
    /\ c \in arrived \ WS /\ submit[c] = "no"
    /\ cur' = c /\ acc' = "submit" /\ wg' = wg + 1
    /\ UNCHANGED <<poolVars, arrived, run, table, shut, http, stop>>

\* The one-second deadline, or an error: of a closed listener it ends the loop.
AcceptFails ==
    /\ acc = "accept"
    /\ IF ListenerClosed THEN acc' = "exit" /\ wg' = wg - 1
                         ELSE acc' = "check" /\ UNCHANGED wg
    /\ UNCHANGED <<poolVars, cur, arrived, run, table, shut, http, stop>>

Start(c, k) == run' = [run EXCEPT ![c][k] = "handshake"]

\* workerPool.Submit.  SubmitPanic is left out: the pool is closed after wg.Wait
\* and the accept loop is counted in wg, so a send on the closed channel takes
\* two overflowed connections, each with one wg.Done too many.
AcceptSubmit ==
    /\ acc = "submit"
    /\ \/ /\ Pool!SubmitCheck(cur) \/ Pool!SubmitQueue(cur)
          /\ UNCHANGED run
       \/ Pool!SubmitOverflow(cur) /\ Start(cur, 1)
    /\ UNCHANGED <<acc, cur, arrived, table, shut, wg, http, stop>>

\* When Submit answered false, a goroutine of the accept loop's own.
AcceptNext ==
    /\ acc = "submit" /\ submit[cur] \in {"queued", "refused", "overflow"}
    /\ IF submit[cur] = "queued" THEN UNCHANGED run ELSE Start(cur, 2)
    /\ acc' = "check" /\ cur' = None
    /\ UNCHANGED <<poolVars, arrived, table, shut, wg, http, stop>>

-----------------------------------------------------------------------------
(* Workers and handlers                                                    *)

WorkerTakes(w) ==
    /\ Pool!Take(w)
    /\ Start(Head(queue), 1)
    /\ UNCHANGED <<acc, cur, arrived, table, shut, wg, http, stop>>

WorkerReturns(w) ==
    /\ busy[w] # None /\ run[busy[w]][1] = "ended"
    /\ Pool!JobReturns(w)
    /\ UNCHANGED <<acc, cur, arrived, run, table, shut, wg, http, stop>>

WorkerExits(w) ==
    /\ Pool!WorkerExit(w)
    /\ UNCHANGED <<acc, cur, arrived, run, table, shut, wg, http, stop>>

DirectReturns(c) ==
    /\ c \notin WS /\ run[c][1] = "ended"
    /\ Pool!DirectReturns(c)
    /\ UNCHANGED <<acc, cur, arrived, run, table, shut, wg, http, stop>>

\* Wrong variant: wg.Done is deferred only after the handshake.
Mut_HandshakeFails(c, k) ==
    /\ c \notin WS /\ run[c][k] = "handshake"
    /\ run' = [run EXCEPT ![c][k] = "ended"]
    /\ UNCHANGED <<poolVars, acc, cur, arrived, table, shut, wg, http, stop>>

\* The TLS handshake fails, or its ten-second deadline passes: the deferred
\* calls of handleConnection, and the socket is left open.
HandshakeFails(c, k) ==
    /\ c \notin WS /\ run[c][k] = "handshake"
    /\ run' = [run EXCEPT ![c][k] = "ended"]
    /\ wg' = wg - 1
    /\ UNCHANGED <<poolVars, acc, cur, arrived, table, shut, http, stop>>

\* l.connections[connID] = conn; Handle then serves the connection.
Register(c, k) ==
    /\ run[c][k] = "handshake"
    /\ run' = [run EXCEPT ![c][k] = "active"]
    /\ table' = [table EXCEPT ![Key[c]] = c]
    /\ UNCHANGED <<poolVars, acc, cur, arrived, shut, wg, http, stop>>

\* Wrong variant: the entry stays in the table.
Mut_HandleReturns(c, k) ==
    /\ run[c][k] = "active"
    /\ run' = [run EXCEPT ![c][k] = "deferred"]
    /\ shut' = shut \cup {c}
    /\ UNCHANGED <<poolVars, acc, cur, arrived, table, wg, http, stop>>

\* Handle returns: the client has gone or said nothing for thirty seconds, the
\* socket was closed here, or an HTTP request was handed to the HTTP server
\* with its socket.  The entry is removed by key.
HandleReturns(c, k) ==
    /\ run[c][k] = "active"
    /\ run' = [run EXCEPT ![c][k] = "deferred"]
    /\ table' = [table EXCEPT ![Key[c]] = None]
    /\ shut' = shut \cup {c} \/ (c \notin WS /\ UNCHANGED shut)
    /\ UNCHANGED <<poolVars, acc, cur, arrived, wg, http, stop>>

\* defer l.wg.Done()
HandlerDone(c, k) ==
    /\ run[c][k] = "deferred"
    /\ run' = [run EXCEPT ![c][k] = "ended"]
    /\ wg' = wg - 1
    /\ UNCHANGED <<poolVars, acc, cur, arrived, table, shut, http, stop>>

\* The HTTP server upgrades a tunnel request, which takes the socket away from
\* it, and only then calls HandleWSConnection: wg.Add(1), no handshake.
WSUpgrade(c) ==
    /\ c \in WS \ arrived /\ stop \in {"no", "http"}
    /\ arrived' = arrived \cup {c}
    /\ run' = [run EXCEPT ![c][1] = "upgraded"]
    /\ UNCHANGED <<poolVars, acc, cur, table, shut, wg, http, stop>>

HandleWSConnection(c) ==
    /\ run[c][1] = "upgraded"
    /\ Start(c, 1)
    /\ wg' = wg + 1
    /\ UNCHANGED <<poolVars, acc, cur, arrived, table, shut, http, stop>>

-----------------------------------------------------------------------------
(* Stop                                                                    *)

StopBegin ==
    /\ stop = "no" /\ stop' = "http"
    /\ UNCHANGED <<poolVars, acc, cur, arrived, run, table, shut, wg, http>>

\* httpServer.Shutdown closes its listener, which makes Serve return, and waits
\* for requests, not for hijacked WebSocket connections.
ServeReturns ==
    /\ stop # "no" /\ http
    /\ http' = FALSE /\ wg' = wg - 1
    /\ UNCHANGED <<poolVars, acc, cur, arrived, run, table, shut, stop>>

StopHTTP ==
    /\ stop = "http" /\ stop' = "listener"
    /\ UNCHANGED <<poolVars, acc, cur, arrived, run, table, shut, wg, http>>

StopListener ==
    /\ stop = "listener" /\ stop' = "sweep"
    /\ UNCHANGED <<poolVars, acc, cur, arrived, run, table, shut, wg, http>>

\* Close every connection in the table, under connMu.
StopSweep ==
    /\ stop = "sweep" /\ stop' = "wait"
    /\ shut' = shut \cup {table[x] : x \in {y \in Keys : table[y] # None}}
    /\ UNCHANGED <<poolVars, acc, cur, arrived, run, table, wg, http>>

\* Wrong variant: Stop does not wait for the handlers.
Mut_StopWait ==
    /\ stop = "wait" /\ stop' = "pool"
    /\ UNCHANGED <<poolVars, acc, cur, arrived, run, table, shut, wg, http>>

\* l.wg.Wait()
StopWait ==
    /\ stop = "wait" /\ wg = 0 /\ stop' = "pool"
    /\ UNCHANGED <<poolVars, acc, cur, arrived, run, table, shut, wg, http>>

StopPool ==
    /\ stop = "pool"
    /\ Pool!CloseFlag \/ Pool!CloseChan
    /\ UNCHANGED <<acc, cur, arrived, run, table, shut, wg, http, stop>>

StopPoolDone ==
    /\ stop = "pool" /\ Pool!CloseReturn /\ stop' = "groups"
    /\ UNCHANGED <<acc, cur, arrived, run, table, shut, wg, http>>

\* groupManager.Close(), the last thing Stop does.
StopGroups ==
    /\ stop = "groups" /\ stop' = "done"
    /\ UNCHANGED <<poolVars, acc, cur, arrived, run, table, shut, wg, http>>

-----------------------------------------------------------------------------
Workers(w) == WorkerTakes(w) \/ WorkerReturns(w) \/ WorkerExits(w)
AcceptLoop == AcceptCheck \/ AcceptFails \/ AcceptSubmit \/ AcceptNext
StopStep ==
    \/ StopHTTP \/ StopListener \/ StopSweep \/ StopWait
    \/ StopPool \/ StopPoolDone \/ StopGroups

\* What a handler does whether or not the client does anything.
Handler(c, k) ==
    \/ run[c][k] = "handshake" /\ (HandshakeFails(c, k) \/ Register(c, k))
    \/ c \in shut /\ HandleReturns(c, k)
    \/ HandlerDone(c, k)

Next ==
    \/ \E c \in Conn : Arrive(c) \/ WSUpgrade(c) \/ HandleWSConnection(c)
    \/ AcceptLoop \/ \E c \in Conn : Accept(c)
    \/ \E w \in Worker : Workers(w)
    \/ \E c \in Conn : DirectReturns(c)
    \/ \E c \in Conn, k \in {1, 2} :
        HandshakeFails(c, k) \/ Register(c, k) \/ HandleReturns(c, k) \/ HandlerDone(c, k)
    \/ StopBegin \/ StopStep \/ ServeReturns

(***************************************************************************)
(* Runnable goroutines run.  Clients owe nothing: a tunnel whose socket is *)
(* open may stay for ever, so HandleReturns is fair only once it is shut.  *)
(***************************************************************************)
FairSpec ==
    /\ Init /\ [][Next]_vars
    /\ WF_vars(AcceptLoop)
    /\ \A w \in Worker : WF_vars(Workers(w))
    /\ \A c \in Conn : WF_vars(DirectReturns(c)) /\ WF_vars(HandleWSConnection(c))
    /\ \A c \in Conn, k \in {1, 2} : WF_vars(Handler(c, k))
    /\ WF_vars(StopStep) /\ WF_vars(ServeReturns)

-----------------------------------------------------------------------------
(* Properties                                                              *)

Overflowed == \E c \in Conn \ WS : submit[c] = "overflow"
Handling(c, k) == run[c][k] \in {"handshake", "active", "deferred"}
Alone(c) == \A d \in Conn \ {c} : Key[d] # Key[c]

\* The values the variables may take.
TypeOK ==
    /\ queue \in Seq(Conn \ WS) /\ Len(queue) <= QueueSize
    /\ acc \in {"check", "accept", "submit", "exit"} /\ cur \in Conn \cup {None}
    /\ arrived \subseteq Conn /\ shut \subseteq Conn
    /\ run \in [Conn -> [{1, 2} ->
                  {"none", "upgraded", "handshake", "active", "deferred", "ended"}]]
    /\ table \in [Keys -> Conn \cup {None}]
    /\ wg \in Int /\ http \in BOOLEAN
    /\ stop \in {"no", "http", "listener", "sweep", "wait", "pool", "groups", "done"}

\* As long as the queue never filled up: once Stop has waited, the accept loop
\* and every handler of an accepted connection are gone, those of connections
\* that were still queued when Stop swept the table included, so the pool is
\* closed with nobody left to submit to it.
StopWaitsForHandlers ==
    (stop \in {"pool", "groups", "done"} /\ ~Overflowed) =>
        /\ acc = "exit" /\ ~http /\ queue = <<>>
        /\ \A c \in Conn \ WS : ~Handling(c, 1) /\ ~Handling(c, 2)

\* As long as the queue never filled up, a connection whose key no other one
\* has is in the table just while it is served, so Stop's sweep reaches it.
TableExact ==
    ~Overflowed => \A c \in Conn : Alone(c) =>
        ((table[Key[c]] = c) <=> (\E k \in {1, 2} : run[c][k] = "active"))

\* If Stop waits for ever although the queue never filled up, it waits for a
\* tunnel whose client stays and whose socket the sweep did not close: one that
\* registered after the sweep, or whose key another client took.
StopReturns ==
    <>[](stop \in {"http", "listener", "sweep", "wait", "pool", "groups"}) =>
        <>[](\/ Overflowed
             \/ \E c \in Conn \ shut, k \in {1, 2} : run[c][k] = "active")
=============================================================================
