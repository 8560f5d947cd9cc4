-------------------------------- MODULE Proxy --------------------------------
(***************************************************************************)
(* The public port of one tunnel and the way of its bytes                  *)
(* (internal/server/tcp/proxy.go), with the group that opens the streams   *)
(* (ConnectionGroup) and the pipe of each connection (Pipe).               *)
(*                                                                         *)
(* The accept loop starts a handler for each connection.  The handler      *)
(* checks the IP rules and the connection limit, lets a goroutine open a   *)
(* stream, waits for it at most three seconds, and pipes.  Stop signals,   *)
(* closes the listener and waits at most thirty seconds for the loop and   *)
(* the handlers.  The caller of OpenStream of ConnectionGroup is the       *)
(* goroutine of a connection, and is named like it.                        *)
(***************************************************************************)
EXTENDS ConnectionGroup

CONSTANTS
    Conn,      \* connections to the public port
    Chunks,    \* chunks each peer of a connection may send
    Allowed,   \* connections that checkIPAccess lets in
    MaxConns   \* maxConcurrentConnections (10000)

ASSUME ProxyAssumption ==
    /\ IsFiniteSet(Conn) /\ Conn \subseteq Opener
    /\ Allowed \subseteq Conn /\ MaxConns \in Nat \ {0}

VARIABLES
    way, sent, taken, moved, last, how, due, halt,  \* of Pipe
    loop,      \* accept loop: "off", "check", "accept", "end"
    user,      \* each connection: "none", "backlog", "accepted", "open", "pipe",
               \*   "end" (its handler has returned, the connection is closed)
    box,       \* resultCh of each handler: "empty", "stream", "error", "taken"
    late,      \* handlers whose openStreamTimeout has passed
    sem,       \* taken slots of p.sem
    wg,        \* p.wg
    pstop      \* Stop: "no", "signal", "closed", "drained", "timeout"

pipevars == <<way, sent, taken, moved, last, how, due, halt>>
hvars    == <<loop, user, box, late, sem, wg>>
proxyvars == <<hvars, pstop, pipevars>>

Bytes == INSTANCE Pipe WITH
    cancelled <- pstop # "no",
    gone <- {c \in Conn : user[c] = "pipe" /\ stream[c] = None}

ProxyInit ==
    /\ Init /\ Bytes!PipeInit
    /\ loop = "off" /\ user = [c \in Conn |-> "none"]
    /\ box = [c \in Conn |-> "empty"] /\ late = {} /\ sem = 0 /\ wg = 0
    /\ pstop = "no"

Handlers == {c \in Conn : user[c] \in {"accepted", "open", "pipe"}}

-----------------------------------------------------------------------------
(* Start, the accept loop                                                  *)

\* Once the primary session is in the group; Stop may have come first.
ProxyStart ==
    /\ loop = "off" /\ Primary \in joined
    /\ loop' = "check" /\ wg' = wg + 1
    /\ UNCHANGED <<user, box, late, sem, pstop, pipevars, gvars>>

Arrive(c) ==
    /\ user[c] = "none" /\ loop # "off" /\ pstop \in {"no", "signal"}
    /\ user' = [user EXCEPT ![c] = "backlog"]
    /\ UNCHANGED <<loop, box, late, sem, wg, pstop, pipevars, gvars>>

LoopCheck ==
    /\ loop = "check"
    /\ IF pstop = "no" THEN loop' = "accept" /\ UNCHANGED wg
       ELSE loop' = "end" /\ wg' = wg - 1
    /\ UNCHANGED <<user, box, late, sem, pstop, pipevars, gvars>>

Accept(c) ==
    /\ loop = "accept" /\ user[c] = "backlog" /\ pstop \in {"no", "signal"}
    /\ user' = [user EXCEPT ![c] = "accepted"]
    /\ wg' = wg + 1 /\ loop' = "check"
    /\ UNCHANGED <<box, late, sem, pstop, pipevars, gvars>>

\* Its deadline of one second, or the closed listener: the loop looks at
\* stopCh either way.
AcceptFails ==
    /\ loop = "accept" /\ loop' = "check"
    /\ UNCHANGED <<user, box, late, sem, wg, pstop, pipevars, gvars>>

-----------------------------------------------------------------------------
(* handleConn                                                              *)

\* The deferred calls; the stream, if there is one, is closed.
Return(c, slots) ==
    /\ user' = [user EXCEPT ![c] = "end"]
    /\ sem' = sem - slots /\ wg' = wg - 1

\* Not allowed, or no slot left.
HandlerRefuses(c) ==
    /\ user[c] = "accepted" /\ (c \notin Allowed \/ sem = MaxConns)
    /\ Return(c, 0)
    /\ UNCHANGED <<loop, box, late, pstop, pipevars, gvars>>

HandlerOpens(c) ==
    /\ user[c] = "accepted" /\ c \in Allowed /\ sem < MaxConns
    /\ user' = [user EXCEPT ![c] = "open"] /\ sem' = sem + 1
    /\ Call(c)
    /\ UNCHANGED <<loop, box, late, wg, pstop, pipevars>>

OpenTimesOut(c) ==
    /\ user[c] = "open" /\ c \notin late /\ late' = late \cup {c}
    /\ UNCHANGED <<loop, user, box, sem, wg, pstop, pipevars, gvars>>

\* cancel runs when the handler returns; p.ctx is cancelled by Stop.
CtxDone(c) == c \in late \/ pstop # "no" \/ user[c] = "end"

\* Wrong variant: the goroutine keeps the stream when the context is done.
Mut_Deliver(c) ==
    /\ op[c] \in {"got", "failed"} /\ box[c] = "empty"
    /\ To(c, "over")
    /\ \/ box' = [box EXCEPT ![c] = IF op[c] = "got" THEN "stream" ELSE "error"]
       \/ CtxDone(c) /\ UNCHANGED box
    /\ UNCHANGED <<loop, user, late, sem, wg, pstop, pipevars>>
    /\ UNCHANGED <<group, pulse, tries, heap, cur, stream>>

\* The goroutine puts its result into the buffer, which has room, or, if the
\* context is done, closes the stream.  Select takes either.
Deliver(c) ==
    /\ op[c] \in {"got", "failed"} /\ box[c] = "empty"
    /\ To(c, "over")
    /\ \/ /\ box' = [box EXCEPT ![c] = IF op[c] = "got" THEN "stream" ELSE "error"]
          /\ UNCHANGED stream
       \/ CtxDone(c) /\ stream' = [stream EXCEPT ![c] = None] /\ UNCHANGED box
    /\ UNCHANGED <<loop, user, late, sem, wg, pstop, pipevars>>
    /\ UNCHANGED <<group, pulse, tries, heap, cur>>

\* The handler takes the stream.
HandlerPipes(c) ==
    /\ user[c] = "open" /\ box[c] = "stream"
    /\ user' = [user EXCEPT ![c] = "pipe"] /\ box' = [box EXCEPT ![c] = "taken"]
    /\ Bytes!PipeStart(c)
    /\ UNCHANGED <<loop, late, sem, wg, pstop, gvars>>

\* An error, the timeout, or stopCh.
HandlerGivesUp(c) ==
    /\ user[c] = "open"
    /\ box[c] = "error" \/ c \in late \/ pstop # "no"
    /\ Return(c, 1)
    /\ UNCHANGED <<loop, box, late, pstop, pipevars, gvars>>

\* Both directions have ended.
HandlerReturns(c) ==
    /\ user[c] = "pipe" /\ Bytes!PipeDone(c)
    /\ Return(c, 1)
    /\ stream' = [stream EXCEPT ![c] = None]
    /\ UNCHANGED <<loop, box, late, pstop, pipevars, group, pulse, opens>>

-----------------------------------------------------------------------------
(* Stop, and what comes after it in ConnectionLifecycleManager.Close       *)

\* close(stopCh) and cancel.
StopSignal ==
    /\ pstop = "no" /\ pstop' = "signal"
    /\ UNCHANGED <<hvars, pipevars, gvars>>

\* What was not accepted is reset.
StopListener ==
    /\ pstop = "signal" /\ pstop' = "closed"
    /\ user' = [c \in Conn |-> IF user[c] = "backlog" THEN "end" ELSE user[c]]
    /\ UNCHANGED <<loop, box, late, sem, wg, pipevars, gvars>>

\* Wrong variant: only the loop is waited for.
Mut_StopDrained ==
    /\ pstop = "closed" /\ loop # "accept" /\ pstop' = "drained"
    /\ UNCHANGED <<hvars, pipevars, gvars>>

StopDrained ==
    /\ pstop = "closed" /\ wg = 0 /\ pstop' = "drained"
    /\ UNCHANGED <<hvars, pipevars, gvars>>

StopTimesOut ==
    /\ pstop = "closed" /\ wg > 0 /\ pstop' = "timeout"
    /\ UNCHANGED <<hvars, pipevars, gvars>>

Stopped == pstop \in {"drained", "timeout"}

\* The session of the connection, then its group.
PrimaryClosed ==
    /\ Stopped /\ yam[Primary] = "open" /\ Shut({Primary})
    /\ UNCHANGED <<members, joined, stopped, toClose, swept, pulse, opens, proxyvars>>

GroupRemoved ==
    /\ Stopped /\ RemoveGroup /\ UNCHANGED proxyvars

-----------------------------------------------------------------------------
Loop == LoopCheck \/ AcceptFails \/ \E c \in Conn : Accept(c)

Handler(c) == HandlerRefuses(c) \/ HandlerOpens(c) \/ HandlerPipes(c)
                \/ HandlerGivesUp(c) \/ HandlerReturns(c)

Copying(c) == Bytes!PipeStep(c) /\ UNCHANGED <<hvars, pstop, gvars>>

Stopping == StopListener \/ StopDrained

\* The handler of the tunnel's own connection notices that its session is
\* closed, and Connection.Close stops the proxy.
TunnelEnds == yam[Primary] = "closed" /\ StopSignal

\* What runs without the help of a peer.  A stream may be opening for ever,
\* and a write may wait for its reader for ever.
ProxyFairness ==
    /\ WF_proxyvars(Loop) /\ WF_proxyvars(Stopping) /\ WF_proxyvars(TunnelEnds)
    /\ \A c \in Conn :
        /\ WF_proxyvars(Handler(c))
        /\ WF_proxyvars(Bytes!CtxDone(c) /\ UNCHANGED <<hvars, pstop, gvars>>)
        /\ \A d \in Bytes!Dir : WF_proxyvars(Bytes!Runs(c, d) /\ UNCHANGED <<hvars, pstop, gvars>>)

-----------------------------------------------------------------------------
TypeOK ==
    /\ GroupTypeOK
    /\ loop \in {"off", "check", "accept", "end"}
    /\ user \in [Conn -> {"none", "backlog", "accepted", "open", "pipe", "end"}]
    /\ box \in [Conn -> {"empty", "stream", "error", "taken"}]
    /\ late \subseteq Conn
    /\ sem \in 0..MaxConns /\ wg \in 0..(Cardinality(Conn) + 1)
    /\ pstop \in {"no", "signal", "closed", "drained", "timeout"}

\* A stream outlives its connection only while its opener has yet to hand it
\* over, or in the result buffer of a connection that gave up: whoever takes
\* a stream closes it, and a late one is closed or buffered, never dropped.
OrphanOnlyInBuffer ==
    \A c \in Conn : user[c] = "end" /\ stream[c] # None =>
        op[c] # "over" \/ (box[c] = "stream" /\ (c \in late \/ pstop # "no"))

\* When Stop returns without its timeout no handler runs, no slot is taken, and
\* the accept loop, which may even start afterwards, accepts nothing more.
DrainedIsQuiet ==
    pstop = "drained" => loop # "accept" /\ Handlers = {} /\ sem = 0

\* No byte is lost unless the other direction ended first, the context was
\* cancelled, or a peer or the session failed.
WholeUnlessCut == \A c \in Conn : Bytes!WholeUnlessCut(c)

\* Once Stop has been called, or one direction of its pipe has ended, every
\* handler returns: one that waits for its stream sees stopCh, one that copies
\* has both its ends closed or a deadline.  Stop never needs its thirty seconds.
Over(c) == pstop # "no" \/ \E d \in Bytes!Dir : how[c][d] # "none"
HandlersReturn == \A c \in Conn : (c \in Handlers /\ Over(c)) ~> (user[c] = "end")
=============================================================================
