------------------------------ MODULE PoolClient ------------------------------
(***************************************************************************)
(* The client's pool of yamux sessions (internal/client/tcp/pool_client.go,*)
(* pool_session.go, session_scaler.go).                                    *)
(*                                                                         *)
(* Connect opens the primary session, warms the pool up with parallel      *)
(* calls of addDataSession and starts the scaler.  Each session has three  *)
(* goroutines (accept loop, watcher, ping loop), each stream a handler.    *)
(* Losing the primary closes the client, as does the user; doneCh, which   *)
(* the reconnect loop waits for, is closed when every goroutine has ended. *)
(*                                                                         *)
(* Sessions die at any moment.  An identifier stands for a new session     *)
(* once nothing of its last one is left.  scalerLoop and ensureSessions of *)
(* pool_session.go have no caller; the scaler is session_scaler.go's.      *)
(***************************************************************************)
EXTENDS Integers, FiniteSets, Functions

CONSTANTS
    D,               \* data sessions
    MinSessions, MaxSessions, InitialSessions,
    Capacity,        \* capacityPerSession (256 in the code)
    MaxBurst,        \* maxBurstAdd (4 in the code)
    MaxStreams,      \* bound of the model: streams open at a time
    Mortal,          \* sessions that may be lost
    MayClose,        \* whether the user may close the client
    MaySilent        \* whether a local service may leave an upgrade unanswered

Primary == 0
H == D \cup {Primary}

ASSUME PoolClientAssumption ==
    /\ IsFiniteSet(D) /\ D \subseteq Nat \ {Primary}
    /\ MinSessions \in Nat \ {0} /\ InitialSessions \in Nat /\ MaxSessions \in Nat
    /\ MinSessions <= InitialSessions /\ InitialSessions <= MaxSessions
    /\ Capacity \in Nat \ {0} /\ MaxBurst \in Nat \ {0} /\ MaxStreams \in Nat
    /\ Mortal \subseteq H /\ MayClose \in BOOLEAN /\ MaySilent \in BOOLEAN

VARIABLES
    connect,    \* Connect: "new", "up", "warm", "running", "failed"
    pooled,     \* the server gave a tunnelID: data sessions are possible
    primary,    \* c.primary # nil
    data,       \* keys of c.dataSessions
    sess,       \* the yamux session of each handle: "none", "open", "closed"
    add,        \* addDataSession: "no", "start", "dial"
    loops,      \* the goroutines of each session that run
    removing,   \* who has taken a session from the map and has yet to close it
    active,     \* handlers running per session
    silent,     \* sessions with a handler that waits for the answer of a local
                \* service to a WebSocket upgrade that never comes
    closing,    \* Close: "no", "flag", "sweep", "done"
    toClose,    \* handles it has still to close
    callers,    \* who is in Close: loops of the primary, "user"
    byUser,     \* history: the user called Close
    scaler,     \* "none", "tick", "count", "add", "pick", "remove", "end"
    seen, left, goal, cand,  \* its locals: current, adds to go, the new
                             \* desiredTotal, the idle candidates; reset
                             \* when a round is over
    desired,    \* desiredTotal
    done        \* doneCh is closed

handles == <<primary, data, sess, removing>>
work    == <<loops, active, silent>>
close   == <<closing, toClose, callers, byUser>>
scale   == <<scaler, seen, left, goal, cand, desired>>
vars    == <<connect, pooled, handles, add, work, close, scale, done>>

Stopped == closing # "no"           \* stopCh is closed, ctx is cancelled
Count   == Cardinality(data) + (IF primary THEN 1 ELSE 0)     \* sessionCount
Smaller(m, n) == IF m < n THEN m ELSE n
Larger(m, n)  == IF m < n THEN n ELSE m
ActiveConnections == SumFunction(active)                     \* c.stats

\* Nothing is left of the session d had.
Unused(d) ==
    /\ add[d] = "no" /\ sess[d] # "open" /\ d \notin data \cup toClose
    /\ loops[d] = {} /\ removing[d] = "no" /\ active[d] = 0

Init ==
    /\ connect = "new" /\ pooled = FALSE
    /\ primary = FALSE /\ data = {}
    /\ sess = [h \in H |-> "none"] /\ removing = [d \in D |-> "no"]
    /\ add = [d \in D |-> "no"]
    /\ loops = [h \in H |-> {}] /\ active = [h \in H |-> 0] /\ silent = {}
    /\ closing = "no" /\ toClose = {} /\ callers = {} /\ byUser = FALSE
    /\ scaler = "none" /\ seen = 0 /\ left = 0 /\ goal = 0 /\ cand = {}
    /\ desired = 0
    /\ done = FALSE

-----------------------------------------------------------------------------
(* Connect                                                                 *)

\* Dial, registration and its answer, any of which may fail.
ConnectFails ==
    /\ connect = "new" /\ connect' = "failed"
    /\ UNCHANGED <<pooled, handles, add, work, close, scale, done>>

ConnectPrimary ==
    /\ connect = "new" /\ connect' = "up"
    /\ pooled' \in BOOLEAN
    /\ primary' = TRUE
    /\ sess' = [sess EXCEPT ![Primary] = "open"]
    /\ loops' = [loops EXCEPT ![Primary] = {"accept", "watch", "ping"}]
    /\ UNCHANGED <<data, removing, add, active, silent, close, scale, done>>

\* desiredTotal, then warmupSessions: as many parallel addDataSession as are
\* missing, unless the client is closed by now.
WarmUp ==
    /\ connect = "up" /\ pooled
    /\ connect' = "warm"
    /\ desired' = InitialSessions
    /\ \E new \in SUBSET D :
        /\ Cardinality(new) = IF Stopped THEN 0 ELSE Larger(InitialSessions - Count, 0)
        /\ add' = [d \in D |-> IF d \in new THEN "start" ELSE add[d]]
    /\ UNCHANGED <<pooled, handles, work, close, scaler, seen, left, goal, cand, done>>

\* All of them have returned; the scaler starts and Connect returns.
ConnectReturns ==
    /\ \/ connect = "up" /\ ~pooled /\ UNCHANGED scaler
       \/ connect = "warm" /\ (\A d \in D : add[d] = "no") /\ scaler' = "tick"
    /\ connect' = "running"
    /\ UNCHANGED <<pooled, handles, add, work, close, seen, left, goal, cand, desired, done>>

-----------------------------------------------------------------------------
(* addDataSession                                                          *)

AddStart(d) ==
    /\ add[d] = "start"
    /\ add' = [add EXCEPT ![d] = IF Stopped THEN "no" ELSE "dial"]
    /\ UNCHANGED <<connect, pooled, handles, work, close, scale, done>>

\* Dial, the data connect frame or its answer fails.
AddFails(d) ==
    /\ add[d] = "dial"
    /\ add' = [add EXCEPT ![d] = "no"]
    /\ UNCHANGED <<connect, pooled, handles, work, close, scale, done>>

\* The session enters the map and its goroutines start.  The accept loop looks
\* at stopCh before it accepts, so after Close it ends at once.
AddInsert(d) ==
    /\ add[d] = "dial"
    /\ add' = [add EXCEPT ![d] = "no"]
    /\ data' = data \cup {d}
    /\ sess' = [sess EXCEPT ![d] = "open"]
    /\ loops' = [loops EXCEPT ![d] =
                    IF Stopped THEN {"watch", "ping"} ELSE {"accept", "watch", "ping"}]
    /\ UNCHANGED <<connect, pooled, primary, removing, active, silent, close, scale, done>>

-----------------------------------------------------------------------------
(* removeDataSession: only who takes the handle from the map closes it.    *)

TakeOut(d, who) ==
    /\ data' = data \ {d}
    /\ removing' = IF d \in data THEN [removing EXCEPT ![d] = who] ELSE removing
    /\ UNCHANGED <<primary, sess>>

RemoveClose(d) ==
    /\ removing[d] # "no"
    /\ removing' = [removing EXCEPT ![d] = "no"]
    /\ sess' = [sess EXCEPT ![d] = "closed"]
    /\ UNCHANGED <<connect, pooled, primary, data, add, work, close, scale, done>>

-----------------------------------------------------------------------------
(* Close: once.Do, so that a second caller waits for the first.            *)

\* A call of Close; the first one sets the flag and closes stopCh.
Call(who) ==
    /\ callers' = callers \cup {who}
    /\ closing' = IF closing = "no" THEN "flag" ELSE closing
    /\ UNCHANGED toClose

\* runTunnelWithUI, on a signal.
UserCloses ==
    /\ MayClose /\ connect = "running" /\ ~byUser
    /\ Call("user") /\ byUser' = TRUE
    /\ UNCHANGED <<connect, pooled, handles, add, work, scale, done>>

\* Wrong variant: the primary is left where it is.
Mut_CloseSweep ==
    /\ closing = "flag" /\ closing' = "sweep"
    /\ toClose' = data
    /\ data' = {} /\ primary' = FALSE
    /\ UNCHANGED <<connect, pooled, sess, removing, add, work, callers, byUser, scale, done>>

\* Under c.mu.
CloseSweep ==
    /\ closing = "flag" /\ closing' = "sweep"
    /\ toClose' = data \cup (IF primary THEN {Primary} ELSE {})
    /\ data' = {} /\ primary' = FALSE
    /\ UNCHANGED <<connect, pooled, sess, removing, add, work, callers, byUser, scale, done>>

\* One session after another, the primary last.
CloseNext ==
    /\ closing = "sweep"
    /\ \/ \E h \in toClose :
            /\ h = Primary => toClose = {Primary}
            /\ toClose' = toClose \ {h}
            /\ sess' = [sess EXCEPT ![h] = "closed"]
            /\ UNCHANGED closing
       \/ toClose = {} /\ closing' = "done" /\ UNCHANGED <<toClose, sess>>
    /\ UNCHANGED <<connect, pooled, primary, data, removing, add, work, callers, byUser, scale, done>>

CloseReturns(who) ==
    /\ who \in callers /\ closing = "done"
    /\ callers' = callers \ {who}
    /\ UNCHANGED <<connect, pooled, handles, add, work, closing, toClose, byUser, scale, done>>

-----------------------------------------------------------------------------
(* The goroutines of a session                                             *)

Ends(h, loop) == loops' = [loops EXCEPT ![h] = @ \ {loop}] /\ UNCHANGED <<active, silent>>

\* What a loop does about a session that is lost.
Lost(h, loop) ==
    /\ Ends(h, loop)
    /\ IF h = Primary THEN Call(loop) /\ UNCHANGED <<handles, byUser>>
                      ELSE TakeOut(h, loop) /\ UNCHANGED close

\* A stream; with stopCh closed the loop ends after it.
AcceptStream(h) ==
    /\ "accept" \in loops[h] /\ sess[h] = "open"
    /\ ActiveConnections < MaxStreams
    /\ active' = [active EXCEPT ![h] = @ + 1]
    /\ loops' = IF Stopped THEN [loops EXCEPT ![h] = @ \ {"accept"}] ELSE loops
    /\ UNCHANGED <<connect, pooled, handles, add, silent, close, scale, done>>

\* stopCh seen between two streams, or an error that is expected.
AcceptEnds(h) ==
    /\ "accept" \in loops[h] /\ (Stopped \/ sess[h] = "closed")
    /\ Ends(h, "accept")
    /\ UNCHANGED <<connect, pooled, handles, add, close, scale, done>>

\* Any other error, by its wording.
AcceptFails(h) ==
    /\ "accept" \in loops[h] /\ sess[h] = "closed" /\ ~Stopped
    /\ Lost(h, "accept")
    /\ UNCHANGED <<connect, pooled, add, scale, done>>

WatchEnds(h) ==
    /\ "watch" \in loops[h] /\ Stopped
    /\ Ends(h, "watch")
    /\ UNCHANGED <<connect, pooled, handles, add, close, scale, done>>

\* Wrong variant: the watcher leaves a lost session to the other loops.
Mut_WatchFires(h) ==
    /\ "watch" \in loops[h] /\ sess[h] = "closed"
    /\ Ends(h, "watch")
    /\ UNCHANGED <<connect, pooled, handles, add, close, scale, done>>

\* Wrong variant: Close is called in a goroutine of its own.
Mut_WatchFiresGo(h) ==
    /\ "watch" \in loops[h] /\ sess[h] = "closed"
    /\ Ends(h, "watch")
    /\ IF h = Primary THEN /\ closing' = IF closing = "no" THEN "flag" ELSE closing
                           /\ UNCHANGED <<handles, toClose, callers, byUser>>
                      ELSE TakeOut(h, "watch") /\ UNCHANGED close
    /\ UNCHANGED <<connect, pooled, add, scale, done>>

WatchFires(h) ==
    /\ "watch" \in loops[h] /\ sess[h] = "closed"
    /\ Lost(h, "watch")
    /\ UNCHANGED <<connect, pooled, add, scale, done>>

PingEnds(h) ==
    /\ "ping" \in loops[h] /\ (Stopped \/ sess[h] = "closed")
    /\ Ends(h, "ping")
    /\ UNCHANGED <<connect, pooled, handles, add, close, scale, done>>

\* The third ping in a row without an answer.
PingFails(h) ==
    /\ h \in Mortal /\ "ping" \in loops[h]
    /\ Lost(h, "ping")
    /\ UNCHANGED <<connect, pooled, add, scale, done>>

\* handleStream returns.
StreamEnds(h) ==
    /\ active[h] > (IF h \in silent THEN 1 ELSE 0)
    /\ active' = [active EXCEPT ![h] = @ - 1]
    /\ UNCHANGED <<connect, pooled, handles, add, loops, silent, close, scale, done>>

\* handleWebSocketUpgrade waits for the local service without a deadline and
\* regardless of ctx; at most one handler does so here.
Silent(h) ==
    /\ MaySilent /\ active[h] > 0 /\ silent = {}
    /\ silent' = {h}
    /\ UNCHANGED <<connect, pooled, handles, add, loops, active, close, scale, done>>

\* The server or the network.
SessionDies(h) ==
    /\ h \in Mortal /\ sess[h] = "open"
    /\ sess' = [sess EXCEPT ![h] = "closed"]
    /\ UNCHANGED <<connect, pooled, primary, data, removing, add, work, close, scale, done>>

-----------------------------------------------------------------------------
(* The scaler                                                              *)

others == <<connect, pooled, work, close, done>>

ScalerEnd ==
    /\ scaler = "tick" /\ Stopped
    /\ scaler' = "end"
    /\ UNCHANGED <<others, handles, add, seen, left, goal, cand, desired>>

\* A tick, then sessionCount; no session, no load.
ScalerCount ==
    /\ scaler = "tick"
    /\ Count > 0
    /\ seen' = Count /\ scaler' = "count"
    /\ UNCHANGED <<others, handles, add, left, goal, cand, desired>>

\* load compared with n tenths
LoadAbove(n) == 10 * ActiveConnections > n * seen * Capacity
LoadBelow(n) == 10 * ActiveConnections < n * seen * Capacity
Burst     == LoadAbove(9) /\ seen < MaxSessions
ScaleUp   == ~Burst /\ LoadAbove(6) /\ seen < MaxSessions
ScaleDown == ~Burst /\ ~ScaleUp /\ LoadBelow(2) /\ seen > MinSessions

Add(n, target) ==
    /\ scaler' = "add" /\ left' = n /\ goal' = target
    /\ UNCHANGED <<seen, cand>>

\* Wrong variant: a burst adds maxBurstAdd sessions, whatever there is room for.
Mut_ScalerDecide ==
    /\ scaler = "count"
    /\ \/ Burst /\ Add(MaxBurst, seen + MaxBurst)
       \/ /\ ~Burst
          /\ scaler' = "tick" /\ seen' = 0 /\ UNCHANGED <<left, goal, cand>>
    /\ UNCHANGED <<others, handles, add, desired>>

\* The load is compared with the count of a moment ago.  A round may pass with
\* nothing done: the load is in between or lastScale is too recent.  As a later
\* round may find it old enough, lastScale itself is left out.
ScalerDecide ==
    /\ scaler = "count"
    /\ \/ /\ Burst
          /\ LET n == Smaller(MaxBurst, MaxSessions - seen) IN Add(n, seen + n)
       \/ ScaleUp /\ desired < MaxSessions /\ Add(1, desired + 1)
       \/ /\ ScaleDown /\ desired > MinSessions /\ seen > desired - 1
          /\ scaler' = "pick" /\ goal' = desired - 1
          /\ UNCHANGED <<seen, left, cand>>
       \/ /\ ~Burst
          /\ scaler' = "tick" /\ seen' = 0 /\ UNCHANGED <<left, goal, cand>>
    /\ UNCHANGED <<others, handles, add, desired>>

\* addDataSession, one call after another.  Where D has no identifier left the
\* dial counts as failed.
ScalerAdd ==
    /\ scaler = "add" /\ left > 0 /\ \A d \in D : add[d] = "no"
    /\ left' = left - 1
    /\ IF \E d \in D : Unused(d)
       THEN LET d == CHOOSE x \in D : Unused(x) IN add' = [add EXCEPT ![d] = "start"]
       ELSE UNCHANGED add
    /\ UNCHANGED <<others, handles, scaler, seen, goal, cand, desired>>

\* desiredTotal becomes what was aimed at, whatever the calls returned.
ScalerDone ==
    /\ \/ scaler = "add" /\ left = 0 /\ \A d \in D : add[d] = "no"
       \/ scaler = "remove" /\ cand = {} /\ \A d \in D : removing[d] # "scaler"
    /\ desired' = goal /\ scaler' = "tick" /\ goal' = 0 /\ seen' = 0
    /\ UNCHANGED <<others, handles, add, left, cand>>

\* removeIdleSessions(1): a snapshot of the idle sessions, ...
ScalerPick ==
    /\ scaler = "pick" /\ scaler' = "remove"
    /\ cand' = {d \in data : active[d] = 0}
    /\ UNCHANGED <<others, handles, add, seen, left, goal, desired>>

\* ... then the one idle for longest, or the next if it is gone already.
ScalerRemove ==
    /\ scaler = "remove"
    /\ \E d \in cand :
        /\ TakeOut(d, "scaler")
        /\ cand' = IF d \in data THEN {} ELSE cand \ {d}
    /\ UNCHANGED <<others, add, scaler, seen, left, goal, desired>>

\* c.wg has come to zero.
WaitDone ==
    /\ connect = "running" /\ ~done /\ Stopped
    /\ \A h \in H : loops[h] = {} /\ active[h] = 0
    /\ \A d \in D : removing[d] = "no"
    /\ callers \subseteq {"user"} /\ scaler \in {"none", "end"}
    /\ done' = TRUE
    /\ UNCHANGED <<connect, pooled, handles, add, work, close, scale>>

-----------------------------------------------------------------------------
Loops == {"accept", "watch", "ping"}

Connecting == ConnectFails \/ ConnectPrimary \/ WarmUp \/ ConnectReturns
Adding(d)  == AddStart(d) \/ AddFails(d) \/ AddInsert(d)
Accepting(h) == AcceptEnds(h) \/ AcceptFails(h)
Watching(h)  == WatchEnds(h) \/ WatchFires(h)
Closing    == CloseSweep \/ CloseNext
Scaler     == ScalerEnd \/ ScalerCount \/ ScalerDecide \/ ScalerAdd \/ ScalerDone
                \/ ScalerPick \/ ScalerRemove

Next ==
    \/ Connecting \/ Closing \/ Scaler \/ UserCloses \/ WaitDone
    \/ \E d \in D : Adding(d) \/ RemoveClose(d)
    \/ \E w \in Loops \cup {"user"} : CloseReturns(w)
    \/ \E h \in H :
        \/ AcceptStream(h) \/ Accepting(h) \/ Watching(h) \/ PingEnds(h) \/ PingFails(h)
        \/ StreamEnds(h) \/ Silent(h) \/ SessionDies(h)

Spec == Init /\ [][Next]_vars

(***************************************************************************)
(* Runnable goroutines run and a dial ends by its timeout.  Handlers are   *)
(* promised to end only once their session or the context is gone.  A      *)
(* select that finds stopCh closed again and again takes it at last.       *)
(***************************************************************************)
Fairness ==
    /\ WF_vars(Connecting) /\ WF_vars(Closing) /\ WF_vars(Scaler) /\ SF_vars(ScalerEnd)
    /\ WF_vars(WaitDone)
    /\ \A d \in D : WF_vars(Adding(d)) /\ WF_vars(RemoveClose(d))
    /\ \A w \in Loops : WF_vars(CloseReturns(w))
    /\ \A h \in H :
        /\ WF_vars(Accepting(h)) /\ WF_vars(Watching(h)) /\ WF_vars(PingEnds(h))
        /\ WF_vars((Stopped \/ sess[h] = "closed") /\ StreamEnds(h))

FairSpec == Spec /\ Fairness

-----------------------------------------------------------------------------
(* Properties                                                              *)

\* The values the variables may take.
TypeOK ==
    /\ connect \in {"new", "up", "warm", "running", "failed"}
    /\ pooled \in BOOLEAN /\ primary \in BOOLEAN /\ data \subseteq D
    /\ sess \in [H -> {"none", "open", "closed"}]
    /\ add \in [D -> {"no", "start", "dial"}]
    /\ loops \in [H -> SUBSET Loops]
    /\ removing \in [D -> Loops \cup {"no", "scaler"}]
    /\ active \in [H -> 0..MaxStreams] /\ silent \subseteq H
    /\ closing \in {"no", "flag", "sweep", "done"}
    /\ toClose \subseteq H /\ callers \subseteq Loops \cup {"user"} /\ byUser \in BOOLEAN
    /\ scaler \in {"none", "tick", "count", "add", "pick", "remove", "end"}
    /\ seen \in 0..MaxSessions /\ left \in 0..MaxSessions /\ goal \in 0..MaxSessions
    /\ cand \subseteq D /\ desired \in 0..MaxSessions
    /\ done \in BOOLEAN

\* However sessions die and dials fail, the pool and what it is dialling never
\* pass maxSessions, which is what the server was told: the scaler decides on
\* counts that are old when it acts.
PoolBound ==
    Count + Cardinality({d \in D : add[d] # "no"}) + left <= MaxSessions

\* A session that is open can be found or is being closed: it is the primary, in
\* the map, in the hands of whoever took it out, or of Close.
OpenIsOwned ==
    \A h \in H : sess[h] = "open" =>
        \/ h = Primary /\ primary
        \/ h \in data \cup toClose
        \/ h \in D /\ removing[h] # "no"

\* Unless the user closed it, the reconnect loop that waits for the client goes
\* on only after Close has closed all that it found.
WaitAfterClose ==
    done /\ ~byUser => closing = "done" /\ toClose = {} /\ sess[Primary] = "closed"

\* The loss of the primary ends the client, so that it can reconnect, however
\* the loops, the scaler and adds in flight stand; only a handler whose local
\* service leaves an upgrade unanswered holds it up.
PrimaryLossEnds == sess[Primary] = "closed" ~> done \/ silent # {}

=============================================================================
