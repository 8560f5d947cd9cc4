----------------------------- MODULE MCDataPath -----------------------------
(* Four scenes over the same modules, chosen at the start.                  *)
EXTENDS Proxy

ASSUME MCDataPathAssumption == "c1" \in Conn

VARIABLES
    scene,
    steady   \* history: data sessions that had room ever since the caller's call
             \*   and refused it nothing

mcvars == <<gvars, proxyvars, scene, steady>>

HasRoom(s) == s \in members /\ yam[s] = "open" /\ NumStreams(s) < StreamCap

MCInit ==
    /\ ProxyInit /\ steady = [o \in Conn |-> Data]
    /\ scene \in {"beats", "opens", "conns", "bytes"}

\* Sessions come, die and are pinged; an idle group is swept.
BeatsScene == (Beats \/ Sweep \/ Sessions) /\ UNCHANGED proxyvars

\* Streams are opened while data sessions come and die and the group closes.
OpensScene ==
    /\ UNCHANGED proxyvars
    /\ \/ Sessions \/ RemoveGroup
       \/ \E o \in Conn : Call(o) \/ Opening(o) \/ StreamEnds(o)
    /\ yam'[Primary] # "closed"

Open == [d \in Bytes!Dir |-> "open"]
UserEnds == [Open EXCEPT !["up"] = "end"]

PrimaryOnly ==
    /\ AddSession(Primary) \/ SessionDies(Primary) \/ CloseSession
    /\ UNCHANGED proxyvars

Serving(c) ==
    \/ Arrive(c) \/ OpenTimesOut(c) \/ Handler(c) \/ Deliver(c) \/ Copying(c)
    \/ Opening(c) /\ UNCHANGED proxyvars

Stops == StopSignal \/ Stopping \/ StopTimesOut \/ PrimaryClosed \/ GroupRemoved

\* All connections over one session, and Stop; a user may end, and sends nothing.
ConnsScene ==
    \/ PrimaryOnly \/ ProxyStart \/ Loop \/ (Stops /\ pstop' # "timeout")
    \/ \E c \in Conn : Serving(c) /\ UNCHANGED sent /\ last'[c] \in {Open, UserEnds}

\* One connection with a stream, and what its peers send.
BytesScene ==
    \/ PrimaryOnly \/ ProxyStart \/ Loop \/ Stops
    \/ Serving("c1") /\ late' = {} /\ op'["c1"] # "wait"

Refused(o, s) == op[o] = "open" /\ cur[o] = s /\ op'[o] = "pop"

MCNext ==
    /\ \/ scene = "beats" /\ BeatsScene
       \/ scene = "opens" /\ OpensScene
       \/ scene = "conns" /\ ConnsScene
       \/ scene = "bytes" /\ BytesScene
    /\ scene' = scene
    /\ steady' = [o \in Conn |->
           IF op'[o] = "idle" THEN Data
           ELSE {s \in steady[o] : HasRoom(s) /\ HasRoom(s)' /\ ~Refused(o, s)}]

Spec == MCInit /\ [][MCNext]_mcvars

FairSpec == Spec /\ ProxyFairness

\* While some data session has room all the time and refuses no stream, a call
\* of OpenStream neither fails nor falls back on the primary, unless the group
\* is closed: it survives every other session's end, every full session and
\* every stale entry of its heap.
SteadyServes ==
    \A o \in Conn :
        (op[o] = "failed" /\ ~stopped) \/ stream[o] = Primary => steady[o] = {}

OneChunk == [c \in Conn |-> 1]
=============================================================================
