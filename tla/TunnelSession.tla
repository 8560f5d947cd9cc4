----------------------------- MODULE TunnelSession -----------------------------
(***************************************************************************)
(* The life of a tunnel on the drip server: Connection.Handle and the      *)
(* registration (connection.go, registration_handler.go, tunnel.go,        *)
(* data_connection_handler.go), the port allocator, the connection groups, *)
(* the TCP proxy's listener, and the lifecycle manager that takes it all   *)
(* down again (lifecycle_manager.go).                                      *)
(*                                                                         *)
(* A primary connection collects a port, a name, a group, a yamux session  *)
(* and a proxy, and tells the lifecycle manager of each after it has it.   *)
(* Close runs once, called by Handle's own return or, from another         *)
(* goroutine and at any time, by Listener.Stop; it gives back what the     *)
(* lifecycle manager knows of.  Data connections add their session to the  *)
(* group of a primary.  The registry of names is atomic here and drawn     *)
(* names are left out: TunnelManager has its inside.                       *)
(***************************************************************************)
EXTENDS Integers, FiniteSets

CONSTANTS
    Primary, Data,   \* connections that register a tunnel, that join one
    TCP,             \* primaries of TCP tunnels; the others are HTTP
    Pooled,          \* primaries whose client asks for a connection group
    Custom,          \* the name a primary asks for, None for none
    PrimaryOf,       \* the primary whose tunnel a data connection joins
    Name,
    Port,            \* the allocator's range
    TcpName,         \* port -> "tcp-<port>"
    Busy,            \* ports other programs listen on
    MayStop,         \* whether Listener.Stop may be called
    None

Conn == Primary \cup Data

ASSUME SessionAssumption ==
    /\ IsFiniteSet(Primary) /\ IsFiniteSet(Data) /\ Primary \cap Data = {}
    /\ TCP \subseteq Primary /\ Pooled \subseteq Primary
    /\ Custom \in [Primary -> Name \cup {None}]
    /\ \A c \in Primary \ TCP : Custom[c] # None
    /\ PrimaryOf \in [Data -> Pooled]
    /\ TcpName \in [Port -> Name]
    /\ \A p, q \in Port : TcpName[p] = TcpName[q] => p = q
    /\ IsFiniteSet(Port) /\ Cardinality(Port) >= 2 /\ Busy \subseteq Port
    /\ None \notin Name /\ None \notin Port /\ None \notin Conn
    /\ MayStop \in BOOLEAN

VARIABLES
    used,       \* PortAllocator.used
    names,      \* the registry: name -> primary
    groups,     \* primaries whose group is in the group manager's map
    members,    \* connections whose session is in the group of a primary
    pc,         \* where Handle is
    port,       \* the port a primary was allocated
    sess,       \* the yamux session of a connection: "none", "open", "closed"
    sock,       \* connections whose socket works
    listening,  \* primaries whose proxy listens
    known,      \* what the lifecycle manager of a connection knows of
    closing,    \* Close of a connection: "no", the step to do next, "done"
    stop,       \* Listener.Stop: "no", "sweep", "done"
    sweep,      \* the connections it has left to close
    stopAt,     \* the one whose Close it has called
    cut         \* history: connections Stop began to close before they were up

res  == <<used, names, groups, members, listening>>
stopping == <<stop, sweep, stopAt, cut>>
vars == <<res, pc, port, sess, sock, known, closing, stopping>>

Begun(c)    == pc[c] \notin {"none", "ended"}
Goto(c, l)  == pc' = [pc EXCEPT ![c] = l]
Knows(c, x) == known' = [known EXCEPT ![c] = @ \cup x]
SessionOpen(c) == sess[c] = "open" /\ c \in sock

Init ==
    /\ used = {} /\ names = [n \in Name |-> None]
    /\ groups = {} /\ members = [c \in Primary |-> {}]
    /\ pc = [c \in Conn |-> "none"]
    /\ port = [c \in Primary |-> None]
    /\ sess = [c \in Conn |-> "none"]
    /\ sock = Conn
    /\ listening = {}
    /\ known = [c \in Conn |-> {}]
    /\ closing = [c \in Conn |-> "no"]
    /\ stop = "no" /\ sweep = {} /\ stopAt = None /\ cut = {}

-----------------------------------------------------------------------------
(* Handle: the first frame                                                 *)

\* The listener enters the connection in its table, which Stop's sweep locks.
Begin(c) ==
    /\ pc[c] = "none" /\ stop # "sweep"
    /\ Goto(c, "new")
    /\ UNCHANGED <<res, port, sess, sock, known, closing, stopping>>

\* Silence, a bad frame, a transport or tunnel type that is not allowed, a
\* wrong token.
Refuse(c) ==
    /\ pc[c] = "new"
    /\ Goto(c, "return")
    /\ UNCHANGED <<res, port, sess, sock, known, closing, stopping>>

-----------------------------------------------------------------------------
(* PortAllocator, under its mutex                                          *)

Probe(p) == p \notin Busy /\ \A c \in listening : port[c] # p
Free(p)  == p \notin used /\ Probe(p)
Asked(c) == {p \in Port : TcpName[p] = Custom[c]}   \* parseTCPSubdomainPort

\* Wrong variant: the reservation map is not looked up.
Mut_Allocate(c) ==
    /\ c \in TCP /\ pc[c] = "new"
    /\ \E p \in (IF Asked(c) = {} THEN Port ELSE Asked(c)) :
        /\ Probe(p)
        /\ used' = used \cup {p}
        /\ port' = [port EXCEPT ![c] = p]
    /\ Goto(c, "register")
    /\ UNCHANGED <<names, groups, members, listening, sess, sock, known, closing, stopping>>

\* AllocateSpecific for a name "tcp-<port>", Allocate otherwise.
Allocate(c) ==
    /\ c \in TCP /\ pc[c] = "new"
    /\ \E p \in (IF Asked(c) = {} THEN Port ELSE Asked(c)) :
        /\ Free(p)
        /\ used' = used \cup {p}
        /\ port' = [port EXCEPT ![c] = p]
    /\ Goto(c, "register")
    /\ UNCHANGED <<names, groups, members, listening, sess, sock, known, closing, stopping>>

\* Allocate draws at random, as often as there are ports, and may keep drawing
\* one that is not free.
AllocateFails(c) ==
    /\ c \in TCP /\ pc[c] = "new"
    /\ \E p \in (IF Asked(c) = {} THEN Port ELSE Asked(c)) : ~Free(p)
    /\ Goto(c, "return")
    /\ UNCHANGED <<res, port, sess, sock, known, closing, stopping>>

-----------------------------------------------------------------------------
(* The registration                                                        *)

NameFor(c) ==
    IF Custom[c] # None THEN Custom[c]
    ELSE IF port[c] # None THEN TcpName[port[c]] ELSE None

AtRegister(c) == c \in Primary /\ pc[c] = IF c \in TCP THEN "register" ELSE "new"

RegisterName(c) ==
    /\ AtRegister(c) /\ names[NameFor(c)] = None
    /\ names' = [names EXCEPT ![NameFor(c)] = c]
    /\ Goto(c, "port")
    /\ UNCHANGED <<used, groups, members, listening, port, sess, sock, known, closing, stopping>>

\* Wrong variant: a refused tunnel keeps its port.
Mut_RegisterRefused(c) ==
    /\ AtRegister(c)
    /\ Goto(c, "return")
    /\ UNCHANGED <<res, port, sess, sock, known, closing, stopping>>

\* The name is taken, invalid or reserved, or the registry is full.
RegisterRefused(c) ==
    /\ AtRegister(c)
    /\ Goto(c, IF c \in TCP THEN "release" ELSE "return")
    /\ UNCHANGED <<res, port, sess, sock, known, closing, stopping>>

ReleaseRefused(c) ==
    /\ pc[c] = "release"
    /\ used' = used \ {port[c]}
    /\ Goto(c, "return")
    /\ UNCHANGED <<names, groups, members, listening, port, sess, sock, known, closing, stopping>>

\* lifecycleManager.SetPortAllocation, then SetTunnelRegistration.
SetPort(c) ==
    /\ pc[c] = "port"
    /\ Knows(c, IF c \in TCP THEN {"port"} ELSE {})
    /\ Goto(c, "name")
    /\ UNCHANGED <<res, port, sess, sock, closing, stopping>>

SetName(c) ==
    /\ pc[c] = "name"
    /\ Knows(c, {"name"})
    /\ Goto(c, IF c \in Pooled THEN "group" ELSE "ack")
    /\ UNCHANGED <<res, port, sess, sock, closing, stopping>>

CreateGroup(c) ==
    /\ pc[c] = "group"
    /\ groups' = groups \cup {c}
    /\ Goto(c, "tunnelID")
    /\ UNCHANGED <<used, names, members, listening, port, sess, sock, known, closing, stopping>>

SetTunnelID(c) ==
    /\ pc[c] = "tunnelID"
    /\ Knows(c, {"group"})
    /\ Goto(c, "ack")
    /\ UNCHANGED <<res, port, sess, sock, closing, stopping>>

\* The acknowledgement, of a registration or of a data connection.
SendAck(c) ==
    /\ pc[c] = "ack"
    /\ Goto(c, IF c \in sock THEN "session" ELSE "return")
    /\ UNCHANGED <<res, port, sess, sock, known, closing, stopping>>

-----------------------------------------------------------------------------
(* handleTCPTunnel, handleHTTPProxyTunnel, DataConnectionHandler           *)

\* GetGroup: the client got the tunnel ID with the primary's acknowledgement.
FindGroup(d) ==
    /\ d \in Data /\ pc[d] = "new"
    /\ pc[PrimaryOf[d]] \notin {"none", "new", "register", "release", "port", "name",
                                "group", "tunnelID", "ack"}
    /\ Goto(d, IF PrimaryOf[d] \in groups THEN "ack" ELSE "return")
    /\ UNCHANGED <<res, port, sess, sock, known, closing, stopping>>

NewSession(c) ==
    /\ pc[c] = "session"
    /\ sess' = [sess EXCEPT ![c] = "open"]
    /\ Knows(c, {"session"})
    /\ Goto(c, "join")
    /\ UNCHANGED <<res, port, sock, closing, stopping>>

\* AddSession: the primary looks its group up again, a data connection adds to
\* the group it found before its acknowledgement, removed or not.
AddSession(c) ==
    /\ pc[c] = "join"
    /\ LET g == IF c \in Data THEN PrimaryOf[c] ELSE c IN
        IF c \in Data \/ c \in groups
        THEN members' = [members EXCEPT ![g] = @ \cup {c}] ELSE UNCHANGED members
    /\ Goto(c, IF c \in TCP THEN "proxy" ELSE "up")
    /\ UNCHANGED <<used, names, groups, listening, port, sess, sock, known, closing, stopping>>

SetProxy(c) ==
    /\ pc[c] = "proxy"
    /\ Knows(c, {"proxy"})
    /\ Goto(c, "listen")
    /\ UNCHANGED <<res, port, sess, sock, closing, stopping>>

\* Proxy.Start listens on the port, which somebody else may have taken.
StartProxy(c) ==
    /\ pc[c] = "listen"
    /\ \/ Probe(port[c]) /\ listening' = listening \cup {c} /\ Goto(c, "up")
       \/ ~Probe(port[c]) /\ UNCHANGED listening /\ Goto(c, "return")
    /\ UNCHANGED <<used, names, groups, members, port, sess, sock, known, closing, stopping>>

\* Wrong variant: only stopCh is waited for, not the session.
Mut_TunnelEnds(c) ==
    /\ pc[c] = "up" /\ closing[c] # "no"
    /\ Goto(c, IF c \in Data THEN "leave" ELSE "return")
    /\ UNCHANGED <<res, port, sess, sock, known, closing, stopping>>

\* stopCh is closed, or the session is.
TunnelEnds(c) ==
    /\ pc[c] = "up" /\ (closing[c] # "no" \/ ~SessionOpen(c))
    /\ Goto(c, IF c \in Data THEN "leave" ELSE "return")
    /\ UNCHANGED <<res, port, sess, sock, known, closing, stopping>>

\* Wrong variant: the session that is removed is any of the group's.
Mut_RemoveSession(d) ==
    /\ pc[d] = "leave"
    /\ \E x \in members[PrimaryOf[d]] :
        /\ members' = [members EXCEPT ![PrimaryOf[d]] = @ \ {x}]
        /\ sess' = [sess EXCEPT ![x] = "closed"]
    /\ Goto(d, "return")
    /\ UNCHANGED <<used, names, groups, listening, port, sock, known, closing, stopping>>

\* RemoveSession of a data connection, deferred.
RemoveSession(d) ==
    /\ pc[d] = "leave"
    /\ members' = [members EXCEPT ![PrimaryOf[d]] = @ \ {d}]
    /\ sess' = IF d \in members[PrimaryOf[d]] THEN [sess EXCEPT ![d] = "closed"] ELSE sess
    /\ Goto(d, "return")
    /\ UNCHANGED <<used, names, groups, listening, port, sock, known, closing, stopping>>

\* The deferred Close has returned; once.Do waits for one that runs elsewhere.
Return(c) ==
    /\ pc[c] = "return" /\ closing[c] = "done"
    /\ Goto(c, "ended")
    /\ UNCHANGED <<res, port, sess, sock, known, closing, stopping>>

\* The client goes, or its keepalive fails.
ClientGone(c) ==
    /\ c \in sock /\ Begun(c)
    /\ sock' = sock \ {c}
    /\ UNCHANGED <<res, pc, port, sess, known, closing, stopping>>

-----------------------------------------------------------------------------
(* ConnectionLifecycleManager.Close                                        *)

Step(c, from, to) == closing[c] = from /\ closing' = [closing EXCEPT ![c] = to]

\* close(stopCh), cancel, and a deadline that makes the socket fail.
Signal(c) ==
    /\ Step(c, "no", "proxy")
    /\ sock' = sock \ {c}

CloseBegins(c) ==
    /\ pc[c] = "return" /\ Signal(c)
    /\ UNCHANGED <<res, pc, port, sess, known, stopping>>

\* Wrong variant: the proxy keeps its listener.
Mut_CloseProxy(c) ==
    /\ Step(c, "proxy", "session")
    /\ UNCHANGED <<res, pc, port, sess, sock, known, stopping>>

CloseProxy(c) ==
    /\ Step(c, "proxy", "session")
    /\ listening' = IF "proxy" \in known[c] THEN listening \ {c} ELSE listening
    /\ UNCHANGED <<used, names, groups, members, pc, port, sess, sock, known, stopping>>

CloseSession(c) ==
    /\ Step(c, "session", "port")
    /\ sess' = IF "session" \in known[c] THEN [sess EXCEPT ![c] = "closed"] ELSE sess
    /\ UNCHANGED <<res, pc, port, sock, known, stopping>>

ReleasePort(c) ==
    /\ Step(c, "port", "name")
    /\ used' = IF "port" \in known[c] THEN used \ {port[c]} ELSE used
    /\ UNCHANGED <<names, groups, members, listening, pc, port, sess, sock, known, stopping>>

\* Wrong variant: the name the client asked for is unregistered, whether or not
\* the connection got it.
Mut_Unregister(c) ==
    /\ Step(c, "name", "group")
    /\ names' = IF c \in Primary THEN [n \in Name |-> IF n = NameFor(c) THEN None ELSE names[n]]
                                 ELSE names
    /\ UNCHANGED <<used, groups, members, listening, pc, port, sess, sock, known, stopping>>

\* manager.Unregister, by name.
Unregister(c) ==
    /\ Step(c, "name", "group")
    /\ names' = IF "name" \in known[c] THEN [names EXCEPT ![NameFor(c)] = None] ELSE names
    /\ UNCHANGED <<used, groups, members, listening, pc, port, sess, sock, known, stopping>>

\* RemoveGroup takes the group out of the map and closes its sessions.
RemoveGroup(c) ==
    /\ Step(c, "group", "done")
    /\ IF "group" \in known[c] /\ c \in groups
       THEN /\ groups' = groups \ {c}
            /\ sess' = [x \in Conn |-> IF x \in members[c] THEN "closed" ELSE sess[x]]
            /\ members' = [members EXCEPT ![c] = {}]
       ELSE UNCHANGED <<groups, sess, members>>
    /\ UNCHANGED <<used, names, listening, pc, port, sock, known, stopping>>

-----------------------------------------------------------------------------
(* Listener.Stop closes the connections of its table one after another.    *)

StopBegins ==
    /\ MayStop /\ stop = "no"
    /\ stop' = "sweep"
    /\ sweep' = {c \in Conn : Begun(c)}
    /\ UNCHANGED <<res, pc, port, sess, sock, known, closing, stopAt, cut>>

\* The call of Close, which does nothing where another one has begun.
StopCloses(c) ==
    /\ c \in sweep /\ stopAt = None
    /\ sweep' = sweep \ {c} /\ stopAt' = c
    /\ \/ /\ Signal(c)
          /\ cut' = IF pc[c] \in {"up", "leave", "return"} THEN cut ELSE cut \cup {c}
       \/ closing[c] # "no" /\ UNCHANGED <<closing, sock, cut>>
    /\ UNCHANGED <<res, pc, port, sess, known, stop>>

\* That Close, or the one it waited for in once.Do, has returned.
StopNext ==
    /\ stop = "sweep"
    /\ \/ stopAt # None /\ closing[stopAt] = "done" /\ stopAt' = None /\ UNCHANGED stop
       \/ stopAt = None /\ sweep = {} /\ stop' = "done" /\ UNCHANGED stopAt
    /\ UNCHANGED <<res, pc, port, sess, sock, known, closing, sweep, cut>>

-----------------------------------------------------------------------------
Closing(c) ==
    \/ CloseBegins(c) \/ CloseProxy(c) \/ CloseSession(c) \/ ReleasePort(c)
    \/ Unregister(c) \/ RemoveGroup(c)

Handle(c) ==
    \/ Refuse(c) \/ SendAck(c) \/ NewSession(c) \/ AddSession(c) \/ TunnelEnds(c) \/ Return(c)
    \/ c \in Primary /\ \/ Allocate(c) \/ AllocateFails(c)
                        \/ RegisterName(c) \/ RegisterRefused(c) \/ ReleaseRefused(c)
                        \/ SetPort(c) \/ SetName(c) \/ CreateGroup(c) \/ SetTunnelID(c)
                        \/ SetProxy(c) \/ StartProxy(c)
    \/ c \in Data /\ (FindGroup(c) \/ RemoveSession(c))

Stop == StopNext \/ \E c \in Conn : StopCloses(c)

Next ==
    \/ \E c \in Conn : Begin(c) \/ Handle(c) \/ ClientGone(c) \/ Closing(c)
    \/ StopBegins \/ Stop

Spec == Init /\ [][Next]_vars

(***************************************************************************)
(* Handle never waits without a bound before its tunnel is up: the first   *)
(* frame has thirty seconds, and so has the proxy to stop.  Clients need   *)
(* not come or go.                                                         *)
(***************************************************************************)
Fairness ==
    /\ \A c \in Conn : WF_vars(Handle(c)) /\ WF_vars(Closing(c))
    /\ WF_vars(Stop)

FairSpec == Spec /\ Fairness

-----------------------------------------------------------------------------
(* Properties                                                              *)

Places == {"none", "new", "register", "release", "port", "name", "group", "tunnelID",
           "ack", "session", "join", "proxy", "listen", "up", "leave", "return", "ended"}
Steps == {"no", "proxy", "session", "port", "name", "group", "done"}

\* The values the variables may take.
TypeOK ==
    /\ used \subseteq Port /\ names \in [Name -> Primary \cup {None}]
    /\ groups \subseteq Pooled /\ members \in [Primary -> SUBSET Conn]
    /\ pc \in [Conn -> Places] /\ port \in [Primary -> Port \cup {None}]
    /\ sess \in [Conn -> {"none", "open", "closed"}] /\ sock \subseteq Conn
    /\ listening \subseteq TCP
    /\ known \in [Conn -> SUBSET {"port", "name", "group", "session", "proxy"}]
    /\ closing \in [Conn -> Steps]
    /\ stop \in {"no", "sweep", "done"} /\ sweep \subseteq Conn
    /\ stopAt \in Conn \cup {None} /\ cut \subseteq Conn

\* A connection that was allocated a port and has not released it.
Holds(c) ==
    \/ pc[c] \in {"register", "release"}
    \/ pc[c] = "port" /\ c \in TCP
    \/ "port" \in known[c] /\ closing[c] \in {"no", "proxy", "session", "port"}

\* A port has one holder at a time and is reserved as long as it has one,
\* however registrations, refusals, closing and Stop interleave.
PortLease ==
    \A c \in TCP : Holds(c) =>
        /\ port[c] \in used
        /\ \A d \in TCP \ {c} : Holds(d) => port[d] # port[c]

\* A proxy listens only on a port its connection holds, and no other proxy of
\* the server is in the way of one about to listen: a port is not given back
\* before its listener is closed.  Connections cut short by Stop excepted.
ProxyOwnsPort ==
    \A c \in listening \ cut :
        /\ Holds(c)
        /\ \A d \in TCP \ cut : pc[d] = "listen" => port[d] # port[c]

\* Everything a connection collected is given back when it has ended, at
\* whatever point it failed, unless Stop closed it before its tunnel was up.
NoLeak ==
    /\ \A c \in Primary \ cut : pc[c] = "ended" =>
        /\ c \notin groups \cup listening /\ sess[c] # "open"
        /\ \A n \in Name : names[n] # c
    /\ \A p \in used : \E c \in TCP : port[c] = p /\ (Holds(c) \/ c \in cut)

\* A tunnel that is up, and that nobody is closing, has all it needs: its name
\* leads to it, its proxy listens, and its group is known by its ID and has its
\* session.  No other connection's failure or end takes any of it away.
UpIsComplete ==
    \A c \in Primary : pc[c] = "up" /\ closing[c] = "no" =>
        /\ names[NameFor(c)] = c
        /\ c \in TCP => c \in listening /\ port[c] \in used
        /\ c \in Pooled => c \in groups /\ c \in members[c]

\* When its client has gone, a connection ends, with all that takes.
GoneEnds == \A c \in Conn : (Begun(c) /\ c \notin sock) ~> pc[c] = "ended"
=============================================================================
