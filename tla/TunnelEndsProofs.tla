--------------------------- MODULE TunnelEndsProofs ---------------------------
(***************************************************************************)
(* Theorems about the two ends of a tunnel: TunnelSession for every set of *)
(* connections, names and ports, with Stop at any moment, and Daemons for  *)
(* every set of processes, process numbers and commands.                   *)
(***************************************************************************)
EXTENDS MCTunnelEnds, TLAPS

-----------------------------------------------------------------------------
(* The session                                                             *)

\* The places after the name is known.
Late == {"group", "tunnelID", "ack", "session", "join", "proxy", "listen", "up"}

\* Which connections come to a place, and when a primary has a port.
PlaceOK ==
    \A c \in Conn :
        /\ pc[c] \in {"register", "release", "proxy", "listen"} => c \in TCP
        /\ pc[c] \in {"port", "name"} => c \in Primary
        /\ pc[c] \in {"group", "tunnelID"} => c \in Pooled
        /\ pc[c] = "leave" => c \in Data
        /\ c \in Primary /\ pc[c] \in {"none", "new"} => port[c] = None
        /\ c \in TCP /\ pc[c] \notin {"none", "new", "return", "ended"} => port[c] \in Port

\* What the lifecycle manager knows: nothing that is not so, and all there is
\* once Handle has passed the place where it tells it.
KnownOK ==
    \A c \in Conn :
        /\ pc[c] \in {"none", "new", "register", "release", "port"} => known[c] = {}
        /\ "port" \in known[c] => c \in TCP /\ port[c] \in Port
        /\ c \in TCP /\ pc[c] \in {"name"} \cup Late => "port" \in known[c]
        /\ "name" \in known[c] => c \in Primary /\ pc[c] # "name"
        /\ c \in Primary /\ pc[c] \in Late => "name" \in known[c]
        /\ "group" \in known[c] => c \in Pooled
        /\ c \in Pooled /\ pc[c] \in Late \ {"group", "tunnelID"} => "group" \in known[c]
        /\ pc[c] \in {"join", "proxy", "listen", "up"} => "session" \in known[c]
        /\ sess[c] # "none" \/ (\E g \in Primary : c \in members[g]) => "session" \in known[c]
        /\ "proxy" \in known[c] => "port" \in known[c]
        /\ pc[c] = "listen" \/ c \in listening => "proxy" \in known[c]

\* Only Stop closes a connection before its tunnel is up.
CloseOK ==
    \A c \in Conn :
        /\ closing[c] # "no" => c \in cut \/ pc[c] \in {"up", "leave", "return", "ended"}
        /\ pc[c] = "ended" => closing[c] = "done"

\* A name leads to the one connection that registered it and has not
\* unregistered it.
HasName(c) ==
    \/ pc[c] \in {"port", "name"}
    \/ "name" \in known[c] /\ closing[c] \in {"no", "proxy", "session", "port", "name"}

NamesOK ==
    \A c \in Primary :
        /\ HasName(c) => names[NameFor(c)] = c
        /\ \A n \in Name : names[n] = c =>
            n = NameFor(c) /\ (pc[c] \in {"port", "name"} \/ "name" \in known[c])

\* A group is in the map from CreateGroup to RemoveGroup, and has the session
\* of its primary since it was added.
GroupsOK ==
    \A c \in Pooled :
        /\ c \in groups => pc[c] = "tunnelID" \/ "group" \in known[c]
        /\ pc[c] = "tunnelID" \/ "group" \in known[c] => closing[c] = "done" \/ c \in groups
        /\ pc[c] \in {"proxy", "listen", "up"} => closing[c] = "done" \/ c \in members[c]

\* A proxy listens from StartProxy to CloseProxy.
ListenOK ==
    \A c \in TCP :
        /\ c \in listening => c \in cut \/ (closing[c] \in {"no", "proxy"} /\ pc[c] \in {"up", "return"})
        /\ pc[c] = "up" /\ closing[c] \in {"no", "proxy"} => c \in listening

\* What each step of Close has given back stays given back, unless Stop came
\* before the tunnel was up.
GivenBack ==
    \A c \in Primary \ cut :
        /\ closing[c] \in {"port", "name", "group", "done"} => sess[c] # "open"
        /\ closing[c] \in {"group", "done"} => \A n \in Name : names[n] # c
        /\ closing[c] = "done" => c \notin groups

\* No port is reserved for nobody.
UsedHasHolder == \A p \in used : \E c \in TCP : port[c] = p /\ (Holds(c) \/ c \in cut)

SessionInv ==
    /\ TypeOK /\ PlaceOK /\ KnownOK /\ CloseOK /\ PortLease /\ UsedHasHolder
    /\ NamesOK /\ GroupsOK /\ ListenOK /\ GivenBack

USE SessionAssumption

LEMMA InitSession == Init => SessionInv
BY DEF Init, SessionInv, TypeOK, PlaceOK, KnownOK, CloseOK, PortLease, UsedHasHolder, NamesOK, GroupsOK, ListenOK, GivenBack, Places, Steps, Late, Holds, HasName, NameFor, Conn

-----------------------------------------------------------------------------
(* Each part is kept by every step.                                        *)

LEMMA NextType == TypeOK /\ PlaceOK /\ [Next]_vars => TypeOK'
<1> SUFFICES ASSUME TypeOK, PlaceOK, [Next]_vars PROVE TypeOK'
  OBVIOUS
<1> USE DEF TypeOK, Places, Steps, Goto, Knows, Step, Signal, Begun, Conn, res, stopping, PlaceOK
<1>1. ASSUME NEW c \in Conn, Begin(c) PROVE TypeOK'
  BY <1>1 DEF Begin
<1>2. ASSUME NEW c \in Conn, Refuse(c) PROVE TypeOK'
  BY <1>2 DEF Refuse
<1>3. ASSUME NEW c \in Conn, SendAck(c) PROVE TypeOK'
  BY <1>3 DEF SendAck
<1>4. ASSUME NEW c \in Conn, NewSession(c) PROVE TypeOK'
  BY <1>4 DEF NewSession
<1>5. ASSUME NEW c \in Conn, AddSession(c) PROVE TypeOK'
  BY <1>5 DEF AddSession
<1>6. ASSUME NEW c \in Conn, TunnelEnds(c) PROVE TypeOK'
  BY <1>6 DEF TunnelEnds, SessionOpen
<1>7. ASSUME NEW c \in Conn, Return(c) PROVE TypeOK'
  BY <1>7 DEF Return
<1>8. ASSUME NEW c \in Primary, Allocate(c) PROVE TypeOK'
  <2>1. PICK p \in Port : p \notin used /\ used' = used \cup {p} /\ port' = [port EXCEPT ![c] = p]
    BY <1>8 DEF Allocate, Free, Asked
  <2>2. port'[c] = p /\ \A d \in Primary \ {c} : port'[d] = port[d]
    BY <2>1
  <2> QED
    BY <1>8, <2>1, <2>2 DEF Allocate
<1>9. ASSUME NEW c \in Primary, AllocateFails(c) PROVE TypeOK'
  BY <1>9 DEF AllocateFails
<1>10. ASSUME NEW c \in Primary, RegisterName(c) PROVE TypeOK'
  BY <1>10 DEF RegisterName, AtRegister
<1>11. ASSUME NEW c \in Primary, RegisterRefused(c) PROVE TypeOK'
  BY <1>11 DEF RegisterRefused, AtRegister
<1>12. ASSUME NEW c \in Primary, ReleaseRefused(c) PROVE TypeOK'
  BY <1>12 DEF ReleaseRefused
<1>13. ASSUME NEW c \in Primary, SetPort(c) PROVE TypeOK'
  BY <1>13 DEF SetPort
<1>14. ASSUME NEW c \in Primary, SetName(c) PROVE TypeOK'
  BY <1>14 DEF SetName
<1>15. ASSUME NEW c \in Primary, CreateGroup(c) PROVE TypeOK'
  BY <1>15 DEF CreateGroup
<1>16. ASSUME NEW c \in Primary, SetTunnelID(c) PROVE TypeOK'
  BY <1>16 DEF SetTunnelID
<1>17. ASSUME NEW c \in Primary, SetProxy(c) PROVE TypeOK'
  BY <1>17 DEF SetProxy
<1>18. ASSUME NEW c \in Primary, StartProxy(c) PROVE TypeOK'
  BY <1>18 DEF StartProxy
<1>19. ASSUME NEW c \in Data, FindGroup(c) PROVE TypeOK'
  BY <1>19 DEF FindGroup
<1>20. ASSUME NEW c \in Data, RemoveSession(c) PROVE TypeOK'
  BY <1>20 DEF RemoveSession
<1>21. ASSUME NEW c \in Conn, ClientGone(c) PROVE TypeOK'
  BY <1>21 DEF ClientGone
<1>22. ASSUME NEW c \in Conn, CloseBegins(c) PROVE TypeOK'
  BY <1>22 DEF CloseBegins
<1>23. ASSUME NEW c \in Conn, CloseProxy(c) PROVE TypeOK'
  BY <1>23 DEF CloseProxy
<1>24. ASSUME NEW c \in Conn, CloseSession(c) PROVE TypeOK'
  BY <1>24 DEF CloseSession
<1>25. ASSUME NEW c \in Conn, ReleasePort(c) PROVE TypeOK'
  BY <1>25 DEF ReleasePort
<1>26. ASSUME NEW c \in Conn, Unregister(c) PROVE TypeOK'
  BY <1>26 DEF Unregister
<1>27. ASSUME NEW c \in Conn, RemoveGroup(c) PROVE TypeOK'
  BY <1>27 DEF RemoveGroup
<1>28. ASSUME StopBegins PROVE TypeOK'
  BY <1>28 DEF StopBegins
<1>29. ASSUME NEW c \in Conn, StopCloses(c) PROVE TypeOK'
  BY <1>29 DEF StopCloses
<1>30. ASSUME StopNext PROVE TypeOK'
  BY <1>30 DEF StopNext
<1>31. ASSUME UNCHANGED vars PROVE TypeOK'
  BY <1>31 DEF vars
<1> QED
  BY <1>1, <1>2, <1>3, <1>4, <1>5, <1>6, <1>7, <1>8, <1>9, <1>10, <1>11, <1>12, <1>13,
     <1>14, <1>15, <1>16, <1>17, <1>18, <1>19, <1>20, <1>21, <1>22, <1>23, <1>24, <1>25,
     <1>26, <1>27, <1>28, <1>29, <1>30, <1>31 DEF Next, Handle, Closing, Stop

LEMMA NextPlace == TypeOK /\ PlaceOK /\ [Next]_vars => PlaceOK'
<1> SUFFICES ASSUME TypeOK, PlaceOK, [Next]_vars PROVE PlaceOK'
  OBVIOUS
<1> USE DEF TypeOK, Places, Steps, Goto, Knows, Step, Signal, Begun, Conn, res, stopping, PlaceOK
<1>1. ASSUME NEW c \in Conn, Begin(c) PROVE PlaceOK'
  BY <1>1 DEF Begin
<1>2. ASSUME NEW c \in Conn, Refuse(c) PROVE PlaceOK'
  BY <1>2 DEF Refuse
<1>3. ASSUME NEW c \in Conn, SendAck(c) PROVE PlaceOK'
  BY <1>3 DEF SendAck
<1>4. ASSUME NEW c \in Conn, NewSession(c) PROVE PlaceOK'
  BY <1>4 DEF NewSession
<1>5. ASSUME NEW c \in Conn, AddSession(c) PROVE PlaceOK'
  BY <1>5 DEF AddSession
<1>6. ASSUME NEW c \in Conn, TunnelEnds(c) PROVE PlaceOK'
  BY <1>6 DEF TunnelEnds, SessionOpen
<1>7. ASSUME NEW c \in Conn, Return(c) PROVE PlaceOK'
  BY <1>7 DEF Return
<1>8. ASSUME NEW c \in Primary, Allocate(c) PROVE PlaceOK'
  <2>1. PICK p \in Port : p \notin used /\ used' = used \cup {p} /\ port' = [port EXCEPT ![c] = p]
    BY <1>8 DEF Allocate, Free, Asked
  <2>2. port'[c] = p /\ \A d \in Primary \ {c} : port'[d] = port[d]
    BY <2>1
  <2> QED
    BY <1>8, <2>1, <2>2 DEF Allocate
<1>9. ASSUME NEW c \in Primary, AllocateFails(c) PROVE PlaceOK'
  BY <1>9 DEF AllocateFails
<1>10. ASSUME NEW c \in Primary, RegisterName(c) PROVE PlaceOK'
  BY <1>10 DEF RegisterName, AtRegister
<1>11. ASSUME NEW c \in Primary, RegisterRefused(c) PROVE PlaceOK'
  BY <1>11 DEF RegisterRefused, AtRegister
<1>12. ASSUME NEW c \in Primary, ReleaseRefused(c) PROVE PlaceOK'
  BY <1>12 DEF ReleaseRefused
<1>13. ASSUME NEW c \in Primary, SetPort(c) PROVE PlaceOK'
  BY <1>13 DEF SetPort
<1>14. ASSUME NEW c \in Primary, SetName(c) PROVE PlaceOK'
  BY <1>14 DEF SetName
<1>15. ASSUME NEW c \in Primary, CreateGroup(c) PROVE PlaceOK'
  BY <1>15 DEF CreateGroup
<1>16. ASSUME NEW c \in Primary, SetTunnelID(c) PROVE PlaceOK'
  BY <1>16 DEF SetTunnelID
<1>17. ASSUME NEW c \in Primary, SetProxy(c) PROVE PlaceOK'
  BY <1>17 DEF SetProxy
<1>18. ASSUME NEW c \in Primary, StartProxy(c) PROVE PlaceOK'
  BY <1>18 DEF StartProxy
<1>19. ASSUME NEW c \in Data, FindGroup(c) PROVE PlaceOK'
  BY <1>19 DEF FindGroup
<1>20. ASSUME NEW c \in Data, RemoveSession(c) PROVE PlaceOK'
  BY <1>20 DEF RemoveSession
<1>21. ASSUME NEW c \in Conn, ClientGone(c) PROVE PlaceOK'
  BY <1>21 DEF ClientGone
<1>22. ASSUME NEW c \in Conn, CloseBegins(c) PROVE PlaceOK'
  BY <1>22 DEF CloseBegins
<1>23. ASSUME NEW c \in Conn, CloseProxy(c) PROVE PlaceOK'
  BY <1>23 DEF CloseProxy
<1>24. ASSUME NEW c \in Conn, CloseSession(c) PROVE PlaceOK'
  BY <1>24 DEF CloseSession
<1>25. ASSUME NEW c \in Conn, ReleasePort(c) PROVE PlaceOK'
  BY <1>25 DEF ReleasePort
<1>26. ASSUME NEW c \in Conn, Unregister(c) PROVE PlaceOK'
  BY <1>26 DEF Unregister
<1>27. ASSUME NEW c \in Conn, RemoveGroup(c) PROVE PlaceOK'
  BY <1>27 DEF RemoveGroup
<1>28. ASSUME StopBegins PROVE PlaceOK'
  BY <1>28 DEF StopBegins
<1>29. ASSUME NEW c \in Conn, StopCloses(c) PROVE PlaceOK'
  BY <1>29 DEF StopCloses
<1>30. ASSUME StopNext PROVE PlaceOK'
  BY <1>30 DEF StopNext
<1>31. ASSUME UNCHANGED vars PROVE PlaceOK'
  BY <1>31 DEF vars
<1> QED
  BY <1>1, <1>2, <1>3, <1>4, <1>5, <1>6, <1>7, <1>8, <1>9, <1>10, <1>11, <1>12, <1>13,
     <1>14, <1>15, <1>16, <1>17, <1>18, <1>19, <1>20, <1>21, <1>22, <1>23, <1>24, <1>25,
     <1>26, <1>27, <1>28, <1>29, <1>30, <1>31 DEF Next, Handle, Closing, Stop

LEMMA NextKnown == TypeOK /\ PlaceOK /\ KnownOK /\ [Next]_vars => KnownOK'
<1> SUFFICES ASSUME TypeOK, PlaceOK, KnownOK, [Next]_vars PROVE KnownOK'
  OBVIOUS
<1> USE DEF TypeOK, Places, Steps, Goto, Knows, Step, Signal, Begun, Conn, res, stopping, PlaceOK, KnownOK, Late
<1>1. ASSUME NEW c \in Conn, Begin(c) PROVE KnownOK'
  BY <1>1 DEF Begin
<1>2. ASSUME NEW c \in Conn, Refuse(c) PROVE KnownOK'
  BY <1>2 DEF Refuse
<1>3. ASSUME NEW c \in Conn, SendAck(c) PROVE KnownOK'
  BY <1>3 DEF SendAck
<1>4. ASSUME NEW c \in Conn, NewSession(c) PROVE KnownOK'
  BY <1>4 DEF NewSession
<1>5. ASSUME NEW c \in Conn, AddSession(c) PROVE KnownOK'
  BY <1>5 DEF AddSession
<1>6. ASSUME NEW c \in Conn, TunnelEnds(c) PROVE KnownOK'
  BY <1>6 DEF TunnelEnds, SessionOpen
<1>7. ASSUME NEW c \in Conn, Return(c) PROVE KnownOK'
  BY <1>7 DEF Return
<1>8. ASSUME NEW c \in Primary, Allocate(c) PROVE KnownOK'
  BY <1>8 DEF Allocate, Free
<1>9. ASSUME NEW c \in Primary, AllocateFails(c) PROVE KnownOK'
  BY <1>9 DEF AllocateFails
<1>10. ASSUME NEW c \in Primary, RegisterName(c) PROVE KnownOK'
  BY <1>10 DEF RegisterName, AtRegister
<1>11. ASSUME NEW c \in Primary, RegisterRefused(c) PROVE KnownOK'
  BY <1>11 DEF RegisterRefused, AtRegister
<1>12. ASSUME NEW c \in Primary, ReleaseRefused(c) PROVE KnownOK'
  BY <1>12 DEF ReleaseRefused
<1>13. ASSUME NEW c \in Primary, SetPort(c) PROVE KnownOK'
  BY <1>13 DEF SetPort
<1>14. ASSUME NEW c \in Primary, SetName(c) PROVE KnownOK'
  BY <1>14 DEF SetName
<1>15. ASSUME NEW c \in Primary, CreateGroup(c) PROVE KnownOK'
  BY <1>15 DEF CreateGroup
<1>16. ASSUME NEW c \in Primary, SetTunnelID(c) PROVE KnownOK'
  BY <1>16 DEF SetTunnelID
<1>17. ASSUME NEW c \in Primary, SetProxy(c) PROVE KnownOK'
  BY <1>17 DEF SetProxy
<1>18. ASSUME NEW c \in Primary, StartProxy(c) PROVE KnownOK'
  BY <1>18 DEF StartProxy
<1>19. ASSUME NEW c \in Data, FindGroup(c) PROVE KnownOK'
  BY <1>19 DEF FindGroup
<1>20. ASSUME NEW c \in Data, RemoveSession(c) PROVE KnownOK'
  BY <1>20 DEF RemoveSession
<1>21. ASSUME NEW c \in Conn, ClientGone(c) PROVE KnownOK'
  BY <1>21 DEF ClientGone
<1>22. ASSUME NEW c \in Conn, CloseBegins(c) PROVE KnownOK'
  BY <1>22 DEF CloseBegins
<1>23. ASSUME NEW c \in Conn, CloseProxy(c) PROVE KnownOK'
  BY <1>23 DEF CloseProxy
<1>24. ASSUME NEW c \in Conn, CloseSession(c) PROVE KnownOK'
  BY <1>24 DEF CloseSession
<1>25. ASSUME NEW c \in Conn, ReleasePort(c) PROVE KnownOK'
  BY <1>25 DEF ReleasePort
<1>26. ASSUME NEW c \in Conn, Unregister(c) PROVE KnownOK'
  BY <1>26 DEF Unregister
<1>27. ASSUME NEW c \in Conn, RemoveGroup(c) PROVE KnownOK'
  BY <1>27 DEF RemoveGroup
<1>28. ASSUME StopBegins PROVE KnownOK'
  BY <1>28 DEF StopBegins
<1>29. ASSUME NEW c \in Conn, StopCloses(c) PROVE KnownOK'
  BY <1>29 DEF StopCloses
<1>30. ASSUME StopNext PROVE KnownOK'
  BY <1>30 DEF StopNext
<1>31. ASSUME UNCHANGED vars PROVE KnownOK'
  BY <1>31 DEF vars
<1> QED
  BY <1>1, <1>2, <1>3, <1>4, <1>5, <1>6, <1>7, <1>8, <1>9, <1>10, <1>11, <1>12, <1>13,
     <1>14, <1>15, <1>16, <1>17, <1>18, <1>19, <1>20, <1>21, <1>22, <1>23, <1>24, <1>25,
     <1>26, <1>27, <1>28, <1>29, <1>30, <1>31 DEF Next, Handle, Closing, Stop

LEMMA NextClose == TypeOK /\ CloseOK /\ [Next]_vars => CloseOK'
<1> SUFFICES ASSUME TypeOK, CloseOK, [Next]_vars PROVE CloseOK'
  OBVIOUS
<1> USE DEF TypeOK, Places, Steps, Goto, Knows, Step, Signal, Begun, Conn, res, stopping, CloseOK
<1>1. ASSUME NEW c \in Conn, Begin(c) PROVE CloseOK'
  BY <1>1 DEF Begin
<1>2. ASSUME NEW c \in Conn, Refuse(c) PROVE CloseOK'
  BY <1>2 DEF Refuse
<1>3. ASSUME NEW c \in Conn, SendAck(c) PROVE CloseOK'
  BY <1>3 DEF SendAck
<1>4. ASSUME NEW c \in Conn, NewSession(c) PROVE CloseOK'
  BY <1>4 DEF NewSession
<1>5. ASSUME NEW c \in Conn, AddSession(c) PROVE CloseOK'
  BY <1>5 DEF AddSession
<1>6. ASSUME NEW c \in Conn, TunnelEnds(c) PROVE CloseOK'
  BY <1>6 DEF TunnelEnds, SessionOpen
<1>7. ASSUME NEW c \in Conn, Return(c) PROVE CloseOK'
  BY <1>7 DEF Return
<1>8. ASSUME NEW c \in Primary, Allocate(c) PROVE CloseOK'
  BY <1>8 DEF Allocate, Free
<1>9. ASSUME NEW c \in Primary, AllocateFails(c) PROVE CloseOK'
  BY <1>9 DEF AllocateFails
<1>10. ASSUME NEW c \in Primary, RegisterName(c) PROVE CloseOK'
  BY <1>10 DEF RegisterName, AtRegister
<1>11. ASSUME NEW c \in Primary, RegisterRefused(c) PROVE CloseOK'
  BY <1>11 DEF RegisterRefused, AtRegister
<1>12. ASSUME NEW c \in Primary, ReleaseRefused(c) PROVE CloseOK'
  BY <1>12 DEF ReleaseRefused
<1>13. ASSUME NEW c \in Primary, SetPort(c) PROVE CloseOK'
  BY <1>13 DEF SetPort
<1>14. ASSUME NEW c \in Primary, SetName(c) PROVE CloseOK'
  BY <1>14 DEF SetName
<1>15. ASSUME NEW c \in Primary, CreateGroup(c) PROVE CloseOK'
  BY <1>15 DEF CreateGroup
<1>16. ASSUME NEW c \in Primary, SetTunnelID(c) PROVE CloseOK'
  BY <1>16 DEF SetTunnelID
<1>17. ASSUME NEW c \in Primary, SetProxy(c) PROVE CloseOK'
  BY <1>17 DEF SetProxy
<1>18. ASSUME NEW c \in Primary, StartProxy(c) PROVE CloseOK'
  BY <1>18 DEF StartProxy
<1>19. ASSUME NEW c \in Data, FindGroup(c) PROVE CloseOK'
  BY <1>19 DEF FindGroup
<1>20. ASSUME NEW c \in Data, RemoveSession(c) PROVE CloseOK'
  BY <1>20 DEF RemoveSession
<1>21. ASSUME NEW c \in Conn, ClientGone(c) PROVE CloseOK'
  BY <1>21 DEF ClientGone
<1>22. ASSUME NEW c \in Conn, CloseBegins(c) PROVE CloseOK'
  BY <1>22 DEF CloseBegins
<1>23. ASSUME NEW c \in Conn, CloseProxy(c) PROVE CloseOK'
  BY <1>23 DEF CloseProxy
<1>24. ASSUME NEW c \in Conn, CloseSession(c) PROVE CloseOK'
  BY <1>24 DEF CloseSession
<1>25. ASSUME NEW c \in Conn, ReleasePort(c) PROVE CloseOK'
  BY <1>25 DEF ReleasePort
<1>26. ASSUME NEW c \in Conn, Unregister(c) PROVE CloseOK'
  BY <1>26 DEF Unregister
<1>27. ASSUME NEW c \in Conn, RemoveGroup(c) PROVE CloseOK'
  BY <1>27 DEF RemoveGroup
<1>28. ASSUME StopBegins PROVE CloseOK'
  BY <1>28 DEF StopBegins
<1>29. ASSUME NEW c \in Conn, StopCloses(c) PROVE CloseOK'
  BY <1>29 DEF StopCloses
<1>30. ASSUME StopNext PROVE CloseOK'
  BY <1>30 DEF StopNext
<1>31. ASSUME UNCHANGED vars PROVE CloseOK'
  BY <1>31 DEF vars
<1> QED
  BY <1>1, <1>2, <1>3, <1>4, <1>5, <1>6, <1>7, <1>8, <1>9, <1>10, <1>11, <1>12, <1>13,
     <1>14, <1>15, <1>16, <1>17, <1>18, <1>19, <1>20, <1>21, <1>22, <1>23, <1>24, <1>25,
     <1>26, <1>27, <1>28, <1>29, <1>30, <1>31 DEF Next, Handle, Closing, Stop

LEMMA NextPorts == TypeOK /\ PlaceOK /\ KnownOK /\ CloseOK /\ PortLease /\ [Next]_vars => PortLease'
<1> SUFFICES ASSUME TypeOK, PlaceOK, KnownOK, CloseOK, PortLease, [Next]_vars PROVE PortLease'
  OBVIOUS
<1> USE DEF TypeOK, Places, Steps, Goto, Knows, Step, Signal, Begun, Conn, res, stopping, PlaceOK, KnownOK, CloseOK, PortLease, Holds, Late
<1>1. ASSUME NEW c \in Conn, Begin(c) PROVE PortLease'
  BY <1>1 DEF Begin
<1>2. ASSUME NEW c \in Conn, Refuse(c) PROVE PortLease'
  BY <1>2 DEF Refuse
<1>3. ASSUME NEW c \in Conn, SendAck(c) PROVE PortLease'
  BY <1>3 DEF SendAck
<1>4. ASSUME NEW c \in Conn, NewSession(c) PROVE PortLease'
  BY <1>4 DEF NewSession
<1>5. ASSUME NEW c \in Conn, AddSession(c) PROVE PortLease'
  BY <1>5 DEF AddSession
<1>6. ASSUME NEW c \in Conn, TunnelEnds(c) PROVE PortLease'
  BY <1>6 DEF TunnelEnds, SessionOpen
<1>7. ASSUME NEW c \in Conn, Return(c) PROVE PortLease'
  BY <1>7 DEF Return
<1>8. ASSUME NEW c \in Primary, Allocate(c) PROVE PortLease'
  BY <1>8 DEF Allocate, Free
<1>9. ASSUME NEW c \in Primary, AllocateFails(c) PROVE PortLease'
  BY <1>9 DEF AllocateFails
<1>10. ASSUME NEW c \in Primary, RegisterName(c) PROVE PortLease'
  BY <1>10 DEF RegisterName, AtRegister
<1>11. ASSUME NEW c \in Primary, RegisterRefused(c) PROVE PortLease'
  BY <1>11 DEF RegisterRefused, AtRegister
<1>12. ASSUME NEW c \in Primary, ReleaseRefused(c) PROVE PortLease'
  BY <1>12 DEF ReleaseRefused
<1>13. ASSUME NEW c \in Primary, SetPort(c) PROVE PortLease'
  BY <1>13 DEF SetPort
<1>14. ASSUME NEW c \in Primary, SetName(c) PROVE PortLease'
  BY <1>14 DEF SetName
<1>15. ASSUME NEW c \in Primary, CreateGroup(c) PROVE PortLease'
  BY <1>15 DEF CreateGroup
<1>16. ASSUME NEW c \in Primary, SetTunnelID(c) PROVE PortLease'
  BY <1>16 DEF SetTunnelID
<1>17. ASSUME NEW c \in Primary, SetProxy(c) PROVE PortLease'
  BY <1>17 DEF SetProxy
<1>18. ASSUME NEW c \in Primary, StartProxy(c) PROVE PortLease'
  BY <1>18 DEF StartProxy
<1>19. ASSUME NEW c \in Data, FindGroup(c) PROVE PortLease'
  BY <1>19 DEF FindGroup
<1>20. ASSUME NEW c \in Data, RemoveSession(c) PROVE PortLease'
  BY <1>20 DEF RemoveSession
<1>21. ASSUME NEW c \in Conn, ClientGone(c) PROVE PortLease'
  BY <1>21 DEF ClientGone
<1>22. ASSUME NEW c \in Conn, CloseBegins(c) PROVE PortLease'
  BY <1>22 DEF CloseBegins
<1>23. ASSUME NEW c \in Conn, CloseProxy(c) PROVE PortLease'
  BY <1>23 DEF CloseProxy
<1>24. ASSUME NEW c \in Conn, CloseSession(c) PROVE PortLease'
  BY <1>24 DEF CloseSession
<1>25. ASSUME NEW c \in Conn, ReleasePort(c) PROVE PortLease'
  BY <1>25 DEF ReleasePort
<1>26. ASSUME NEW c \in Conn, Unregister(c) PROVE PortLease'
  BY <1>26 DEF Unregister
<1>27. ASSUME NEW c \in Conn, RemoveGroup(c) PROVE PortLease'
  BY <1>27 DEF RemoveGroup
<1>28. ASSUME StopBegins PROVE PortLease'
  BY <1>28 DEF StopBegins
<1>29. ASSUME NEW c \in Conn, StopCloses(c) PROVE PortLease'
  BY <1>29 DEF StopCloses
<1>30. ASSUME StopNext PROVE PortLease'
  BY <1>30 DEF StopNext
<1>31. ASSUME UNCHANGED vars PROVE PortLease'
  BY <1>31 DEF vars
<1> QED
  BY <1>1, <1>2, <1>3, <1>4, <1>5, <1>6, <1>7, <1>8, <1>9, <1>10, <1>11, <1>12, <1>13,
     <1>14, <1>15, <1>16, <1>17, <1>18, <1>19, <1>20, <1>21, <1>22, <1>23, <1>24, <1>25,
     <1>26, <1>27, <1>28, <1>29, <1>30, <1>31 DEF Next, Handle, Closing, Stop

LEMMA NextUsed == TypeOK /\ PlaceOK /\ KnownOK /\ CloseOK /\ PortLease /\ UsedHasHolder /\ [Next]_vars => UsedHasHolder'
<1> SUFFICES ASSUME TypeOK, PlaceOK, KnownOK, CloseOK, PortLease, UsedHasHolder, [Next]_vars PROVE UsedHasHolder'
  OBVIOUS
<1> USE DEF TypeOK, Places, Steps, Goto, Knows, Step, Signal, Begun, Conn, res, stopping, PlaceOK, KnownOK, CloseOK, PortLease, UsedHasHolder, Holds, Late
<1>1. ASSUME NEW c \in Conn, Begin(c) PROVE UsedHasHolder'
  BY <1>1 DEF Begin
<1>2. ASSUME NEW c \in Conn, Refuse(c) PROVE UsedHasHolder'
  BY <1>2 DEF Refuse
<1>3. ASSUME NEW c \in Conn, SendAck(c) PROVE UsedHasHolder'
  BY <1>3 DEF SendAck
<1>4. ASSUME NEW c \in Conn, NewSession(c) PROVE UsedHasHolder'
  BY <1>4 DEF NewSession
<1>5. ASSUME NEW c \in Conn, AddSession(c) PROVE UsedHasHolder'
  BY <1>5 DEF AddSession
<1>6. ASSUME NEW c \in Conn, TunnelEnds(c) PROVE UsedHasHolder'
  BY <1>6 DEF TunnelEnds, SessionOpen
<1>7. ASSUME NEW c \in Conn, Return(c) PROVE UsedHasHolder'
  BY <1>7 DEF Return
<1>8. ASSUME NEW c \in Primary, Allocate(c) PROVE UsedHasHolder'
  BY <1>8 DEF Allocate, Free
<1>9. ASSUME NEW c \in Primary, AllocateFails(c) PROVE UsedHasHolder'
  BY <1>9 DEF AllocateFails
<1>10. ASSUME NEW c \in Primary, RegisterName(c) PROVE UsedHasHolder'
  BY <1>10 DEF RegisterName, AtRegister
<1>11. ASSUME NEW c \in Primary, RegisterRefused(c) PROVE UsedHasHolder'
  BY <1>11 DEF RegisterRefused, AtRegister
<1>12. ASSUME NEW c \in Primary, ReleaseRefused(c) PROVE UsedHasHolder'
  BY <1>12 DEF ReleaseRefused
<1>13. ASSUME NEW c \in Primary, SetPort(c) PROVE UsedHasHolder'
  BY <1>13 DEF SetPort
<1>14. ASSUME NEW c \in Primary, SetName(c) PROVE UsedHasHolder'
  BY <1>14 DEF SetName
<1>15. ASSUME NEW c \in Primary, CreateGroup(c) PROVE UsedHasHolder'
  BY <1>15 DEF CreateGroup
<1>16. ASSUME NEW c \in Primary, SetTunnelID(c) PROVE UsedHasHolder'
  BY <1>16 DEF SetTunnelID
<1>17. ASSUME NEW c \in Primary, SetProxy(c) PROVE UsedHasHolder'
  BY <1>17 DEF SetProxy
<1>18. ASSUME NEW c \in Primary, StartProxy(c) PROVE UsedHasHolder'
  BY <1>18 DEF StartProxy
<1>19. ASSUME NEW c \in Data, FindGroup(c) PROVE UsedHasHolder'
  BY <1>19 DEF FindGroup
<1>20. ASSUME NEW c \in Data, RemoveSession(c) PROVE UsedHasHolder'
  BY <1>20 DEF RemoveSession
<1>21. ASSUME NEW c \in Conn, ClientGone(c) PROVE UsedHasHolder'
  BY <1>21 DEF ClientGone
<1>22. ASSUME NEW c \in Conn, CloseBegins(c) PROVE UsedHasHolder'
  BY <1>22 DEF CloseBegins
<1>23. ASSUME NEW c \in Conn, CloseProxy(c) PROVE UsedHasHolder'
  BY <1>23 DEF CloseProxy
<1>24. ASSUME NEW c \in Conn, CloseSession(c) PROVE UsedHasHolder'
  BY <1>24 DEF CloseSession
<1>25. ASSUME NEW c \in Conn, ReleasePort(c) PROVE UsedHasHolder'
  BY <1>25 DEF ReleasePort
<1>26. ASSUME NEW c \in Conn, Unregister(c) PROVE UsedHasHolder'
  BY <1>26 DEF Unregister
<1>27. ASSUME NEW c \in Conn, RemoveGroup(c) PROVE UsedHasHolder'
  BY <1>27 DEF RemoveGroup
<1>28. ASSUME StopBegins PROVE UsedHasHolder'
  BY <1>28 DEF StopBegins
<1>29. ASSUME NEW c \in Conn, StopCloses(c) PROVE UsedHasHolder'
  BY <1>29 DEF StopCloses
<1>30. ASSUME StopNext PROVE UsedHasHolder'
  BY <1>30 DEF StopNext
<1>31. ASSUME UNCHANGED vars PROVE UsedHasHolder'
  BY <1>31 DEF vars
<1> QED
  BY <1>1, <1>2, <1>3, <1>4, <1>5, <1>6, <1>7, <1>8, <1>9, <1>10, <1>11, <1>12, <1>13,
     <1>14, <1>15, <1>16, <1>17, <1>18, <1>19, <1>20, <1>21, <1>22, <1>23, <1>24, <1>25,
     <1>26, <1>27, <1>28, <1>29, <1>30, <1>31 DEF Next, Handle, Closing, Stop

LEMMA NextNames == TypeOK /\ PlaceOK /\ KnownOK /\ CloseOK /\ NamesOK /\ [Next]_vars => NamesOK'
<1> SUFFICES ASSUME TypeOK, PlaceOK, KnownOK, CloseOK, NamesOK, [Next]_vars PROVE NamesOK'
  OBVIOUS
<1> USE DEF TypeOK, Places, Steps, Goto, Knows, Step, Signal, Begun, Conn, res, stopping, PlaceOK, KnownOK, CloseOK, NamesOK, HasName, Late, NameFor
<1>1. ASSUME NEW c \in Conn, Begin(c) PROVE NamesOK'
  BY <1>1 DEF Begin
<1>2. ASSUME NEW c \in Conn, Refuse(c) PROVE NamesOK'
  BY <1>2 DEF Refuse
<1>3. ASSUME NEW c \in Conn, SendAck(c) PROVE NamesOK'
  BY <1>3 DEF SendAck
<1>4. ASSUME NEW c \in Conn, NewSession(c) PROVE NamesOK'
  BY <1>4 DEF NewSession
<1>5. ASSUME NEW c \in Conn, AddSession(c) PROVE NamesOK'
  BY <1>5 DEF AddSession
<1>6. ASSUME NEW c \in Conn, TunnelEnds(c) PROVE NamesOK'
  BY <1>6 DEF TunnelEnds, SessionOpen
<1>7. ASSUME NEW c \in Conn, Return(c) PROVE NamesOK'
  BY <1>7 DEF Return
<1>8. ASSUME NEW c \in Primary, Allocate(c) PROVE NamesOK'
  BY <1>8 DEF Allocate, Free
<1>9. ASSUME NEW c \in Primary, AllocateFails(c) PROVE NamesOK'
  BY <1>9 DEF AllocateFails
<1>10. ASSUME NEW c \in Primary, RegisterName(c) PROVE NamesOK'
  BY <1>10 DEF RegisterName, AtRegister
<1>11. ASSUME NEW c \in Primary, RegisterRefused(c) PROVE NamesOK'
  BY <1>11 DEF RegisterRefused, AtRegister
<1>12. ASSUME NEW c \in Primary, ReleaseRefused(c) PROVE NamesOK'
  BY <1>12 DEF ReleaseRefused
<1>13. ASSUME NEW c \in Primary, SetPort(c) PROVE NamesOK'
  BY <1>13 DEF SetPort
<1>14. ASSUME NEW c \in Primary, SetName(c) PROVE NamesOK'
  BY <1>14 DEF SetName
<1>15. ASSUME NEW c \in Primary, CreateGroup(c) PROVE NamesOK'
  BY <1>15 DEF CreateGroup
<1>16. ASSUME NEW c \in Primary, SetTunnelID(c) PROVE NamesOK'
  BY <1>16 DEF SetTunnelID
<1>17. ASSUME NEW c \in Primary, SetProxy(c) PROVE NamesOK'
  BY <1>17 DEF SetProxy
<1>18. ASSUME NEW c \in Primary, StartProxy(c) PROVE NamesOK'
  BY <1>18 DEF StartProxy
<1>19. ASSUME NEW c \in Data, FindGroup(c) PROVE NamesOK'
  BY <1>19 DEF FindGroup
<1>20. ASSUME NEW c \in Data, RemoveSession(c) PROVE NamesOK'
  BY <1>20 DEF RemoveSession
<1>21. ASSUME NEW c \in Conn, ClientGone(c) PROVE NamesOK'
  BY <1>21 DEF ClientGone
<1>22. ASSUME NEW c \in Conn, CloseBegins(c) PROVE NamesOK'
  BY <1>22 DEF CloseBegins
<1>23. ASSUME NEW c \in Conn, CloseProxy(c) PROVE NamesOK'
  BY <1>23 DEF CloseProxy
<1>24. ASSUME NEW c \in Conn, CloseSession(c) PROVE NamesOK'
  BY <1>24 DEF CloseSession
<1>25. ASSUME NEW c \in Conn, ReleasePort(c) PROVE NamesOK'
  BY <1>25 DEF ReleasePort
<1>26. ASSUME NEW c \in Conn, Unregister(c) PROVE NamesOK'
  BY <1>26 DEF Unregister
<1>27. ASSUME NEW c \in Conn, RemoveGroup(c) PROVE NamesOK'
  BY <1>27 DEF RemoveGroup
<1>28. ASSUME StopBegins PROVE NamesOK'
  BY <1>28 DEF StopBegins
<1>29. ASSUME NEW c \in Conn, StopCloses(c) PROVE NamesOK'
  BY <1>29 DEF StopCloses
<1>30. ASSUME StopNext PROVE NamesOK'
  BY <1>30 DEF StopNext
<1>31. ASSUME UNCHANGED vars PROVE NamesOK'
  BY <1>31 DEF vars
<1> QED
  BY <1>1, <1>2, <1>3, <1>4, <1>5, <1>6, <1>7, <1>8, <1>9, <1>10, <1>11, <1>12, <1>13,
     <1>14, <1>15, <1>16, <1>17, <1>18, <1>19, <1>20, <1>21, <1>22, <1>23, <1>24, <1>25,
     <1>26, <1>27, <1>28, <1>29, <1>30, <1>31 DEF Next, Handle, Closing, Stop

LEMMA NextGroups == TypeOK /\ PlaceOK /\ KnownOK /\ CloseOK /\ GroupsOK /\ [Next]_vars => GroupsOK'
<1> SUFFICES ASSUME TypeOK, PlaceOK, KnownOK, CloseOK, GroupsOK, [Next]_vars PROVE GroupsOK'
  OBVIOUS
<1> USE DEF TypeOK, Places, Steps, Goto, Knows, Step, Signal, Begun, Conn, res, stopping, PlaceOK, KnownOK, CloseOK, GroupsOK, Late
<1>1. ASSUME NEW c \in Conn, Begin(c) PROVE GroupsOK'
  BY <1>1 DEF Begin
<1>2. ASSUME NEW c \in Conn, Refuse(c) PROVE GroupsOK'
  BY <1>2 DEF Refuse
<1>3. ASSUME NEW c \in Conn, SendAck(c) PROVE GroupsOK'
  BY <1>3 DEF SendAck
<1>4. ASSUME NEW c \in Conn, NewSession(c) PROVE GroupsOK'
  BY <1>4 DEF NewSession
<1>5. ASSUME NEW c \in Conn, AddSession(c) PROVE GroupsOK'
  BY <1>5 DEF AddSession
<1>6. ASSUME NEW c \in Conn, TunnelEnds(c) PROVE GroupsOK'
  BY <1>6 DEF TunnelEnds, SessionOpen
<1>7. ASSUME NEW c \in Conn, Return(c) PROVE GroupsOK'
  BY <1>7 DEF Return
<1>8. ASSUME NEW c \in Primary, Allocate(c) PROVE GroupsOK'
  BY <1>8 DEF Allocate, Free
<1>9. ASSUME NEW c \in Primary, AllocateFails(c) PROVE GroupsOK'
  BY <1>9 DEF AllocateFails
<1>10. ASSUME NEW c \in Primary, RegisterName(c) PROVE GroupsOK'
  BY <1>10 DEF RegisterName, AtRegister
<1>11. ASSUME NEW c \in Primary, RegisterRefused(c) PROVE GroupsOK'
  BY <1>11 DEF RegisterRefused, AtRegister
<1>12. ASSUME NEW c \in Primary, ReleaseRefused(c) PROVE GroupsOK'
  BY <1>12 DEF ReleaseRefused
<1>13. ASSUME NEW c \in Primary, SetPort(c) PROVE GroupsOK'
  BY <1>13 DEF SetPort
<1>14. ASSUME NEW c \in Primary, SetName(c) PROVE GroupsOK'
  BY <1>14 DEF SetName
<1>15. ASSUME NEW c \in Primary, CreateGroup(c) PROVE GroupsOK'
  BY <1>15 DEF CreateGroup
<1>16. ASSUME NEW c \in Primary, SetTunnelID(c) PROVE GroupsOK'
  BY <1>16 DEF SetTunnelID
<1>17. ASSUME NEW c \in Primary, SetProxy(c) PROVE GroupsOK'
  BY <1>17 DEF SetProxy
<1>18. ASSUME NEW c \in Primary, StartProxy(c) PROVE GroupsOK'
  BY <1>18 DEF StartProxy
<1>19. ASSUME NEW c \in Data, FindGroup(c) PROVE GroupsOK'
  BY <1>19 DEF FindGroup
<1>20. ASSUME NEW c \in Data, RemoveSession(c) PROVE GroupsOK'
  BY <1>20 DEF RemoveSession
<1>21. ASSUME NEW c \in Conn, ClientGone(c) PROVE GroupsOK'
  BY <1>21 DEF ClientGone
<1>22. ASSUME NEW c \in Conn, CloseBegins(c) PROVE GroupsOK'
  BY <1>22 DEF CloseBegins
<1>23. ASSUME NEW c \in Conn, CloseProxy(c) PROVE GroupsOK'
  BY <1>23 DEF CloseProxy
<1>24. ASSUME NEW c \in Conn, CloseSession(c) PROVE GroupsOK'
  BY <1>24 DEF CloseSession
<1>25. ASSUME NEW c \in Conn, ReleasePort(c) PROVE GroupsOK'
  BY <1>25 DEF ReleasePort
<1>26. ASSUME NEW c \in Conn, Unregister(c) PROVE GroupsOK'
  BY <1>26 DEF Unregister
<1>27. ASSUME NEW c \in Conn, RemoveGroup(c) PROVE GroupsOK'
  BY <1>27 DEF RemoveGroup
<1>28. ASSUME StopBegins PROVE GroupsOK'
  BY <1>28 DEF StopBegins
<1>29. ASSUME NEW c \in Conn, StopCloses(c) PROVE GroupsOK'
  BY <1>29 DEF StopCloses
<1>30. ASSUME StopNext PROVE GroupsOK'
  BY <1>30 DEF StopNext
<1>31. ASSUME UNCHANGED vars PROVE GroupsOK'
  BY <1>31 DEF vars
<1> QED
  BY <1>1, <1>2, <1>3, <1>4, <1>5, <1>6, <1>7, <1>8, <1>9, <1>10, <1>11, <1>12, <1>13,
     <1>14, <1>15, <1>16, <1>17, <1>18, <1>19, <1>20, <1>21, <1>22, <1>23, <1>24, <1>25,
     <1>26, <1>27, <1>28, <1>29, <1>30, <1>31 DEF Next, Handle, Closing, Stop

LEMMA NextListen == TypeOK /\ PlaceOK /\ KnownOK /\ CloseOK /\ ListenOK /\ [Next]_vars => ListenOK'
<1> SUFFICES ASSUME TypeOK, PlaceOK, KnownOK, CloseOK, ListenOK, [Next]_vars PROVE ListenOK'
  OBVIOUS
<1> USE DEF TypeOK, Places, Steps, Goto, Knows, Step, Signal, Begun, Conn, res, stopping, PlaceOK, KnownOK, CloseOK, ListenOK, Late
<1>1. ASSUME NEW c \in Conn, Begin(c) PROVE ListenOK'
  BY <1>1 DEF Begin
<1>2. ASSUME NEW c \in Conn, Refuse(c) PROVE ListenOK'
  BY <1>2 DEF Refuse
<1>3. ASSUME NEW c \in Conn, SendAck(c) PROVE ListenOK'
  BY <1>3 DEF SendAck
<1>4. ASSUME NEW c \in Conn, NewSession(c) PROVE ListenOK'
  BY <1>4 DEF NewSession
<1>5. ASSUME NEW c \in Conn, AddSession(c) PROVE ListenOK'
  BY <1>5 DEF AddSession
<1>6. ASSUME NEW c \in Conn, TunnelEnds(c) PROVE ListenOK'
  BY <1>6 DEF TunnelEnds, SessionOpen
<1>7. ASSUME NEW c \in Conn, Return(c) PROVE ListenOK'
  BY <1>7 DEF Return
<1>8. ASSUME NEW c \in Primary, Allocate(c) PROVE ListenOK'
  BY <1>8 DEF Allocate, Free
<1>9. ASSUME NEW c \in Primary, AllocateFails(c) PROVE ListenOK'
  BY <1>9 DEF AllocateFails
<1>10. ASSUME NEW c \in Primary, RegisterName(c) PROVE ListenOK'
  BY <1>10 DEF RegisterName, AtRegister
<1>11. ASSUME NEW c \in Primary, RegisterRefused(c) PROVE ListenOK'
  BY <1>11 DEF RegisterRefused, AtRegister
<1>12. ASSUME NEW c \in Primary, ReleaseRefused(c) PROVE ListenOK'
  BY <1>12 DEF ReleaseRefused
<1>13. ASSUME NEW c \in Primary, SetPort(c) PROVE ListenOK'
  BY <1>13 DEF SetPort
<1>14. ASSUME NEW c \in Primary, SetName(c) PROVE ListenOK'
  BY <1>14 DEF SetName
<1>15. ASSUME NEW c \in Primary, CreateGroup(c) PROVE ListenOK'
  BY <1>15 DEF CreateGroup
<1>16. ASSUME NEW c \in Primary, SetTunnelID(c) PROVE ListenOK'
  BY <1>16 DEF SetTunnelID
<1>17. ASSUME NEW c \in Primary, SetProxy(c) PROVE ListenOK'
  BY <1>17 DEF SetProxy
<1>18. ASSUME NEW c \in Primary, StartProxy(c) PROVE ListenOK'
  BY <1>18 DEF StartProxy
<1>19. ASSUME NEW c \in Data, FindGroup(c) PROVE ListenOK'
  BY <1>19 DEF FindGroup
<1>20. ASSUME NEW c \in Data, RemoveSession(c) PROVE ListenOK'
  BY <1>20 DEF RemoveSession
<1>21. ASSUME NEW c \in Conn, ClientGone(c) PROVE ListenOK'
  BY <1>21 DEF ClientGone
<1>22. ASSUME NEW c \in Conn, CloseBegins(c) PROVE ListenOK'
  BY <1>22 DEF CloseBegins
<1>23. ASSUME NEW c \in Conn, CloseProxy(c) PROVE ListenOK'
  BY <1>23 DEF CloseProxy
<1>24. ASSUME NEW c \in Conn, CloseSession(c) PROVE ListenOK'
  BY <1>24 DEF CloseSession
<1>25. ASSUME NEW c \in Conn, ReleasePort(c) PROVE ListenOK'
  BY <1>25 DEF ReleasePort
<1>26. ASSUME NEW c \in Conn, Unregister(c) PROVE ListenOK'
  BY <1>26 DEF Unregister
<1>27. ASSUME NEW c \in Conn, RemoveGroup(c) PROVE ListenOK'
  BY <1>27 DEF RemoveGroup
<1>28. ASSUME StopBegins PROVE ListenOK'
  BY <1>28 DEF StopBegins
<1>29. ASSUME NEW c \in Conn, StopCloses(c) PROVE ListenOK'
  BY <1>29 DEF StopCloses
<1>30. ASSUME StopNext PROVE ListenOK'
  BY <1>30 DEF StopNext
<1>31. ASSUME UNCHANGED vars PROVE ListenOK'
  BY <1>31 DEF vars
<1> QED
  BY <1>1, <1>2, <1>3, <1>4, <1>5, <1>6, <1>7, <1>8, <1>9, <1>10, <1>11, <1>12, <1>13,
     <1>14, <1>15, <1>16, <1>17, <1>18, <1>19, <1>20, <1>21, <1>22, <1>23, <1>24, <1>25,
     <1>26, <1>27, <1>28, <1>29, <1>30, <1>31 DEF Next, Handle, Closing, Stop

LEMMA NextGiven == TypeOK /\ PlaceOK /\ KnownOK /\ CloseOK /\ NamesOK /\ GroupsOK /\ GivenBack /\ [Next]_vars => GivenBack'
<1> SUFFICES ASSUME TypeOK, PlaceOK, KnownOK, CloseOK, NamesOK, GroupsOK, GivenBack, [Next]_vars PROVE GivenBack'
  OBVIOUS
<1> USE DEF TypeOK, Places, Steps, Goto, Knows, Step, Signal, Begun, Conn, res, stopping, PlaceOK, KnownOK, CloseOK, NamesOK, GroupsOK, GivenBack, HasName, Late, NameFor
<1>1. ASSUME NEW c \in Conn, Begin(c) PROVE GivenBack'
  BY <1>1 DEF Begin
<1>2. ASSUME NEW c \in Conn, Refuse(c) PROVE GivenBack'
  BY <1>2 DEF Refuse
<1>3. ASSUME NEW c \in Conn, SendAck(c) PROVE GivenBack'
  BY <1>3 DEF SendAck
<1>4. ASSUME NEW c \in Conn, NewSession(c) PROVE GivenBack'
  BY <1>4 DEF NewSession
<1>5. ASSUME NEW c \in Conn, AddSession(c) PROVE GivenBack'
  BY <1>5 DEF AddSession
<1>6. ASSUME NEW c \in Conn, TunnelEnds(c) PROVE GivenBack'
  BY <1>6 DEF TunnelEnds, SessionOpen
<1>7. ASSUME NEW c \in Conn, Return(c) PROVE GivenBack'
  BY <1>7 DEF Return
<1>8. ASSUME NEW c \in Primary, Allocate(c) PROVE GivenBack'
  BY <1>8 DEF Allocate, Free
<1>9. ASSUME NEW c \in Primary, AllocateFails(c) PROVE GivenBack'
  BY <1>9 DEF AllocateFails
<1>10. ASSUME NEW c \in Primary, RegisterName(c) PROVE GivenBack'
  BY <1>10 DEF RegisterName, AtRegister
<1>11. ASSUME NEW c \in Primary, RegisterRefused(c) PROVE GivenBack'
  BY <1>11 DEF RegisterRefused, AtRegister
<1>12. ASSUME NEW c \in Primary, ReleaseRefused(c) PROVE GivenBack'
  BY <1>12 DEF ReleaseRefused
<1>13. ASSUME NEW c \in Primary, SetPort(c) PROVE GivenBack'
  BY <1>13 DEF SetPort
<1>14. ASSUME NEW c \in Primary, SetName(c) PROVE GivenBack'
  BY <1>14 DEF SetName
<1>15. ASSUME NEW c \in Primary, CreateGroup(c) PROVE GivenBack'
  BY <1>15 DEF CreateGroup
<1>16. ASSUME NEW c \in Primary, SetTunnelID(c) PROVE GivenBack'
  BY <1>16 DEF SetTunnelID
<1>17. ASSUME NEW c \in Primary, SetProxy(c) PROVE GivenBack'
  BY <1>17 DEF SetProxy
<1>18. ASSUME NEW c \in Primary, StartProxy(c) PROVE GivenBack'
  BY <1>18 DEF StartProxy
<1>19. ASSUME NEW c \in Data, FindGroup(c) PROVE GivenBack'
  BY <1>19 DEF FindGroup
<1>20. ASSUME NEW c \in Data, RemoveSession(c) PROVE GivenBack'
  BY <1>20 DEF RemoveSession
<1>21. ASSUME NEW c \in Conn, ClientGone(c) PROVE GivenBack'
  BY <1>21 DEF ClientGone
<1>22. ASSUME NEW c \in Conn, CloseBegins(c) PROVE GivenBack'
  BY <1>22 DEF CloseBegins
<1>23. ASSUME NEW c \in Conn, CloseProxy(c) PROVE GivenBack'
  BY <1>23 DEF CloseProxy
<1>24. ASSUME NEW c \in Conn, CloseSession(c) PROVE GivenBack'
  BY <1>24 DEF CloseSession
<1>25. ASSUME NEW c \in Conn, ReleasePort(c) PROVE GivenBack'
  BY <1>25 DEF ReleasePort
<1>26. ASSUME NEW c \in Conn, Unregister(c) PROVE GivenBack'
  BY <1>26 DEF Unregister
<1>27. ASSUME NEW c \in Conn, RemoveGroup(c) PROVE GivenBack'
  BY <1>27 DEF RemoveGroup
<1>28. ASSUME StopBegins PROVE GivenBack'
  BY <1>28 DEF StopBegins
<1>29. ASSUME NEW c \in Conn, StopCloses(c) PROVE GivenBack'
  BY <1>29 DEF StopCloses
<1>30. ASSUME StopNext PROVE GivenBack'
  BY <1>30 DEF StopNext
<1>31. ASSUME UNCHANGED vars PROVE GivenBack'
  BY <1>31 DEF vars
<1> QED
  BY <1>1, <1>2, <1>3, <1>4, <1>5, <1>6, <1>7, <1>8, <1>9, <1>10, <1>11, <1>12, <1>13,
     <1>14, <1>15, <1>16, <1>17, <1>18, <1>19, <1>20, <1>21, <1>22, <1>23, <1>24, <1>25,
     <1>26, <1>27, <1>28, <1>29, <1>30, <1>31 DEF Next, Handle, Closing, Stop

LEMMA SessionInvariant == Spec => []SessionInv
<1>1. SessionInv /\ [Next]_vars => SessionInv'
  BY NextType, NextPlace, NextKnown, NextClose, NextPorts, NextUsed, NextNames, NextGroups,
     NextListen, NextGiven DEF SessionInv
<1> QED
  BY <1>1, InitSession, PTL DEF Spec

-----------------------------------------------------------------------------
(* The theorems about the session                                          *)

\* PortAllocator and Close: a port has one holder, from Allocate to the release
\* that ends its use.
THEOREM PortsLeasedOnce == Spec => []PortLease
BY SessionInvariant, PTL DEF SessionInv

\* No proxy listens on a port its connection has given back, or in the way of
\* one that is about to listen.
THEOREM ProxiesOwnPorts == Spec => []ProxyOwnsPort
<1>1. SessionInv => ProxyOwnsPort
  <2> SUFFICES ASSUME SessionInv, NEW c \in listening \ cut
               PROVE  Holds(c) /\ \A d \in TCP \ cut : pc[d] = "listen" => port[d] # port[c]
    BY DEF ProxyOwnsPort
  <2>1. c \in TCP /\ closing[c] \in {"no", "proxy"} /\ pc[c] \in {"up", "return"}
    BY DEF SessionInv, TypeOK, ListenOK
  <2>2. Holds(c)
    <3>1. "port" \in known[c]
      BY <2>1 DEF SessionInv, KnownOK, Conn
    <3> QED
      BY <2>1, <3>1 DEF Holds
  <2>3. ASSUME NEW d \in TCP \ cut, pc[d] = "listen" PROVE port[d] # port[c]
    <3>1. Holds(d) /\ d # c
      BY <2>1, <2>3 DEF SessionInv, CloseOK, KnownOK, Holds, Late, Conn
    <3> QED
      BY <2>1, <2>2, <3>1 DEF SessionInv, PortLease
  <2> QED
    BY <2>2, <2>3
<1> QED
  BY <1>1, SessionInvariant, PTL

\* A tunnel that is up has its name, its proxy and its group, whatever the
\* registrations, failures and ends of others.
THEOREM UpTunnelsComplete == Spec => []UpIsComplete
<1>1. SessionInv => UpIsComplete
  <2> SUFFICES ASSUME SessionInv, NEW c \in Primary, pc[c] = "up", closing[c] = "no"
               PROVE  /\ names[NameFor(c)] = c
                      /\ c \in TCP => c \in listening /\ port[c] \in used
                      /\ c \in Pooled => c \in groups /\ c \in members[c]
    BY DEF UpIsComplete
  <2>1. /\ "name" \in known[c]
        /\ c \in TCP => "port" \in known[c]
        /\ c \in Pooled => "group" \in known[c]
    BY DEF SessionInv, KnownOK, Late, Conn
  <2>2. names[NameFor(c)] = c
    BY <2>1 DEF SessionInv, NamesOK, HasName
  <2>3. c \in TCP => c \in listening /\ port[c] \in used
    BY <2>1 DEF SessionInv, ListenOK, PortLease, Holds
  <2>4. c \in Pooled => c \in groups /\ c \in members[c]
    BY <2>1 DEF SessionInv, GroupsOK
  <2> QED
    BY <2>2, <2>3, <2>4
<1> QED
  BY <1>1, SessionInvariant, PTL

\* Close gives back all that was collected, wherever Handle failed.
THEOREM NothingLeaks == Spec => []NoLeak
<1>1. SessionInv => NoLeak
  BY DEF SessionInv, NoLeak, CloseOK, GivenBack, ListenOK, UsedHasHolder, TypeOK, Conn
<1> QED
  BY <1>1, SessionInvariant, PTL

-----------------------------------------------------------------------------
(* The daemons                                                             *)

RunPlaces == {"none", "boot", "connect", "wait", "save", "write", "up", "close", "remove", "exit"}

DaemonsTyped ==
    /\ run \in [Proc -> RunPlaces] /\ file \in Proc \cup {NoFile, Torn}
    /\ cmd \in [Command -> {"idle", "check", "kill", "remove", "end"}]
    /\ read \in [Command -> Proc \cup {NoFile, Torn}]

\* Whoever is named by the file, or by what a command has read, was started;
\* and a process is started once.
NamesStarted ==
    /\ file \in Proc => run[file] # "none"
    /\ \A c \in Command :
        /\ read[c] \in Proc => run[read[c]] # "none"
        /\ cmd[c] \in {"check", "kill", "remove"} => read[c] \in Proc

\* Two that run at a time are both in the history.
Alone == \A p, q \in Proc : p # q /\ Alive(p) /\ Alive(q) => p \in shared /\ q \in shared

\* Who is about to remove a file found its process dead, or has signalled it.
Verdict == \A c \in Command : cmd[c] = "remove" /\ Alive(read[c]) => read[c] \in sig

\* Between the truncation and the write nobody else touches the file.
InHand == \A p \in Proc : run[p] = "write" => file = Torn \/ p \in sig \cup shared \cup robbed

DaemonsInv == DaemonsTyped /\ NamesStarted /\ Alone /\ Verdict /\ InHand /\ UpHasFile

USE DaemonsAssumption

LEMMA InitDaemons == DInit => DaemonsInv
BY DEF DInit, DaemonsInv, DaemonsTyped, RunPlaces, NamesStarted, Alone, Verdict, InHand, UpHasFile, Alive

LEMMA StepTyped == DaemonsTyped /\ [DaemonStep]_dvars => DaemonsTyped'
<1> SUFFICES ASSUME DaemonsTyped, [DaemonStep]_dvars PROVE DaemonsTyped'
  OBVIOUS
<1> USE DEF DaemonsTyped, RunPlaces, RTo, CTo, RunsOn, procvars, cmdvars
<1>1. ASSUME NEW p \in Proc, StartDaemon(p) PROVE DaemonsTyped'
  BY <1>1 DEF StartDaemon
<1>2. ASSUME NEW p \in Proc, StarterEnds(p) PROVE DaemonsTyped'
  BY <1>2 DEF StarterEnds
<1>3. ASSUME NEW p \in Proc, Crash(p) PROVE DaemonsTyped'
  BY <1>3 DEF Crash
<1>4. ASSUME NEW p \in Proc, AttemptFails(p) PROVE DaemonsTyped'
  BY <1>4 DEF AttemptFails
<1>5. ASSUME NEW p \in Proc, Connected(p) PROVE DaemonsTyped'
  BY <1>5 DEF Connected
<1>6. ASSUME NEW p \in Proc, Boot(p) PROVE DaemonsTyped'
  BY <1>6 DEF Boot
<1>7. ASSUME NEW p \in Proc, SaveOpens(p) PROVE DaemonsTyped'
  BY <1>7 DEF SaveOpens
<1>8. ASSUME NEW p \in Proc, SaveWrites(p) PROVE DaemonsTyped'
  BY <1>8 DEF SaveWrites
<1>9. ASSUME NEW p \in Proc, Closed(p) PROVE DaemonsTyped'
  BY <1>9 DEF Closed
<1>10. ASSUME NEW p \in Proc, RemoveOwn(p) PROVE DaemonsTyped'
  BY <1>10 DEF RemoveOwn
<1>11. ASSUME NEW p \in Proc, Breaks(p) PROVE DaemonsTyped'
  BY <1>11 DEF Breaks
<1>12. ASSUME NEW p \in Proc, Quit(p) PROVE DaemonsTyped'
  BY <1>12 DEF Quit
<1>13. ASSUME NEW p \in Proc, Retry(p) PROVE DaemonsTyped'
  BY <1>13 DEF Retry
<1>14. ASSUME NEW c \in Command, Load(c) PROVE DaemonsTyped'
  BY <1>14 DEF Load
<1>15. ASSUME NEW c \in Command, StopChecks(c) PROVE DaemonsTyped'
  BY <1>15 DEF StopChecks
<1>16. ASSUME NEW c \in Command, Cleans(c) PROVE DaemonsTyped'
  BY <1>16 DEF Cleans
<1>17. ASSUME NEW c \in Command, Kill(c) PROVE DaemonsTyped'
  BY <1>17 DEF Kill
<1>18. ASSUME NEW c \in Command, RemoveSeen(c) PROVE DaemonsTyped'
  BY <1>18 DEF RemoveSeen
<1>19. ASSUME NEW id \in Reused, OthersChange(id) PROVE DaemonsTyped'
  BY <1>19 DEF OthersChange
<1>20. ASSUME UNCHANGED dvars PROVE DaemonsTyped'
  BY <1>20 DEF dvars
<1> QED
  BY <1>1, <1>2, <1>3, <1>4, <1>5, <1>6, <1>7, <1>8, <1>9, <1>10, <1>11, <1>12, <1>13,
     <1>14, <1>15, <1>16, <1>17, <1>18, <1>19, <1>20 DEF DaemonStep, Connects, Runs, Answers

LEMMA StepNames == DaemonsTyped /\ NamesStarted /\ [DaemonStep]_dvars => NamesStarted'
<1> SUFFICES ASSUME DaemonsTyped, NamesStarted, [DaemonStep]_dvars PROVE NamesStarted'
  OBVIOUS
<1> USE DEF DaemonsTyped, NamesStarted, RTo, CTo, RunsOn, procvars, cmdvars
<1>1. ASSUME NEW p \in Proc, StartDaemon(p) PROVE NamesStarted'
  BY <1>1 DEF StartDaemon
<1>2. ASSUME NEW p \in Proc, StarterEnds(p) PROVE NamesStarted'
  BY <1>2 DEF StarterEnds
<1>3. ASSUME NEW p \in Proc, Crash(p) PROVE NamesStarted'
  BY <1>3 DEF Crash
<1>4. ASSUME NEW p \in Proc, AttemptFails(p) PROVE NamesStarted'
  BY <1>4 DEF AttemptFails
<1>5. ASSUME NEW p \in Proc, Connected(p) PROVE NamesStarted'
  BY <1>5 DEF Connected
<1>6. ASSUME NEW p \in Proc, Boot(p) PROVE NamesStarted'
  BY <1>6 DEF Boot
<1>7. ASSUME NEW p \in Proc, SaveOpens(p) PROVE NamesStarted'
  BY <1>7 DEF SaveOpens
<1>8. ASSUME NEW p \in Proc, SaveWrites(p) PROVE NamesStarted'
  BY <1>8 DEF SaveWrites
<1>9. ASSUME NEW p \in Proc, Closed(p) PROVE NamesStarted'
  BY <1>9 DEF Closed
<1>10. ASSUME NEW p \in Proc, RemoveOwn(p) PROVE NamesStarted'
  BY <1>10 DEF RemoveOwn
<1>11. ASSUME NEW p \in Proc, Breaks(p) PROVE NamesStarted'
  BY <1>11 DEF Breaks
<1>12. ASSUME NEW p \in Proc, Quit(p) PROVE NamesStarted'
  BY <1>12 DEF Quit
<1>13. ASSUME NEW p \in Proc, Retry(p) PROVE NamesStarted'
  BY <1>13 DEF Retry
<1>14. ASSUME NEW c \in Command, Load(c) PROVE NamesStarted'
  BY <1>14 DEF Load
<1>15. ASSUME NEW c \in Command, StopChecks(c) PROVE NamesStarted'
  BY <1>15 DEF StopChecks
<1>16. ASSUME NEW c \in Command, Cleans(c) PROVE NamesStarted'
  BY <1>16 DEF Cleans
<1>17. ASSUME NEW c \in Command, Kill(c) PROVE NamesStarted'
  BY <1>17 DEF Kill
<1>18. ASSUME NEW c \in Command, RemoveSeen(c) PROVE NamesStarted'
  BY <1>18 DEF RemoveSeen
<1>19. ASSUME NEW id \in Reused, OthersChange(id) PROVE NamesStarted'
  BY <1>19 DEF OthersChange
<1>20. ASSUME UNCHANGED dvars PROVE NamesStarted'
  BY <1>20 DEF dvars
<1> QED
  BY <1>1, <1>2, <1>3, <1>4, <1>5, <1>6, <1>7, <1>8, <1>9, <1>10, <1>11, <1>12, <1>13,
     <1>14, <1>15, <1>16, <1>17, <1>18, <1>19, <1>20 DEF DaemonStep, Connects, Runs, Answers

LEMMA StepAlone == DaemonsTyped /\ Alone /\ [DaemonStep]_dvars => Alone'
<1> SUFFICES ASSUME DaemonsTyped, Alone, [DaemonStep]_dvars PROVE Alone'
  OBVIOUS
<1> USE DEF DaemonsTyped, Alone, Alive, RTo, CTo, RunsOn, procvars, cmdvars
<1>1. ASSUME NEW p \in Proc, StartDaemon(p) PROVE Alone'
  BY <1>1 DEF StartDaemon
<1>2. ASSUME NEW p \in Proc, StarterEnds(p) PROVE Alone'
  BY <1>2 DEF StarterEnds
<1>3. ASSUME NEW p \in Proc, Crash(p) PROVE Alone'
  BY <1>3 DEF Crash
<1>4. ASSUME NEW p \in Proc, AttemptFails(p) PROVE Alone'
  BY <1>4 DEF AttemptFails
<1>5. ASSUME NEW p \in Proc, Connected(p) PROVE Alone'
  BY <1>5 DEF Connected
<1>6. ASSUME NEW p \in Proc, Boot(p) PROVE Alone'
  BY <1>6 DEF Boot
<1>7. ASSUME NEW p \in Proc, SaveOpens(p) PROVE Alone'
  BY <1>7 DEF SaveOpens
<1>8. ASSUME NEW p \in Proc, SaveWrites(p) PROVE Alone'
  BY <1>8 DEF SaveWrites
<1>9. ASSUME NEW p \in Proc, Closed(p) PROVE Alone'
  BY <1>9 DEF Closed
<1>10. ASSUME NEW p \in Proc, RemoveOwn(p) PROVE Alone'
  BY <1>10 DEF RemoveOwn
<1>11. ASSUME NEW p \in Proc, Breaks(p) PROVE Alone'
  BY <1>11 DEF Breaks
<1>12. ASSUME NEW p \in Proc, Quit(p) PROVE Alone'
  BY <1>12 DEF Quit
<1>13. ASSUME NEW p \in Proc, Retry(p) PROVE Alone'
  BY <1>13 DEF Retry
<1>14. ASSUME NEW c \in Command, Load(c) PROVE Alone'
  BY <1>14 DEF Load
<1>15. ASSUME NEW c \in Command, StopChecks(c) PROVE Alone'
  BY <1>15 DEF StopChecks
<1>16. ASSUME NEW c \in Command, Cleans(c) PROVE Alone'
  BY <1>16 DEF Cleans
<1>17. ASSUME NEW c \in Command, Kill(c) PROVE Alone'
  BY <1>17 DEF Kill
<1>18. ASSUME NEW c \in Command, RemoveSeen(c) PROVE Alone'
  BY <1>18 DEF RemoveSeen
<1>19. ASSUME NEW id \in Reused, OthersChange(id) PROVE Alone'
  BY <1>19 DEF OthersChange
<1>20. ASSUME UNCHANGED dvars PROVE Alone'
  BY <1>20 DEF dvars
<1> QED
  BY <1>1, <1>2, <1>3, <1>4, <1>5, <1>6, <1>7, <1>8, <1>9, <1>10, <1>11, <1>12, <1>13,
     <1>14, <1>15, <1>16, <1>17, <1>18, <1>19, <1>20 DEF DaemonStep, Connects, Runs, Answers

LEMMA StepVerdict == DaemonsTyped /\ NamesStarted /\ Verdict /\ [DaemonStep]_dvars => Verdict'
<1> SUFFICES ASSUME DaemonsTyped, NamesStarted, Verdict, [DaemonStep]_dvars PROVE Verdict'
  OBVIOUS
<1> USE DEF DaemonsTyped, NamesStarted, Verdict, Alive, IsProcessRunning, Holders, RTo, CTo, RunsOn, procvars, cmdvars
<1>1. ASSUME NEW p \in Proc, StartDaemon(p) PROVE Verdict'
  BY <1>1 DEF StartDaemon
<1>2. ASSUME NEW p \in Proc, StarterEnds(p) PROVE Verdict'
  BY <1>2 DEF StarterEnds
<1>3. ASSUME NEW p \in Proc, Crash(p) PROVE Verdict'
  BY <1>3 DEF Crash
<1>4. ASSUME NEW p \in Proc, AttemptFails(p) PROVE Verdict'
  BY <1>4 DEF AttemptFails
<1>5. ASSUME NEW p \in Proc, Connected(p) PROVE Verdict'
  BY <1>5 DEF Connected
<1>6. ASSUME NEW p \in Proc, Boot(p) PROVE Verdict'
  BY <1>6 DEF Boot
<1>7. ASSUME NEW p \in Proc, SaveOpens(p) PROVE Verdict'
  BY <1>7 DEF SaveOpens
<1>8. ASSUME NEW p \in Proc, SaveWrites(p) PROVE Verdict'
  BY <1>8 DEF SaveWrites
<1>9. ASSUME NEW p \in Proc, Closed(p) PROVE Verdict'
  BY <1>9 DEF Closed
<1>10. ASSUME NEW p \in Proc, RemoveOwn(p) PROVE Verdict'
  BY <1>10 DEF RemoveOwn
<1>11. ASSUME NEW p \in Proc, Breaks(p) PROVE Verdict'
  BY <1>11 DEF Breaks
<1>12. ASSUME NEW p \in Proc, Quit(p) PROVE Verdict'
  BY <1>12 DEF Quit
<1>13. ASSUME NEW p \in Proc, Retry(p) PROVE Verdict'
  BY <1>13 DEF Retry
<1>14. ASSUME NEW c \in Command, Load(c) PROVE Verdict'
  BY <1>14 DEF Load
<1>15. ASSUME NEW c \in Command, StopChecks(c) PROVE Verdict'
  BY <1>15 DEF StopChecks
<1>16. ASSUME NEW c \in Command, Cleans(c) PROVE Verdict'
  BY <1>16 DEF Cleans
<1>17. ASSUME NEW c \in Command, Kill(c) PROVE Verdict'
  BY <1>17 DEF Kill
<1>18. ASSUME NEW c \in Command, RemoveSeen(c) PROVE Verdict'
  BY <1>18 DEF RemoveSeen
<1>19. ASSUME NEW id \in Reused, OthersChange(id) PROVE Verdict'
  BY <1>19 DEF OthersChange
<1>20. ASSUME UNCHANGED dvars PROVE Verdict'
  BY <1>20 DEF dvars
<1> QED
  BY <1>1, <1>2, <1>3, <1>4, <1>5, <1>6, <1>7, <1>8, <1>9, <1>10, <1>11, <1>12, <1>13,
     <1>14, <1>15, <1>16, <1>17, <1>18, <1>19, <1>20 DEF DaemonStep, Connects, Runs, Answers

LEMMA StepInHand == DaemonsTyped /\ Alone /\ Verdict /\ InHand /\ [DaemonStep]_dvars => InHand'
<1> SUFFICES ASSUME DaemonsTyped, Alone, Verdict, InHand, [DaemonStep]_dvars PROVE InHand'
  OBVIOUS
<1> USE DEF DaemonsTyped, Alone, Verdict, InHand, Alive, RTo, CTo, RunsOn, procvars, cmdvars
<1>1. ASSUME NEW p \in Proc, StartDaemon(p) PROVE InHand'
  BY <1>1 DEF StartDaemon
<1>2. ASSUME NEW p \in Proc, StarterEnds(p) PROVE InHand'
  BY <1>2 DEF StarterEnds
<1>3. ASSUME NEW p \in Proc, Crash(p) PROVE InHand'
  BY <1>3 DEF Crash
<1>4. ASSUME NEW p \in Proc, AttemptFails(p) PROVE InHand'
  BY <1>4 DEF AttemptFails
<1>5. ASSUME NEW p \in Proc, Connected(p) PROVE InHand'
  BY <1>5 DEF Connected
<1>6. ASSUME NEW p \in Proc, Boot(p) PROVE InHand'
  BY <1>6 DEF Boot
<1>7. ASSUME NEW p \in Proc, SaveOpens(p) PROVE InHand'
  BY <1>7 DEF SaveOpens
<1>8. ASSUME NEW p \in Proc, SaveWrites(p) PROVE InHand'
  BY <1>8 DEF SaveWrites
<1>9. ASSUME NEW p \in Proc, Closed(p) PROVE InHand'
  BY <1>9 DEF Closed
<1>10. ASSUME NEW p \in Proc, RemoveOwn(p) PROVE InHand'
  BY <1>10 DEF RemoveOwn
<1>11. ASSUME NEW p \in Proc, Breaks(p) PROVE InHand'
  BY <1>11 DEF Breaks
<1>12. ASSUME NEW p \in Proc, Quit(p) PROVE InHand'
  BY <1>12 DEF Quit
<1>13. ASSUME NEW p \in Proc, Retry(p) PROVE InHand'
  BY <1>13 DEF Retry
<1>14. ASSUME NEW c \in Command, Load(c) PROVE InHand'
  BY <1>14 DEF Load
<1>15. ASSUME NEW c \in Command, StopChecks(c) PROVE InHand'
  BY <1>15 DEF StopChecks
<1>16. ASSUME NEW c \in Command, Cleans(c) PROVE InHand'
  BY <1>16 DEF Cleans
<1>17. ASSUME NEW c \in Command, Kill(c) PROVE InHand'
  BY <1>17 DEF Kill
<1>18. ASSUME NEW c \in Command, RemoveSeen(c) PROVE InHand'
  BY <1>18 DEF RemoveSeen
<1>19. ASSUME NEW id \in Reused, OthersChange(id) PROVE InHand'
  BY <1>19 DEF OthersChange
<1>20. ASSUME UNCHANGED dvars PROVE InHand'
  BY <1>20 DEF dvars
<1> QED
  BY <1>1, <1>2, <1>3, <1>4, <1>5, <1>6, <1>7, <1>8, <1>9, <1>10, <1>11, <1>12, <1>13,
     <1>14, <1>15, <1>16, <1>17, <1>18, <1>19, <1>20 DEF DaemonStep, Connects, Runs, Answers

LEMMA StepUp == DaemonsTyped /\ Alone /\ Verdict /\ InHand /\ UpHasFile /\ [DaemonStep]_dvars => UpHasFile'
<1> SUFFICES ASSUME DaemonsTyped, Alone, Verdict, InHand, UpHasFile, [DaemonStep]_dvars PROVE UpHasFile'
  OBVIOUS
<1> USE DEF DaemonsTyped, Alone, Verdict, InHand, UpHasFile, Alive, RTo, CTo, RunsOn, procvars, cmdvars
<1>1. ASSUME NEW p \in Proc, StartDaemon(p) PROVE UpHasFile'
  BY <1>1 DEF StartDaemon
<1>2. ASSUME NEW p \in Proc, StarterEnds(p) PROVE UpHasFile'
  BY <1>2 DEF StarterEnds
<1>3. ASSUME NEW p \in Proc, Crash(p) PROVE UpHasFile'
  BY <1>3 DEF Crash
<1>4. ASSUME NEW p \in Proc, AttemptFails(p) PROVE UpHasFile'
  BY <1>4 DEF AttemptFails
<1>5. ASSUME NEW p \in Proc, Connected(p) PROVE UpHasFile'
  BY <1>5 DEF Connected
<1>6. ASSUME NEW p \in Proc, Boot(p) PROVE UpHasFile'
  BY <1>6 DEF Boot
<1>7. ASSUME NEW p \in Proc, SaveOpens(p) PROVE UpHasFile'
  BY <1>7 DEF SaveOpens
<1>8. ASSUME NEW p \in Proc, SaveWrites(p) PROVE UpHasFile'
  BY <1>8 DEF SaveWrites
<1>9. ASSUME NEW p \in Proc, Closed(p) PROVE UpHasFile'
  BY <1>9 DEF Closed
<1>10. ASSUME NEW p \in Proc, RemoveOwn(p) PROVE UpHasFile'
  BY <1>10 DEF RemoveOwn
<1>11. ASSUME NEW p \in Proc, Breaks(p) PROVE UpHasFile'
  BY <1>11 DEF Breaks
<1>12. ASSUME NEW p \in Proc, Quit(p) PROVE UpHasFile'
  BY <1>12 DEF Quit
<1>13. ASSUME NEW p \in Proc, Retry(p) PROVE UpHasFile'
  BY <1>13 DEF Retry
<1>14. ASSUME NEW c \in Command, Load(c) PROVE UpHasFile'
  BY <1>14 DEF Load
<1>15. ASSUME NEW c \in Command, StopChecks(c) PROVE UpHasFile'
  BY <1>15 DEF StopChecks
<1>16. ASSUME NEW c \in Command, Cleans(c) PROVE UpHasFile'
  BY <1>16 DEF Cleans
<1>17. ASSUME NEW c \in Command, Kill(c) PROVE UpHasFile'
  BY <1>17 DEF Kill
<1>18. ASSUME NEW c \in Command, RemoveSeen(c) PROVE UpHasFile'
  BY <1>18 DEF RemoveSeen
<1>19. ASSUME NEW id \in Reused, OthersChange(id) PROVE UpHasFile'
  BY <1>19 DEF OthersChange
<1>20. ASSUME UNCHANGED dvars PROVE UpHasFile'
  BY <1>20 DEF dvars
<1> QED
  BY <1>1, <1>2, <1>3, <1>4, <1>5, <1>6, <1>7, <1>8, <1>9, <1>10, <1>11, <1>12, <1>13,
     <1>14, <1>15, <1>16, <1>17, <1>18, <1>19, <1>20 DEF DaemonStep, Connects, Runs, Answers

LEMMA DaemonsInvariant == DInit /\ [][DaemonStep]_dvars => []DaemonsInv
<1>1. DaemonsInv /\ [DaemonStep]_dvars => DaemonsInv'
  BY StepTyped, StepNames, StepAlone, StepVerdict, StepInHand, StepUp DEF DaemonsInv
<1> QED
  BY <1>1, InitDaemons, PTL

\* The daemon's file (daemon.go, tunnel_runner.go, stop.go, list.go): a connected
\* daemon loses its file only to the signal, to another daemon of its type and
\* port, or to a command that had read the file of a dead one.
THEOREM DaemonsFound == DInit /\ [][DaemonStep]_dvars => []UpHasFile
BY DaemonsInvariant, PTL DEF DaemonsInv

-----------------------------------------------------------------------------
(* The scenes                                                              *)

LEMMA ScenesAreSteps == MCSpec => Spec /\ DInit /\ [][DaemonStep]_dvars
<1>1. MCInit => Init /\ DInit
  BY DEF MCInit
<1>2. [MCNext]_<<vars, dvars, scene>> => [Next]_vars /\ [DaemonStep]_dvars
  BY DEF MCNext
<1> QED
  BY <1>1, <1>2, PTL DEF MCSpec, Spec

\* Both ends, as the run with its scenes checks them.
THEOREM BothEndsHold == MCSpec => [](UpIsComplete /\ UpHasFile)
BY ScenesAreSteps, UpTunnelsComplete, DaemonsFound, PTL
=============================================================================
