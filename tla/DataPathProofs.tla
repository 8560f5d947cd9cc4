---------------------------- MODULE DataPathProofs ----------------------------
(***************************************************************************)
(* Theorems about ConnectionGroup, Proxy and Pipe, for every set of        *)
(* sessions and connections, every limit and every interleaving; the       *)
(* scenes of MCDataPath are cases of GroupMove and of ProxyMove.           *)
(***************************************************************************)
EXTENDS MCDataPath, FiniteSetTheorems, TLAPS

USE ConnectionGroupAssumption, ProxyAssumption, MCDataPathAssumption

-----------------------------------------------------------------------------
(* The group of sessions                                                   *)

\* The group without its callers.
GroupStep == Beats \/ Sweep \/ Sessions \/ RemoveGroup

\* Every step, as far as the group can tell: the public port delivers and
\* closes streams, and closes the primary session.
GroupMove ==
    \/ GroupStep
    \/ \E o \in Opener : Call(o) \/ Opening(o) \/ StreamEnds(o)
    \/ \E c \in Conn : Deliver(c) \/ HandlerReturns(c)
    \/ PrimaryClosed
    \/ UNCHANGED gvars

Working == {"data", "all", "pop", "open", "wait"}
OpSteps == {"idle", "got", "failed", "over"} \cup Working

GroupTyped ==
    /\ members \subseteq Session /\ yam \in [Session -> {"none", "open", "closed"}]
    /\ stopped \in BOOLEAN /\ toClose \subseteq Session
    /\ op \in [Opener -> OpSteps]
    /\ cur \in [Opener -> Session \cup {None}] /\ stream \in [Opener -> Session \cup {None}]
    /\ DOMAIN heap = Opener /\ DOMAIN tries = Opener
    /\ \A o \in Opener : \A e \in heap[o] : e.id \in Session
    /\ \A o \in Opener : op[o] \notin {"got", "over"} => stream[o] = None
    /\ \A o \in Opener : op[o] = "open" => cur[o] \in Session

PulseTyped ==
    /\ beat \in {"off", "wait", "ping", "end"} /\ snap \subseteq Session
    /\ fails \in [Session -> Nat] /\ quiet \in 0..StaleRounds
    /\ \A s \in Session : fails[s] < MaxFailures
    /\ swept \in BOOLEAN

\* A session that has not answered fails once a round, but for the round it
\* joined in; nothing is a member before the heartbeat starts.
Failing ==
    ~stopped =>
        /\ beat = "off" => members = {}
        /\ beat # "end"
        /\ \A s \in members :
            /\ quiet <= fails[s] + 1
            /\ beat = "ping" /\ s \notin snap => quiet <= fails[s]

LEMMA InitGroup == Init => GroupTyped /\ PulseTyped /\ Failing
<1> SUFFICES ASSUME Init PROVE GroupTyped /\ PulseTyped /\ Failing
  OBVIOUS
<1>1. GroupTyped
  BY DEF Init, GroupTyped, OpSteps, Working
<1>2. PulseTyped
  <2>1. 0 < MaxFailures /\ 0 \in 0..StaleRounds
    OBVIOUS
  <2>2. fails \in [Session -> Nat] /\ \A s \in Session : fails[s] = 0
    BY DEF Init
  <2> QED
    BY <2>1, <2>2 DEF Init, PulseTyped
<1>3. Failing
  BY DEF Init, Failing
<1> QED
  BY <1>1, <1>2, <1>3

LEMMA NextGroupTyped == GroupTyped /\ GroupMove => GroupTyped'
<1> SUFFICES ASSUME GroupTyped, GroupMove PROVE GroupTyped'
  OBVIOUS
<1> USE DEF To, group, pulse, opens, gvars, GroupTyped, OpSteps, Working
<1>1. ASSUME NEW s \in Session, AddSession(s) PROVE GroupTyped'
  BY <1>1 DEF AddSession
<1>2. ASSUME NEW s \in Session, SessionDies(s) PROVE GroupTyped'
  BY <1>2 DEF SessionDies, Shut
<1>3. ASSUME NEW s \in Session, HandlerLeaves(s) PROVE GroupTyped'
  BY <1>3 DEF HandlerLeaves, RemoveSession, Shut
<1>4. ASSUME CloseSession PROVE GroupTyped'
  BY <1>4 DEF CloseSession, Shut
<1>5. ASSUME Sweep PROVE GroupTyped'
  BY <1>5 DEF Sweep, CloseGroup
<1>6. ASSUME RemoveGroup PROVE GroupTyped'
  BY <1>6 DEF RemoveGroup, CloseGroup
<1>7. ASSUME BeatStart PROVE GroupTyped'
  BY <1>7 DEF BeatStart
<1>8. ASSUME BeatRound PROVE GroupTyped'
  BY <1>8 DEF BeatRound
<1>9. ASSUME BeatEnds PROVE GroupTyped'
  BY <1>9 DEF BeatEnds
<1>10. ASSUME NEW s \in Session, BeatRemoves(s) PROVE GroupTyped'
  BY <1>10 DEF BeatRemoves, RemoveSession, Shut
<1>11. ASSUME NEW s \in Session, PingFails(s) PROVE GroupTyped'
  BY <1>11 DEF PingFails
<1>12. ASSUME NEW s \in Session, PingAnswered(s) PROVE GroupTyped'
  BY <1>12 DEF PingAnswered
<1>13. ASSUME NEW o \in Opener, Call(o) PROVE GroupTyped'
  BY <1>13 DEF Call
<1>14. ASSUME NEW o \in Opener, TryData(o) PROVE GroupTyped'
  BY <1>14 DEF TryData, BuildHeap, Usable
<1>15. ASSUME NEW o \in Opener, TryAll(o) PROVE GroupTyped'
  BY <1>15 DEF TryAll, BuildHeap, Usable
<1>16. ASSUME NEW o \in Opener, Pop(o) PROVE GroupTyped'
  <2>1. PICK e \in heap[o] :
            /\ heap' = [heap EXCEPT ![o] = heap[o] \ {e}]
            /\ IF yam[e.id] = "open" /\ NumStreams(e.id) < StreamCap
               THEN op' = [op EXCEPT ![o] = "open"] /\ cur' = [cur EXCEPT ![o] = e.id]
               ELSE UNCHANGED <<op, cur>>
    BY <1>16 DEF Pop
  <2>2. e.id \in Session /\ op[o] = "pop"
    BY <1>16 DEF Pop
  <2>3. UNCHANGED <<group, pulse, tries, stream>>
    BY <1>16 DEF Pop
  <2> QED
    BY <2>1, <2>2, <2>3
<1>17. ASSUME NEW o \in Opener, Opened(o) PROVE GroupTyped'
  BY <1>17 DEF Opened
<1>18. ASSUME NEW o \in Opener, OpenFails(o) PROVE GroupTyped'
  BY <1>18 DEF OpenFails, Usable
<1>19. ASSUME NEW o \in Opener, Exhausted(o) PROVE GroupTyped'
  BY <1>19 DEF Exhausted
<1>20. ASSUME NEW o \in Opener, Retry(o) PROVE GroupTyped'
  BY <1>20 DEF Retry
<1>21. ASSUME NEW o \in Opener, StopsWaiting(o) PROVE GroupTyped'
  BY <1>21 DEF StopsWaiting
<1>22. ASSUME NEW o \in Opener, StreamEnds(o) PROVE GroupTyped'
  BY <1>22 DEF StreamEnds
<1>23. ASSUME NEW c \in Conn, Deliver(c) PROVE GroupTyped'
  BY <1>23 DEF Deliver
<1>24. ASSUME NEW c \in Conn, HandlerReturns(c) PROVE GroupTyped'
  BY <1>24 DEF HandlerReturns
<1>25. ASSUME PrimaryClosed PROVE GroupTyped'
  BY <1>25 DEF PrimaryClosed, Shut
<1>26. ASSUME UNCHANGED gvars PROVE GroupTyped'
  BY <1>26 DEF gvars
<1> QED
  BY <1>1, <1>2, <1>3, <1>4, <1>5, <1>6, <1>7, <1>8, <1>9, <1>10, <1>11, <1>12, <1>13,
     <1>14, <1>15, <1>16, <1>17, <1>18, <1>19, <1>20, <1>21, <1>22, <1>23, <1>24, <1>25,
     <1>26 DEF GroupMove, GroupStep, Beats, Sessions, Opening

LEMMA NextPulseTyped == GroupTyped /\ PulseTyped /\ GroupMove => PulseTyped'
<1> SUFFICES ASSUME GroupTyped, PulseTyped, GroupMove PROVE PulseTyped'
  OBVIOUS
<1> USE DEF To, group, pulse, opens, gvars, PulseTyped
<1>1. ASSUME NEW s \in Session, AddSession(s) PROVE PulseTyped'
  BY <1>1 DEF AddSession
<1>2. ASSUME NEW s \in Session, SessionDies(s) PROVE PulseTyped'
  BY <1>2 DEF SessionDies, Shut
<1>3. ASSUME NEW s \in Session, HandlerLeaves(s) PROVE PulseTyped'
  BY <1>3 DEF HandlerLeaves, RemoveSession, Shut
<1>4. ASSUME CloseSession PROVE PulseTyped'
  BY <1>4 DEF CloseSession, Shut
<1>5. ASSUME Sweep PROVE PulseTyped'
  BY <1>5 DEF Sweep, CloseGroup
<1>6. ASSUME RemoveGroup PROVE PulseTyped'
  BY <1>6 DEF RemoveGroup, CloseGroup
<1>7. ASSUME BeatStart PROVE PulseTyped'
  BY <1>7 DEF BeatStart, GroupTyped
<1>8. ASSUME BeatRound PROVE PulseTyped'
  BY <1>8 DEF BeatRound
<1>9. ASSUME BeatEnds PROVE PulseTyped'
  BY <1>9 DEF BeatEnds
<1>10. ASSUME NEW s \in Session, BeatRemoves(s) PROVE PulseTyped'
  BY <1>10 DEF BeatRemoves, RemoveSession, Shut
<1>11. ASSUME NEW s \in Session, PingFails(s) PROVE PulseTyped'
  BY <1>11 DEF PingFails
<1>12. ASSUME NEW s \in Session, PingAnswered(s) PROVE PulseTyped'
  BY <1>12 DEF PingAnswered
<1>13. ASSUME NEW o \in Opener, Call(o) PROVE PulseTyped'
  BY <1>13 DEF Call
<1>14. ASSUME NEW o \in Opener, TryData(o) PROVE PulseTyped'
  BY <1>14 DEF TryData, BuildHeap, Usable
<1>15. ASSUME NEW o \in Opener, TryAll(o) PROVE PulseTyped'
  BY <1>15 DEF TryAll, BuildHeap, Usable
<1>16. ASSUME NEW o \in Opener, Pop(o) PROVE PulseTyped'
  BY <1>16 DEF Pop
<1>17. ASSUME NEW o \in Opener, Opened(o) PROVE PulseTyped'
  BY <1>17 DEF Opened
<1>18. ASSUME NEW o \in Opener, OpenFails(o) PROVE PulseTyped'
  BY <1>18 DEF OpenFails, Usable
<1>19. ASSUME NEW o \in Opener, Exhausted(o) PROVE PulseTyped'
  BY <1>19 DEF Exhausted
<1>20. ASSUME NEW o \in Opener, Retry(o) PROVE PulseTyped'
  BY <1>20 DEF Retry
<1>21. ASSUME NEW o \in Opener, StopsWaiting(o) PROVE PulseTyped'
  BY <1>21 DEF StopsWaiting
<1>22. ASSUME NEW o \in Opener, StreamEnds(o) PROVE PulseTyped'
  BY <1>22 DEF StreamEnds
<1>23. ASSUME NEW c \in Conn, Deliver(c) PROVE PulseTyped'
  BY <1>23 DEF Deliver
<1>24. ASSUME NEW c \in Conn, HandlerReturns(c) PROVE PulseTyped'
  BY <1>24 DEF HandlerReturns
<1>25. ASSUME PrimaryClosed PROVE PulseTyped'
  BY <1>25 DEF PrimaryClosed, Shut
<1>26. ASSUME UNCHANGED gvars PROVE PulseTyped'
  BY <1>26 DEF gvars
<1> QED
  BY <1>1, <1>2, <1>3, <1>4, <1>5, <1>6, <1>7, <1>8, <1>9, <1>10, <1>11, <1>12, <1>13,
     <1>14, <1>15, <1>16, <1>17, <1>18, <1>19, <1>20, <1>21, <1>22, <1>23, <1>24, <1>25,
     <1>26 DEF GroupMove, GroupStep, Beats, Sessions, Opening

LEMMA NextFailing == GroupTyped /\ PulseTyped /\ Failing /\ GroupMove => Failing'
<1> SUFFICES ASSUME GroupTyped, PulseTyped, Failing, GroupMove PROVE Failing'
  OBVIOUS
<1> USE DEF To, group, pulse, opens, gvars, PulseTyped, Failing
<1>a. members \subseteq Session /\ (\A s \in Session : fails[s] \in Nat) /\ quiet \in Nat
  BY DEF GroupTyped
<1>1. ASSUME NEW s \in Session, AddSession(s) PROVE Failing'
  BY <1>1, <1>a DEF AddSession
<1>2. ASSUME NEW s \in Session, SessionDies(s) PROVE Failing'
  BY <1>2 DEF SessionDies, Shut
<1>3. ASSUME NEW s \in Session, HandlerLeaves(s) PROVE Failing'
  BY <1>3 DEF HandlerLeaves, RemoveSession, Shut
<1>4. ASSUME CloseSession PROVE Failing'
  BY <1>4 DEF CloseSession, Shut
<1>5. ASSUME Sweep PROVE Failing'
  BY <1>5 DEF Sweep, CloseGroup
<1>6. ASSUME RemoveGroup PROVE Failing'
  BY <1>6 DEF RemoveGroup, CloseGroup
<1>7. ASSUME BeatStart PROVE Failing'
  BY <1>7 DEF BeatStart
<1>8. ASSUME BeatRound PROVE Failing'
  BY <1>8, <1>a DEF BeatRound
<1>9. ASSUME BeatEnds PROVE Failing'
  BY <1>9 DEF BeatEnds
<1>10. ASSUME NEW s \in Session, BeatRemoves(s) PROVE Failing'
  BY <1>10 DEF BeatRemoves, RemoveSession, Shut
<1>11. ASSUME NEW s \in Session, PingFails(s) PROVE Failing'
  BY <1>11 DEF PingFails
<1>12. ASSUME NEW s \in Session, PingAnswered(s) PROVE Failing'
  BY <1>12, <1>a DEF PingAnswered
<1>13. ASSUME NEW o \in Opener, Call(o) PROVE Failing'
  BY <1>13 DEF Call
<1>14. ASSUME NEW o \in Opener, TryData(o) PROVE Failing'
  BY <1>14 DEF TryData, BuildHeap, Usable
<1>15. ASSUME NEW o \in Opener, TryAll(o) PROVE Failing'
  BY <1>15 DEF TryAll, BuildHeap, Usable
<1>16. ASSUME NEW o \in Opener, Pop(o) PROVE Failing'
  BY <1>16 DEF Pop
<1>17. ASSUME NEW o \in Opener, Opened(o) PROVE Failing'
  BY <1>17 DEF Opened
<1>18. ASSUME NEW o \in Opener, OpenFails(o) PROVE Failing'
  <2>1. members' \subseteq members
    BY <1>18 DEF OpenFails, Usable
  <2> QED
    BY <1>18, <2>1 DEF OpenFails
<1>19. ASSUME NEW o \in Opener, Exhausted(o) PROVE Failing'
  BY <1>19 DEF Exhausted
<1>20. ASSUME NEW o \in Opener, Retry(o) PROVE Failing'
  BY <1>20 DEF Retry
<1>21. ASSUME NEW o \in Opener, StopsWaiting(o) PROVE Failing'
  BY <1>21 DEF StopsWaiting
<1>22. ASSUME NEW o \in Opener, StreamEnds(o) PROVE Failing'
  BY <1>22 DEF StreamEnds
<1>23. ASSUME NEW c \in Conn, Deliver(c) PROVE Failing'
  BY <1>23 DEF Deliver
<1>24. ASSUME NEW c \in Conn, HandlerReturns(c) PROVE Failing'
  BY <1>24 DEF HandlerReturns
<1>25. ASSUME PrimaryClosed PROVE Failing'
  BY <1>25 DEF PrimaryClosed, Shut
<1>26. ASSUME UNCHANGED gvars PROVE Failing'
  BY <1>26 DEF gvars
<1> QED
  BY <1>1, <1>2, <1>3, <1>4, <1>5, <1>6, <1>7, <1>8, <1>9, <1>10, <1>11, <1>12, <1>13,
     <1>14, <1>15, <1>16, <1>17, <1>18, <1>19, <1>20, <1>21, <1>22, <1>23, <1>24, <1>25,
     <1>26 DEF GroupMove, GroupStep, Beats, Sessions, Opening

\* The sweep closes no session: a member that answers no ping is taken out
\* after maxConsecutiveFailures rounds, and one that joins or answers renews
\* LastActivity (heartbeatLoop in connection_group.go, cleanupStaleGroups in
\* connection_group_manager.go).
LEMMA SweepIsEmpty == GroupTyped /\ PulseTyped /\ Failing /\ Sweep => members = {}
<1> SUFFICES ASSUME GroupTyped, PulseTyped, Failing, Sweep, NEW s \in members PROVE FALSE
  OBVIOUS
<1>1. ~stopped /\ beat \in {"wait", "ping"} /\ quiet = StaleRounds
  BY DEF Sweep, CloseGroup, Failing, PulseTyped
<1>2. StaleRounds <= fails[s] + 1 /\ s \in Session
  BY <1>1 DEF Failing, GroupTyped
<1>3. fails[s] \in Nat /\ fails[s] < MaxFailures
  BY <1>2 DEF PulseTyped
<1>4. MaxFailures \in Nat /\ StaleRounds \in Nat /\ MaxFailures < StaleRounds
  OBVIOUS
<1> QED
  BY <1>2, <1>3, <1>4

LEMMA SweepOnly == GroupMove => swept' = swept \/ Sweep
<1> SUFFICES ASSUME GroupMove PROVE swept' = swept \/ Sweep
  OBVIOUS
<1> USE DEF group, gvars
<1>1. ASSUME Beats \/ Sessions \/ RemoveGroup PROVE swept' = swept
  BY <1>1 DEF Beats, Sessions, RemoveGroup, BeatStart, BeatRound, BeatEnds, BeatRemoves, PingFails, PingAnswered,
              CloseSession, AddSession, SessionDies, HandlerLeaves, RemoveSession
<1>2. ASSUME NEW o \in Opener, Call(o) \/ Opening(o) \/ StreamEnds(o) PROVE swept' = swept
  BY <1>2 DEF Opening, Call, TryData, TryAll, Pop, Opened, OpenFails, Exhausted, Retry, StopsWaiting, StreamEnds
<1>3. ASSUME NEW c \in Conn, Deliver(c) \/ HandlerReturns(c) PROVE swept' = swept
  BY <1>3 DEF Deliver, HandlerReturns
<1> QED
  BY <1>1, <1>2, <1>3 DEF GroupMove, GroupStep, PrimaryClosed

-----------------------------------------------------------------------------
(* A session that has room all the time                                    *)

SteadyMove ==
    /\ GroupMove
    /\ steady' = [o \in Conn |->
           IF op'[o] = "idle" THEN Data
           ELSE {s \in steady[o] : HasRoom(s) /\ HasRoom(s)' /\ ~Refused(o, s)}]

\* The sessions a caller may still get in this attempt.
Listed(o) == {e.id : e \in heap[o]} \cup IF op[o] = "open" THEN {cur[o]} ELSE {}

SteadyAt(o) ==
    steady[o] # {} =>
        /\ op[o] \notin {"all", "wait"} /\ (op[o] = "failed" => stopped)
        /\ stream[o] # Primary
        /\ op[o] \in {"pop", "open"} => steady[o] \subseteq Listed(o) /\ Primary \notin Listed(o)

Steady == steady \in [Conn -> SUBSET Data] /\ \A o \in Conn : SteadyAt(o)

\* What does not concern a caller.
LEMMA SteadyElse ==
    ASSUME Steady, SteadyMove, NEW p \in Conn, op'[p] = op[p] \/ (op[p] = "got" /\ op'[p] = "over")
               \/ (op[p] = "failed" /\ op'[p] = "over"),
           heap'[p] = heap[p], cur'[p] = cur[p], stream'[p] \in {stream[p], None}, stopped => stopped',
           op[p] = "idle" => stream'[p] = None
    PROVE  SteadyAt(p)'
<1>1. op'[p] # "idle" => steady'[p] \subseteq steady[p]
  BY DEF SteadyMove
<1>2. op[p] = op'[p] => Listed(p)' = Listed(p)
  BY DEF Listed
<1>3. None # Primary
  BY DEF Session
<1> QED
  BY <1>1, <1>2, <1>3 DEF Steady, SteadyAt

\* A step of the caller itself.
LEMMA SteadySelf ==
    ASSUME GroupTyped, Steady, SteadyMove, NEW o \in Conn, Call(o) \/ Opening(o)
    PROVE  SteadyAt(o)'
<1>1. steady'[o] = IF op'[o] = "idle" THEN Data
                   ELSE {s \in steady[o] : HasRoom(s) /\ HasRoom(s)' /\ ~Refused(o, s)}
  BY DEF SteadyMove
<1>2. o \in Opener /\ steady[o] \subseteq Data /\ SteadyAt(o) /\ None # Primary /\ Primary \notin Data
  BY DEF Steady, Session
<1>3. op[o] \in OpSteps /\ (op[o] \notin {"got", "over"} => stream[o] = None) /\ DOMAIN heap = Opener
  BY <1>2 DEF GroupTyped
<1>4. steady[o] = {} /\ op'[o] # "idle" => steady'[o] = {}
  BY <1>1
<1> USE DEF To, SteadyAt, GroupTyped
<1>5. CASE Call(o)
  BY <1>1, <1>2, <1>3, <1>5 DEF Call
<1>6. CASE TryData(o)
  <2>1. \A s \in steady'[o] : s \in Usable(members \ {Primary})
    BY <1>1, <1>2, <1>6 DEF TryData, HasRoom, Usable
  <2>2. CASE stopped
    BY <1>2, <1>3, <1>6, <2>2 DEF TryData, group
  <2>3. CASE ~stopped /\ Usable(members \ {Primary}) = {}
    BY <1>2, <1>3, <1>6, <2>1, <2>3 DEF TryData
  <2>4. CASE ~stopped /\ Usable(members \ {Primary}) # {}
    <3>1. op'[o] = "pop" /\ stream' = stream
      BY <1>2, <1>6, <2>4 DEF TryData
    <3>2. heap'[o] = {[id |-> s, streams |-> NumStreams(s)] : s \in Usable(members \ {Primary})}
      BY <1>2, <1>3, <1>6, <2>4 DEF TryData, BuildHeap
    <3>3. {e.id : e \in heap'[o]} = Usable(members \ {Primary})
      <4> DEFINE U == Usable(members \ {Primary})
      <4>1. ASSUME NEW s \in U PROVE s \in {e.id : e \in heap'[o]}
        <5>1. [id |-> s, streams |-> NumStreams(s)] \in heap'[o]
          BY <3>2, <4>1
        <5>2. [id |-> s, streams |-> NumStreams(s)].id = s
          OBVIOUS
        <5> QED
          BY <5>1, <5>2
      <4>2. ASSUME NEW e \in heap'[o] PROVE e.id \in U
        <5>1. PICK s \in U : e = [id |-> s, streams |-> NumStreams(s)]
          BY <3>2
        <5> QED
          BY <5>1
      <4>3. {e.id : e \in heap'[o]} \subseteq U
        <5> HIDE DEF U
        <5> QED
          BY <4>2
      <4>4. U \subseteq {e.id : e \in heap'[o]}
        <5> HIDE DEF U
        <5> QED
          BY <4>1
      <4> QED
        BY <4>3, <4>4
    <3>4. Listed(o)' = Usable(members \ {Primary})
      BY <3>1, <3>3 DEF Listed
    <3>5. Primary \notin Usable(members \ {Primary})
      BY DEF Usable
    <3> QED
      BY <1>2, <1>3, <1>6, <2>1, <3>1, <3>4, <3>5 DEF TryData
  <2> QED
    BY <2>2, <2>3, <2>4
<1>7. CASE TryAll(o)
  BY <1>2, <1>3, <1>4, <1>7 DEF TryAll
<1>8. CASE Pop(o)
  <2>1. PICK e \in heap[o] :
            /\ heap' = [heap EXCEPT ![o] = heap[o] \ {e}]
            /\ IF yam[e.id] = "open" /\ NumStreams(e.id) < StreamCap
               THEN op' = [op EXCEPT ![o] = "open"] /\ cur' = [cur EXCEPT ![o] = e.id]
               ELSE UNCHANGED <<op, cur>>
    BY <1>8 DEF Pop
  <2>2. op[o] = "pop" /\ stream' = stream /\ op'[o] \in {"pop", "open"}
    BY <1>2, <1>8, <2>1 DEF Pop
  <2>3. heap'[o] = heap[o] \ {e}
    BY <1>2, <2>1
  <2>4. Listed(o) = {f.id : f \in heap[o]}
    BY <2>2 DEF Listed
  <2>5. e.id \in steady'[o] => op'[o] = "open" /\ cur'[o] = e.id
    BY <1>1, <1>2, <2>1, <2>2 DEF HasRoom
  <2>6. Listed(o)' \subseteq Listed(o)
    BY <1>2, <2>1, <2>2, <2>3, <2>4 DEF Listed
  <2>7. \A s \in steady'[o] : s \in Listed(o) => s \in Listed(o)'
    BY <2>3, <2>4, <2>5 DEF Listed
  <2>8. steady'[o] \subseteq steady[o]
    BY <1>1, <2>2
  <2> QED
    BY <1>2, <1>3, <2>2, <2>6, <2>7, <2>8
<1>9. CASE Opened(o)
  BY <1>1, <1>2, <1>3, <1>9 DEF Opened, Listed
<1>10. CASE OpenFails(o)
  <2>1. op[o] = "open" /\ op'[o] = "pop" /\ heap' = heap /\ stream' = stream
    BY <1>2, <1>10 DEF OpenFails
  <2>2. steady'[o] \subseteq steady[o] \ {cur[o]}
    BY <1>1, <2>1 DEF Refused
  <2>3. Listed(o)' = Listed(o) \ {cur[o]} \/ Listed(o)' = Listed(o)
    BY <2>1 DEF Listed
  <2> QED
    BY <1>2, <1>3, <2>1, <2>2, <2>3
<1>11. CASE Exhausted(o)
  <2>1. Listed(o) = {}
    BY <1>11 DEF Exhausted, Listed
  <2>2. steady[o] = {}
    BY <1>2, <1>11, <2>1 DEF Exhausted
  <2> QED
    BY <1>2, <1>3, <1>4, <1>11, <2>2 DEF Exhausted
<1>12. CASE Retry(o)
  BY <1>2, <1>3, <1>4, <1>12 DEF Retry
<1>13. CASE StopsWaiting(o)
  BY <1>2, <1>3, <1>4, <1>13 DEF StopsWaiting
<1> QED
  BY <1>5, <1>6, <1>7, <1>8, <1>9, <1>10, <1>11, <1>12, <1>13 DEF Opening

\* What the group does by itself leaves every call alone, and takes streams.
LEMMA GroupQuiet ==
    ASSUME GroupTyped, GroupStep \/ PrimaryClosed \/ RemoveGroup
    PROVE  /\ UNCHANGED opens /\ (stopped => stopped')
           /\ \A o \in Opener : stream'[o] \in {stream[o], None}
           /\ DOMAIN stream' = Opener
<1> USE DEF group, gvars, opens, pulse, GroupTyped
<1>1. CASE Beats
  BY <1>1 DEF Beats, BeatStart, BeatRound, BeatEnds, BeatRemoves, PingFails, PingAnswered, RemoveSession, Shut
<1>2. CASE Sweep \/ RemoveGroup
  BY <1>2 DEF Sweep, RemoveGroup, CloseGroup
<1>3. CASE Sessions
  BY <1>3 DEF Sessions, CloseSession, AddSession, SessionDies, HandlerLeaves, RemoveSession, Shut
<1>4. CASE PrimaryClosed
  BY <1>4 DEF PrimaryClosed, Shut
<1> QED
  BY <1>1, <1>2, <1>3, <1>4 DEF GroupStep

\* What a step of a call does, as far as others can tell.
LEMMA OpeningMoves ==
    ASSUME GroupTyped, NEW o \in Opener, Call(o) \/ Opening(o)
    PROVE  /\ op[o] \in {"idle"} \cup Working /\ op'[o] \in Working \cup {"got", "failed"}
           /\ (op[o] = "idle") <=> Call(o)
           /\ op' = [op EXCEPT ![o] = op'[o]]
           /\ \A p \in Opener \ {o} : heap'[p] = heap[p] /\ cur'[p] = cur[p] /\ stream'[p] = stream[p]
           /\ stream'[o] = None \/ op'[o] = "got"
           /\ op'[o] = "got" => ~Call(o)
           /\ stopped => stopped'
<1> USE DEF group, GroupTyped, To, Working, OpSteps
<1>1. op[o] \in OpSteps /\ (op[o] \notin {"got", "over"} => stream[o] = None)
  OBVIOUS
<1>2. CASE Call(o)
  BY <1>1, <1>2 DEF Call
<1>3. CASE TryData(o)
  BY <1>1, <1>3 DEF TryData, BuildHeap, Call
<1>4. CASE TryAll(o)
  BY <1>1, <1>4 DEF TryAll, BuildHeap, Call
<1>5. CASE Opened(o)
  BY <1>1, <1>5 DEF Opened, Call
<1>6. CASE OpenFails(o)
  BY <1>1, <1>6 DEF OpenFails, Call
<1>7. CASE Exhausted(o)
  BY <1>1, <1>7 DEF Exhausted, Call
<1>8. CASE Retry(o)
  BY <1>1, <1>8 DEF Retry, Call
<1>9. CASE StopsWaiting(o)
  BY <1>1, <1>9 DEF StopsWaiting, Call
<1>10. CASE Pop(o)
  <2>1. PICK e \in heap[o] :
            /\ heap' = [heap EXCEPT ![o] = heap[o] \ {e}]
            /\ IF yam[e.id] = "open" /\ NumStreams(e.id) < StreamCap
               THEN op' = [op EXCEPT ![o] = "open"] /\ cur' = [cur EXCEPT ![o] = e.id]
               ELSE UNCHANGED <<op, cur>>
    BY <1>10 DEF Pop
  <2>2. op[o] = "pop" /\ UNCHANGED <<group, stream>>
    BY <1>10 DEF Pop
  <2> QED
    BY <1>1, <2>1, <2>2 DEF Call
<1> QED
  BY <1>2, <1>3, <1>4, <1>5, <1>6, <1>7, <1>8, <1>9, <1>10 DEF Opening

LEMMA NextSteady == GroupTyped /\ Steady /\ SteadyMove => Steady'
<1> SUFFICES ASSUME GroupTyped, Steady, SteadyMove PROVE Steady'
  OBVIOUS
<1>1. steady' \in [Conn -> SUBSET Data]
  BY DEF Steady, SteadyMove
<1>2. ASSUME NEW p \in Conn PROVE SteadyAt(p)'
  <2>1. p \in Opener /\ (op[p] = "idle" => stream[p] = None)
    BY DEF GroupTyped
  <2>2. CASE GroupStep \/ PrimaryClosed
    BY <2>1, <2>2, GroupQuiet, SteadyElse DEF opens
  <2>3. ASSUME NEW o \in Opener, Call(o) \/ Opening(o) PROVE SteadyAt(p)'
    <3>1. CASE o = p
      BY <2>3, <3>1, SteadySelf
    <3>2. CASE o # p
      <4>1. /\ op' = [op EXCEPT ![o] = op'[o]] /\ (stopped => stopped')
            /\ heap'[p] = heap[p] /\ cur'[p] = cur[p] /\ stream'[p] = stream[p]
        BY <2>1, <2>3, <3>2, OpeningMoves
      <4>2. op'[p] = op[p]
        BY <2>1, <3>2, <4>1 DEF GroupTyped
      <4> QED
        BY <2>1, <4>1, <4>2, SteadyElse
    <3> QED
      BY <3>1, <3>2
  <2>4. ASSUME NEW o \in Opener, StreamEnds(o) PROVE SteadyAt(p)'
    <3>1. stream'[p] \in {stream[p], None} /\ UNCHANGED opens /\ stopped' = stopped
      BY <2>1, <2>4 DEF StreamEnds, GroupTyped, group
    <3> QED
      BY <2>1, <3>1, SteadyElse DEF opens
  <2>5. ASSUME NEW c \in Conn, Deliver(c) PROVE SteadyAt(p)'
    <3>1. /\ stream'[p] \in {stream[p], None} /\ stopped' = stopped /\ heap' = heap /\ cur' = cur
          /\ op'[p] = op[p] \/ (op[p] \in {"got", "failed"} /\ op'[p] = "over")
      BY <2>1, <2>5 DEF Deliver, GroupTyped, group, To
    <3> QED
      BY <2>1, <3>1, SteadyElse
  <2>6. ASSUME NEW c \in Conn, HandlerReturns(c) PROVE SteadyAt(p)'
    <3>1. stream'[p] \in {stream[p], None} /\ UNCHANGED opens /\ stopped' = stopped
      BY <2>1, <2>6 DEF HandlerReturns, GroupTyped, group
    <3> QED
      BY <2>1, <3>1, SteadyElse DEF opens
  <2>7. CASE UNCHANGED gvars
    BY <2>1, <2>7, SteadyElse DEF gvars, group, opens
  <2> QED
    BY <2>2, <2>3, <2>4, <2>5, <2>6, <2>7 DEF SteadyMove, GroupMove
<1> QED
  BY <1>1, <1>2 DEF Steady

-----------------------------------------------------------------------------
(* The scenes                                                              *)

LEMMA ScenesMoveGroup == MCNext => SteadyMove
<1> SUFFICES ASSUME MCNext PROVE GroupMove
  BY DEF MCNext, SteadyMove
<1>1. Primary \in Session
  BY DEF Session
<1>2. CASE BeatsScene \/ OpensScene
  BY <1>2 DEF BeatsScene, OpensScene, GroupMove, GroupStep
<1>3. CASE PrimaryOnly \/ ProxyStart \/ Loop \/ Stops
  <2>1. CASE PrimaryOnly
    BY <1>1, <2>1 DEF PrimaryOnly, GroupMove, GroupStep, Sessions
  <2>2. CASE ProxyStart \/ Loop
    BY <2>2 DEF ProxyStart, Loop, LoopCheck, Accept, AcceptFails, GroupMove
  <2>3. CASE Stops
    BY <2>3 DEF Stops, StopSignal, Stopping, StopListener, StopDrained, StopTimesOut, GroupRemoved, GroupMove,
                GroupStep
  <2> QED
    BY <1>3, <2>1, <2>2, <2>3
<1>4. ASSUME NEW c \in Conn, Serving(c) PROVE GroupMove
  <2>1. c \in Opener
    OBVIOUS
  <2>2. CASE Arrive(c) \/ OpenTimesOut(c) \/ Copying(c)
    BY <2>2 DEF Arrive, OpenTimesOut, Copying, GroupMove
  <2>3. CASE Handler(c)
    BY <2>1, <2>3 DEF Handler, HandlerRefuses, HandlerOpens, HandlerPipes, HandlerGivesUp, GroupMove
  <2>4. CASE Deliver(c) \/ Opening(c)
    BY <2>1, <2>4 DEF GroupMove
  <2> QED
    BY <1>4, <2>2, <2>3, <2>4 DEF Serving
<1> QED
  BY <1>2, <1>3, <1>4 DEF MCNext, ConnsScene, BytesScene, GroupMove

GroupInv == GroupTyped /\ PulseTyped /\ Failing /\ Steady

LEMMA GroupAlways == Spec => []GroupInv
<1>1. MCInit => GroupInv
  BY InitGroup DEF MCInit, ProxyInit, GroupInv, Steady, SteadyAt, Init, Session
<1>2. GroupInv /\ [MCNext]_mcvars => GroupInv'
  <2> SUFFICES ASSUME GroupInv, [MCNext]_mcvars PROVE GroupInv'
    OBVIOUS
  <2>1. CASE MCNext
    BY <2>1, ScenesMoveGroup, NextGroupTyped, NextPulseTyped, NextFailing, NextSteady DEF GroupInv, SteadyMove
  <2>2. CASE UNCHANGED mcvars
    <3>1. UNCHANGED gvars /\ steady' = steady
      BY <2>2 DEF mcvars
    <3>2. GroupTyped' /\ PulseTyped' /\ Failing'
      BY <3>1, NextGroupTyped, NextPulseTyped, NextFailing DEF GroupInv, GroupMove
    <3>3. Steady'
      BY <3>1 DEF Steady, SteadyAt, Listed, GroupInv, gvars, group, opens
    <3> QED
      BY <3>2, <3>3 DEF GroupInv
  <2> QED
    BY <2>1, <2>2
<1> QED
  BY <1>1, <1>2, PTL DEF Spec

\* While some data session has room all the time and refuses nothing, a call
\* of OpenStream of an open group neither fails nor falls back on the primary,
\* whatever other sessions and callers do (selectSession and OpenStream in
\* connection_group.go).
THEOREM RoomIsFound == Spec => []SteadyServes
<1>1. GroupInv => SteadyServes
  BY DEF GroupInv, Steady, SteadyAt, SteadyServes
<1> QED
  BY GroupAlways, <1>1, PTL

\* The stale sweep of connection_group_manager.go never closes a session.
THEOREM SweepsOnlyEmpty == Spec => NoLiveSwept
<1>1. GroupInv /\ [MCNext]_mcvars => [swept' # swept => members = {}]_gvars
  BY ScenesMoveGroup, SweepOnly, SweepIsEmpty DEF GroupInv, SteadyMove, mcvars, gvars, group
<1> QED
  BY GroupAlways, <1>1, PTL DEF Spec, NoLiveSwept

-----------------------------------------------------------------------------
(* The public port                                                         *)

\* Every step of the composition of port, group and pipes.
ProxyMove ==
    \/ GroupStep /\ UNCHANGED proxyvars
    \/ ProxyStart \/ Loop \/ StopSignal \/ Stopping \/ StopTimesOut \/ PrimaryClosed
    \/ \E c \in Conn :
        \/ Arrive(c) \/ OpenTimesOut(c) \/ Handler(c) \/ Deliver(c) \/ Copying(c)
        \/ Opening(c) /\ UNCHANGED proxyvars
    \/ UNCHANGED <<gvars, proxyvars>>

PortTyped ==
    /\ loop \in {"off", "check", "accept", "end"}
    /\ user \in [Conn -> {"none", "backlog", "accepted", "open", "pipe", "end"}]
    /\ box \in [Conn -> {"empty", "stream", "error", "taken"}]
    /\ late \subseteq Conn /\ sem \in Int /\ wg \in Int
    /\ pstop \in {"no", "signal", "closed", "drained", "timeout"}

\* Handlers that hold a slot of p.sem.
Slots == {c \in Conn : user[c] \in {"open", "pipe"}}

Looping == IF loop \in {"check", "accept"} THEN 1 ELSE 0

\* The wait group counts the loop and the handlers, p.sem those past the limit.
Counted == wg = Cardinality(Handlers) + Looping /\ sem = Cardinality(Slots)

\* After a Stop that waited nobody runs but a loop that was started late.
Still == pstop = "drained" => loop # "accept" /\ Handlers = {}

\* Who owns the stream of a connection, from its opener to its handler.
OwnedAt(c) ==
    /\ user[c] \in {"none", "backlog", "accepted"} => op[c] = "idle"
    /\ op[c] # "over" => box[c] = "empty"
    /\ box[c] = "error" => stream[c] = None
    /\ user[c] = "pipe" => op[c] = "over"
    /\ op[c] = "over" /\ stream[c] # None =>
           \/ user[c] = "pipe"
           \/ box[c] = "stream" /\ (user[c] = "open" \/ c \in late \/ pstop # "no")
    /\ user[c] = "end" => op[c] \in {"idle", "over"} \/ c \in late \/ pstop # "no"

Owned == \A c \in Conn : OwnedAt(c)

LEMMA HandlersFinite ==
    /\ IsFiniteSet(Handlers) /\ Cardinality(Handlers) \in Nat
    /\ IsFiniteSet(Slots) /\ Cardinality(Slots) \in Nat /\ Slots \subseteq Handlers
<1>1. Handlers \subseteq Conn /\ Slots \subseteq Handlers
  BY DEF Handlers, Slots
<1> QED
  BY <1>1, FS_Subset, FS_CardinalityType

LEMMA InitPort == ProxyInit => PortTyped /\ Counted /\ Still /\ Owned
<1> SUFFICES ASSUME ProxyInit PROVE PortTyped /\ Counted /\ Still /\ Owned
  OBVIOUS
<1>1. PortTyped /\ Still
  BY DEF ProxyInit, PortTyped, Still
<1>2. Handlers = {} /\ Slots = {} /\ wg = 0 /\ sem = 0 /\ Looping = 0
  BY DEF ProxyInit, Handlers, Slots, Looping
<1>3. Cardinality({}) = 0
  BY FS_EmptySet
<1>4. Counted
  BY <1>2, <1>3 DEF Counted
<1>5. Owned
  BY DEF ProxyInit, Init, Owned, OwnedAt
<1> QED
  BY <1>1, <1>4, <1>5

LEMMA NextPortTyped == PortTyped /\ ProxyMove => PortTyped'
<1> SUFFICES ASSUME PortTyped, ProxyMove PROVE PortTyped'
  OBVIOUS
<1> USE DEF hvars, proxyvars, PortTyped
<1>1. ASSUME GroupStep, UNCHANGED proxyvars PROVE PortTyped'
  BY <1>1 DEF proxyvars, hvars
<1>2. ASSUME ProxyStart PROVE PortTyped'
  BY <1>2 DEF ProxyStart
<1>3. ASSUME LoopCheck PROVE PortTyped'
  BY <1>3 DEF LoopCheck
<1>4. ASSUME NEW c \in Conn, Accept(c) PROVE PortTyped'
  BY <1>4 DEF Accept
<1>5. ASSUME AcceptFails PROVE PortTyped'
  BY <1>5 DEF AcceptFails
<1>6. ASSUME StopSignal PROVE PortTyped'
  BY <1>6 DEF StopSignal
<1>7. ASSUME StopListener PROVE PortTyped'
  BY <1>7 DEF StopListener
<1>8. ASSUME StopDrained PROVE PortTyped'
  BY <1>8 DEF StopDrained
<1>9. ASSUME StopTimesOut PROVE PortTyped'
  BY <1>9 DEF StopTimesOut
<1>10. ASSUME PrimaryClosed PROVE PortTyped'
  BY <1>10 DEF PrimaryClosed, proxyvars
<1>11. ASSUME NEW c \in Conn, Arrive(c) PROVE PortTyped'
  BY <1>11 DEF Arrive
<1>12. ASSUME NEW c \in Conn, OpenTimesOut(c) PROVE PortTyped'
  BY <1>12 DEF OpenTimesOut
<1>13. ASSUME NEW c \in Conn, HandlerRefuses(c) PROVE PortTyped'
  BY <1>13 DEF HandlerRefuses, Return
<1>14. ASSUME NEW c \in Conn, HandlerOpens(c) PROVE PortTyped'
  BY <1>14 DEF HandlerOpens
<1>15. ASSUME NEW c \in Conn, HandlerPipes(c) PROVE PortTyped'
  BY <1>15 DEF HandlerPipes
<1>16. ASSUME NEW c \in Conn, HandlerGivesUp(c) PROVE PortTyped'
  BY <1>16 DEF HandlerGivesUp, Return
<1>17. ASSUME NEW c \in Conn, HandlerReturns(c) PROVE PortTyped'
  BY <1>17 DEF HandlerReturns, Return
<1>18. ASSUME NEW c \in Conn, Deliver(c) PROVE PortTyped'
  BY <1>18 DEF Deliver
<1>19. ASSUME NEW c \in Conn, Copying(c) PROVE PortTyped'
  BY <1>19 DEF Copying
<1>20. ASSUME NEW c \in Conn, Opening(c), UNCHANGED proxyvars PROVE PortTyped'
  BY <1>20 DEF proxyvars, hvars
<1>21. ASSUME UNCHANGED <<gvars, proxyvars>> PROVE PortTyped'
  BY <1>21 DEF proxyvars, gvars
<1> QED
  BY <1>1, <1>2, <1>3, <1>4, <1>5, <1>6, <1>7, <1>8, <1>9, <1>10, <1>11, <1>12, <1>13,
     <1>14, <1>15, <1>16, <1>17, <1>18, <1>19, <1>20, <1>21 DEF ProxyMove, Loop, Stopping, Handler

LEMMA NextCounted == PortTyped /\ Counted /\ ProxyMove => Counted'
<1> SUFFICES ASSUME PortTyped, Counted, ProxyMove PROVE Counted'
  OBVIOUS
<1> USE DEF hvars, proxyvars, PortTyped, Counted
<1>1. ASSUME GroupStep, UNCHANGED proxyvars PROVE Counted'
  <2>1. Handlers' = Handlers /\ Slots' = Slots /\ Looping' = Looping /\ wg' = wg /\ sem' = sem
    BY <1>1 DEF proxyvars, gvars, Handlers, Slots, Looping
  <2> QED
    BY <2>1
<1>2. ASSUME ProxyStart PROVE Counted'
  <2>1. Handlers' = Handlers /\ Slots' = Slots /\ sem' = sem
    BY <1>2 DEF ProxyStart, Handlers, Slots
  <2>2. \/ Looping = 0 /\ Looping' = 1 /\ wg' = wg + 1
        \/ Looping = 1 /\ Looping' = 1 /\ wg' = wg
        \/ Looping = 1 /\ Looping' = 0 /\ wg' = wg - 1
    BY <1>2 DEF ProxyStart, Looping
  <2>3. Counted'
    <3>1. wg = Cardinality(Handlers) + Looping /\ Cardinality(Handlers) \in Nat
      BY HandlersFinite
    <3>2. wg' = Cardinality(Handlers) + Looping'
      BY <2>2, <3>1
    <3> QED
      BY <2>1, <3>2
  <2> QED
    BY <2>3
<1>3. ASSUME LoopCheck PROVE Counted'
  <2>1. Handlers' = Handlers /\ Slots' = Slots /\ sem' = sem
    BY <1>3 DEF LoopCheck, Handlers, Slots
  <2>2. \/ Looping = 0 /\ Looping' = 1 /\ wg' = wg + 1
        \/ Looping = 1 /\ Looping' = 1 /\ wg' = wg
        \/ Looping = 1 /\ Looping' = 0 /\ wg' = wg - 1
    BY <1>3 DEF LoopCheck, Looping
  <2>3. Counted'
    <3>1. wg = Cardinality(Handlers) + Looping /\ Cardinality(Handlers) \in Nat
      BY HandlersFinite
    <3>2. wg' = Cardinality(Handlers) + Looping'
      BY <2>2, <3>1
    <3> QED
      BY <2>1, <3>2
  <2> QED
    BY <2>3
<1>4. ASSUME NEW c \in Conn, Accept(c) PROVE Counted'
  <2>1. c \notin Handlers /\ Handlers' = Handlers \cup {c} /\ wg' = wg + 1
    BY <1>4 DEF Accept, Handlers
  <2>2. Slots' = Slots /\ Looping' = Looping /\ sem' = sem
    BY <1>4 DEF Accept, Slots, Looping
  <2>3. Cardinality(Handlers \cup {c}) = Cardinality(Handlers) + 1
    BY <2>1, HandlersFinite, FS_AddElement
  <2> QED
    BY <2>1, <2>2, <2>3, HandlersFinite DEF Looping
<1>5. ASSUME AcceptFails PROVE Counted'
  <2>1. Handlers' = Handlers /\ Slots' = Slots /\ Looping' = Looping /\ wg' = wg /\ sem' = sem
    BY <1>5 DEF AcceptFails, Handlers, Slots, Looping
  <2> QED
    BY <2>1
<1>6. ASSUME StopSignal PROVE Counted'
  <2>1. Handlers' = Handlers /\ Slots' = Slots /\ Looping' = Looping /\ wg' = wg /\ sem' = sem
    BY <1>6 DEF StopSignal, Handlers, Slots, Looping
  <2> QED
    BY <2>1
<1>7. ASSUME StopListener PROVE Counted'
  <2>1. Handlers' = Handlers /\ Slots' = Slots /\ Looping' = Looping /\ wg' = wg /\ sem' = sem
    BY <1>7 DEF StopListener, Handlers, Slots, Looping
  <2> QED
    BY <2>1
<1>8. ASSUME StopDrained PROVE Counted'
  <2>1. Handlers' = Handlers /\ Slots' = Slots /\ Looping' = Looping /\ wg' = wg /\ sem' = sem
    BY <1>8 DEF StopDrained, Handlers, Slots, Looping
  <2> QED
    BY <2>1
<1>9. ASSUME StopTimesOut PROVE Counted'
  <2>1. Handlers' = Handlers /\ Slots' = Slots /\ Looping' = Looping /\ wg' = wg /\ sem' = sem
    BY <1>9 DEF StopTimesOut, Handlers, Slots, Looping
  <2> QED
    BY <2>1
<1>10. ASSUME PrimaryClosed PROVE Counted'
  <2>1. Handlers' = Handlers /\ Slots' = Slots /\ Looping' = Looping /\ wg' = wg /\ sem' = sem
    BY <1>10 DEF PrimaryClosed, proxyvars, Handlers, Slots, Looping
  <2> QED
    BY <2>1
<1>11. ASSUME NEW c \in Conn, Arrive(c) PROVE Counted'
  <2>1. Handlers' = Handlers /\ Slots' = Slots /\ Looping' = Looping /\ wg' = wg /\ sem' = sem
    BY <1>11 DEF Arrive, Handlers, Slots, Looping
  <2> QED
    BY <2>1
<1>12. ASSUME NEW c \in Conn, OpenTimesOut(c) PROVE Counted'
  <2>1. Handlers' = Handlers /\ Slots' = Slots /\ Looping' = Looping /\ wg' = wg /\ sem' = sem
    BY <1>12 DEF OpenTimesOut, Handlers, Slots, Looping
  <2> QED
    BY <2>1
<1>13. ASSUME NEW c \in Conn, HandlerRefuses(c) PROVE Counted'
  <2>1. c \in Handlers /\ Handlers' = Handlers \ {c} /\ wg' = wg - 1 /\ Looping' = Looping
    BY <1>13 DEF HandlerRefuses, Return, Handlers, Looping
  <2>2. Slots' = Slots
    BY <1>13 DEF HandlerRefuses, Return, Slots
  <2>3. sem' = sem
    BY <1>13 DEF HandlerRefuses, Return
  <2>4. Cardinality(Handlers \ {c}) = Cardinality(Handlers) - 1
    BY <2>1, HandlersFinite, FS_RemoveElement
  <2> QED
    BY <2>1, <2>2, <2>3, <2>4, HandlersFinite DEF Looping
<1>14. ASSUME NEW c \in Conn, HandlerOpens(c) PROVE Counted'
  <2>1. Handlers' = Handlers /\ Looping' = Looping /\ wg' = wg
    BY <1>14 DEF HandlerOpens, Handlers, Looping
  <2>2. c \notin Slots /\ Slots' = Slots \cup {c} /\ sem' = sem + 1
    BY <1>14 DEF HandlerOpens, Slots
  <2>3. Cardinality(Slots \cup {c}) = Cardinality(Slots) + 1
    BY <2>2, HandlersFinite, FS_AddElement
  <2> QED
    BY <2>1, <2>2, <2>3
<1>15. ASSUME NEW c \in Conn, HandlerPipes(c) PROVE Counted'
  <2>1. Handlers' = Handlers /\ Slots' = Slots /\ Looping' = Looping /\ wg' = wg /\ sem' = sem
    BY <1>15 DEF HandlerPipes, Handlers, Slots, Looping
  <2> QED
    BY <2>1
<1>16. ASSUME NEW c \in Conn, HandlerGivesUp(c) PROVE Counted'
  <2>1. c \in Handlers /\ Handlers' = Handlers \ {c} /\ wg' = wg - 1 /\ Looping' = Looping
    BY <1>16 DEF HandlerGivesUp, Return, Handlers, Looping
  <2>2. c \in Slots /\ Slots' = Slots \ {c} /\ sem' = sem - 1
    BY <1>16 DEF HandlerGivesUp, Return, Slots
  <2>3. Cardinality(Slots \ {c}) = Cardinality(Slots) - 1
    BY <2>2, HandlersFinite, FS_RemoveElement
  <2>4. Cardinality(Handlers \ {c}) = Cardinality(Handlers) - 1
    BY <2>1, HandlersFinite, FS_RemoveElement
  <2> QED
    BY <2>1, <2>2, <2>3, <2>4, HandlersFinite DEF Looping
<1>17. ASSUME NEW c \in Conn, HandlerReturns(c) PROVE Counted'
  <2>1. c \in Handlers /\ Handlers' = Handlers \ {c} /\ wg' = wg - 1 /\ Looping' = Looping
    BY <1>17 DEF HandlerReturns, Return, Handlers, Looping
  <2>2. c \in Slots /\ Slots' = Slots \ {c} /\ sem' = sem - 1
    BY <1>17 DEF HandlerReturns, Return, Slots
  <2>3. Cardinality(Slots \ {c}) = Cardinality(Slots) - 1
    BY <2>2, HandlersFinite, FS_RemoveElement
  <2>4. Cardinality(Handlers \ {c}) = Cardinality(Handlers) - 1
    BY <2>1, HandlersFinite, FS_RemoveElement
  <2> QED
    BY <2>1, <2>2, <2>3, <2>4, HandlersFinite DEF Looping
<1>18. ASSUME NEW c \in Conn, Deliver(c) PROVE Counted'
  <2>1. Handlers' = Handlers /\ Slots' = Slots /\ Looping' = Looping /\ wg' = wg /\ sem' = sem
    BY <1>18 DEF Deliver, Handlers, Slots, Looping
  <2> QED
    BY <2>1
<1>19. ASSUME NEW c \in Conn, Copying(c) PROVE Counted'
  <2>1. Handlers' = Handlers /\ Slots' = Slots /\ Looping' = Looping /\ wg' = wg /\ sem' = sem
    BY <1>19 DEF Copying, Handlers, Slots, Looping
  <2> QED
    BY <2>1
<1>20. ASSUME NEW c \in Conn, Opening(c), UNCHANGED proxyvars PROVE Counted'
  <2>1. Handlers' = Handlers /\ Slots' = Slots /\ Looping' = Looping /\ wg' = wg /\ sem' = sem
    BY <1>20 DEF proxyvars, gvars, Handlers, Slots, Looping
  <2> QED
    BY <2>1
<1>21. ASSUME UNCHANGED <<gvars, proxyvars>> PROVE Counted'
  <2>1. Handlers' = Handlers /\ Slots' = Slots /\ Looping' = Looping /\ wg' = wg /\ sem' = sem
    BY <1>21 DEF proxyvars, gvars, Handlers, Slots, Looping
  <2> QED
    BY <2>1
<1> QED
  BY <1>1, <1>2, <1>3, <1>4, <1>5, <1>6, <1>7, <1>8, <1>9, <1>10, <1>11, <1>12, <1>13,
     <1>14, <1>15, <1>16, <1>17, <1>18, <1>19, <1>20, <1>21 DEF ProxyMove, Loop, Stopping, Handler

LEMMA NextStill == PortTyped /\ Counted /\ Still /\ ProxyMove => Still'
<1> SUFFICES ASSUME PortTyped, Counted, Still, ProxyMove PROVE Still'
  OBVIOUS
<1> USE DEF hvars, proxyvars, PortTyped, Still
<1>1. ASSUME GroupStep, UNCHANGED proxyvars PROVE Still'
  BY <1>1 DEF proxyvars, gvars, Handlers
<1>2. ASSUME ProxyStart PROVE Still'
  BY <1>2 DEF ProxyStart, Handlers
<1>3. ASSUME LoopCheck PROVE Still'
  BY <1>3 DEF LoopCheck, Handlers
<1>4. ASSUME NEW c \in Conn, Accept(c) PROVE Still'
  BY <1>4 DEF Accept, Handlers
<1>5. ASSUME AcceptFails PROVE Still'
  BY <1>5 DEF AcceptFails, Handlers
<1>6. ASSUME StopSignal PROVE Still'
  BY <1>6 DEF StopSignal, Handlers
<1>7. ASSUME StopListener PROVE Still'
  BY <1>7 DEF StopListener, Handlers
<1>8. ASSUME StopDrained PROVE Still'
  <2>1. Cardinality(Handlers) = 0 /\ loop # "accept"
    BY <1>8, HandlersFinite DEF StopDrained, Counted, Looping
  <2>2. Handlers = {}
    BY <2>1, HandlersFinite, FS_EmptySet
  <2> QED
    BY <1>8, <2>1, <2>2 DEF StopDrained, Handlers
<1>9. ASSUME StopTimesOut PROVE Still'
  BY <1>9 DEF StopTimesOut, Handlers
<1>10. ASSUME PrimaryClosed PROVE Still'
  BY <1>10 DEF PrimaryClosed, proxyvars, Handlers
<1>11. ASSUME NEW c \in Conn, Arrive(c) PROVE Still'
  BY <1>11 DEF Arrive, Handlers
<1>12. ASSUME NEW c \in Conn, OpenTimesOut(c) PROVE Still'
  BY <1>12 DEF OpenTimesOut, Handlers
<1>13. ASSUME NEW c \in Conn, HandlerRefuses(c) PROVE Still'
  BY <1>13 DEF HandlerRefuses, Return, Handlers
<1>14. ASSUME NEW c \in Conn, HandlerOpens(c) PROVE Still'
  BY <1>14 DEF HandlerOpens, Handlers
<1>15. ASSUME NEW c \in Conn, HandlerPipes(c) PROVE Still'
  BY <1>15 DEF HandlerPipes, Handlers
<1>16. ASSUME NEW c \in Conn, HandlerGivesUp(c) PROVE Still'
  BY <1>16 DEF HandlerGivesUp, Return, Handlers
<1>17. ASSUME NEW c \in Conn, HandlerReturns(c) PROVE Still'
  BY <1>17 DEF HandlerReturns, Return, Handlers
<1>18. ASSUME NEW c \in Conn, Deliver(c) PROVE Still'
  BY <1>18 DEF Deliver, Handlers
<1>19. ASSUME NEW c \in Conn, Copying(c) PROVE Still'
  BY <1>19 DEF Copying, Handlers
<1>20. ASSUME NEW c \in Conn, Opening(c), UNCHANGED proxyvars PROVE Still'
  BY <1>20 DEF proxyvars, gvars, Handlers
<1>21. ASSUME UNCHANGED <<gvars, proxyvars>> PROVE Still'
  BY <1>21 DEF proxyvars, gvars, Handlers
<1> QED
  BY <1>1, <1>2, <1>3, <1>4, <1>5, <1>6, <1>7, <1>8, <1>9, <1>10, <1>11, <1>12, <1>13,
     <1>14, <1>15, <1>16, <1>17, <1>18, <1>19, <1>20, <1>21 DEF ProxyMove, Loop, Stopping, Handler

LEMMA NextOwned == GroupTyped /\ PortTyped /\ Owned /\ ProxyMove => Owned'
<1> SUFFICES ASSUME GroupTyped, PortTyped, Owned, ProxyMove, NEW p \in Conn PROVE OwnedAt(p)'
  BY DEF Owned
<1> USE DEF OwnedAt
<1>0. OwnedAt(p) /\ p \in Opener /\ DOMAIN op = Opener /\ DOMAIN stream = Opener
      /\ (op[p] \notin {"got", "over"} => stream[p] = None)
  BY DEF Owned, GroupTyped
<1>1. ASSUME GroupStep, UNCHANGED proxyvars PROVE OwnedAt(p)'
  <2>1. UNCHANGED opens /\ stream'[p] \in {stream[p], None}
    BY <1>1, <1>0, GroupQuiet
  <2> QED
    BY <1>1, <1>0, <2>1 DEF proxyvars, hvars, opens, hvars, proxyvars
<1>2. ASSUME ProxyStart PROVE OwnedAt(p)'
  BY <1>2, <1>0 DEF ProxyStart, hvars, proxyvars, gvars, opens, PortTyped
<1>3. ASSUME LoopCheck PROVE OwnedAt(p)'
  BY <1>3, <1>0 DEF LoopCheck, hvars, proxyvars, gvars, opens, PortTyped
<1>4. ASSUME NEW c \in Conn, Accept(c) PROVE OwnedAt(p)'
  BY <1>4, <1>0 DEF Accept, hvars, proxyvars, gvars, opens, PortTyped
<1>5. ASSUME AcceptFails PROVE OwnedAt(p)'
  BY <1>5, <1>0 DEF AcceptFails, hvars, proxyvars, gvars, opens, PortTyped
<1>6. ASSUME StopSignal PROVE OwnedAt(p)'
  BY <1>6, <1>0 DEF StopSignal, hvars, proxyvars, gvars, opens, PortTyped
<1>7. ASSUME StopListener PROVE OwnedAt(p)'
  BY <1>7, <1>0 DEF StopListener, hvars, proxyvars, gvars, opens, PortTyped
<1>8. ASSUME StopDrained PROVE OwnedAt(p)'
  BY <1>8, <1>0 DEF StopDrained, hvars, proxyvars, gvars, opens, PortTyped
<1>9. ASSUME StopTimesOut PROVE OwnedAt(p)'
  BY <1>9, <1>0 DEF StopTimesOut, hvars, proxyvars, gvars, opens, PortTyped
<1>10. ASSUME PrimaryClosed PROVE OwnedAt(p)'
  <2>1. UNCHANGED opens /\ stream'[p] \in {stream[p], None}
    BY <1>10, <1>0, GroupQuiet
  <2> QED
    BY <1>10, <1>0, <2>1 DEF PrimaryClosed, proxyvars, opens, hvars, proxyvars
<1>11. ASSUME NEW c \in Conn, Arrive(c) PROVE OwnedAt(p)'
  BY <1>11, <1>0 DEF Arrive, hvars, proxyvars, gvars, opens, PortTyped
<1>12. ASSUME NEW c \in Conn, OpenTimesOut(c) PROVE OwnedAt(p)'
  BY <1>12, <1>0 DEF OpenTimesOut, hvars, proxyvars, gvars, opens, PortTyped
<1>13. ASSUME NEW c \in Conn, HandlerRefuses(c) PROVE OwnedAt(p)'
  BY <1>13, <1>0 DEF HandlerRefuses, Return, hvars, proxyvars, gvars, opens, PortTyped
<1>14. ASSUME NEW c \in Conn, HandlerOpens(c) PROVE OwnedAt(p)'
  BY <1>14, <1>0 DEF HandlerOpens, Call, To, PortTyped
<1>15. ASSUME NEW c \in Conn, HandlerPipes(c) PROVE OwnedAt(p)'
  BY <1>15, <1>0 DEF HandlerPipes, hvars, proxyvars, gvars, opens, PortTyped
<1>16. ASSUME NEW c \in Conn, HandlerGivesUp(c) PROVE OwnedAt(p)'
  BY <1>16, <1>0 DEF HandlerGivesUp, Return, hvars, proxyvars, gvars, opens, PortTyped
<1>17. ASSUME NEW c \in Conn, HandlerReturns(c) PROVE OwnedAt(p)'
  BY <1>17, <1>0 DEF HandlerReturns, Return, hvars, proxyvars, gvars, opens, PortTyped
<1>18. ASSUME NEW c \in Conn, Deliver(c) PROVE OwnedAt(p)'
  BY <1>18, <1>0 DEF Deliver, CtxDone, To, PortTyped
<1>19. ASSUME NEW c \in Conn, Copying(c) PROVE OwnedAt(p)'
  BY <1>19, <1>0 DEF Copying, hvars, proxyvars, gvars, opens, PortTyped
<1>20. ASSUME NEW c \in Conn, Opening(c), UNCHANGED proxyvars PROVE OwnedAt(p)'
  <2>1. /\ op[c] \in Working /\ op'[c] \in Working \cup {"got", "failed"}
        /\ op' = [op EXCEPT ![c] = op'[c]]
        /\ c # p => stream'[p] = stream[p]
        /\ c = p => stream'[p] = None \/ op'[p] = "got"
    <3>1. op[c] # "idle"
      BY <1>20 DEF Opening, TryData, TryAll, Pop, Opened, OpenFails, Exhausted, Retry, StopsWaiting
    <3> QED
      BY <1>20, <3>1, <1>0, OpeningMoves DEF Working
  <2>2. c # p => op'[p] = op[p]
    BY <1>0, <2>1
  <2> QED
    BY <1>20, <1>0, <2>1, <2>2 DEF hvars, proxyvars, Working
<1>21. ASSUME UNCHANGED <<gvars, proxyvars>> PROVE OwnedAt(p)'
  BY <1>21, <1>0 DEF proxyvars, gvars, hvars, proxyvars, gvars, opens, PortTyped
<1> QED
  BY <1>1, <1>2, <1>3, <1>4, <1>5, <1>6, <1>7, <1>8, <1>9, <1>10, <1>11, <1>12, <1>13,
     <1>14, <1>15, <1>16, <1>17, <1>18, <1>19, <1>20, <1>21 DEF ProxyMove, Loop, Stopping, Handler

-----------------------------------------------------------------------------
(* The pipe of each connection                                             *)

PipeTyped ==
    /\ way \in [Conn -> [Bytes!Dir -> {"off", "read", "check", "write", "close", "done"}]]
    /\ sent \in [Conn -> [Bytes!Dir -> Int]] /\ taken \in [Conn -> [Bytes!Dir -> Int]]
    /\ moved \in [Conn -> [Bytes!Dir -> Int]]
    /\ last \in [Conn -> [Bytes!Dir -> {"open", "end", "reset"}]]
    /\ how \in [Conn -> [Bytes!Dir -> {"none", "eof", "error"}]]
    /\ due \in [Conn -> [Bytes!Dir -> BOOLEAN]] /\ halt \in [Conn -> BOOLEAN]

\* Whether something outside a pipe cut it.
CutAt(c) ==
    \/ pstop # "no" \/ (user[c] = "pipe" /\ stream[c] = None)
    \/ "reset" \in {last[c]["up"], last[c]["down"]}

\* A chunk is in hand only between read and write; a deadline is set and both
\* ends are closed only by the other direction's end, or from outside.
PipeAt(c) ==
    /\ user[c] \notin {"pipe", "end"} => \A d \in Bytes!Dir : way[c][d] = "off"
    /\ \A d \in Bytes!Dir :
        /\ way[c][d] \in {"close", "done"} <=> how[c][d] # "none"
        /\ way[c][d] \in {"off", "read", "check"} => moved[c][d] = taken[c][d]
        /\ way[c][d] = "write" => taken[c][d] = moved[c][d] + 1
        /\ how[c][d] = "eof" => last[c][d] = "end" /\ moved[c][d] = sent[c][d]
        /\ due[c][d] => how[c][Bytes!Other(d)] # "none"
        /\ how[c][d] = "error" => how[c][Bytes!Other(d)] # "none" \/ CutAt(c)
    /\ halt[c] => pstop # "no" \/ \E d \in Bytes!Dir : how[c][d] # "none"

Piped == \A c \in Conn : PipeAt(c)

\* The values and the place of the pipe of one connection.
Frame(c) == <<way[c], sent[c], taken[c], moved[c], last[c], how[c], due[c], halt[c]>>

LEMMA InitPipe == ProxyInit => PipeTyped /\ Piped
<1> SUFFICES ASSUME ProxyInit PROVE PipeTyped /\ Piped
  OBVIOUS
<1> USE DEF ProxyInit, Bytes!PipeInit, Bytes!Dir
<1>1. PipeTyped
  BY DEF PipeTyped
<1>2. Piped
  BY DEF Piped, PipeAt
<1> QED
  BY <1>1, <1>2

LEMMA CopyingTyped ==
    ASSUME PipeTyped, NEW c \in Conn, Bytes!PipeStep(c)
    PROVE  PipeTyped' /\ \A p \in Conn \ {c} : Frame(p)' = Frame(p)
<1> USE DEF PipeTyped, Frame
<1>1. ASSUME NEW d \in Bytes!Dir, Bytes!PeerSends(c, d) PROVE PipeTyped' /\ \A p \in Conn \ {c} : Frame(p)' = Frame(p)
  BY <1>1 DEF Bytes!PeerSends
<1>2. ASSUME NEW d \in Bytes!Dir, Bytes!PeerEnds(c, d) PROVE PipeTyped' /\ \A p \in Conn \ {c} : Frame(p)' = Frame(p)
  BY <1>2 DEF Bytes!PeerEnds
<1>3. ASSUME NEW d \in Bytes!Dir, Bytes!Check(c, d) PROVE PipeTyped' /\ \A p \in Conn \ {c} : Frame(p)' = Frame(p)
  <2>1. /\ UNCHANGED <<sent, taken, moved, last, halt>>
        /\ \/ /\ way' = [way EXCEPT ![c][d] = "close"] /\ how' = [how EXCEPT ![c][d] = "error"]
              /\ due' = [due EXCEPT ![c][Bytes!Other(d)] = TRUE]
           \/ way' = [way EXCEPT ![c][d] = "read"] /\ UNCHANGED <<how, due>>
    BY <1>3 DEF Bytes!Check, Bytes!Ends, Bytes!HalfClose
  <2>2. PipeTyped'
    <3>1. CASE UNCHANGED <<how, due>> /\ way' = [way EXCEPT ![c][d] = "read"]
      BY <2>1, <3>1
    <3>2. CASE way' = [way EXCEPT ![c][d] = "close"] /\ how' = [how EXCEPT ![c][d] = "error"]
               /\ due' = [due EXCEPT ![c][Bytes!Other(d)] = TRUE]
      <4>1. UNCHANGED <<sent, taken, moved, last, halt>>
        BY <2>1
      <4> QED
        BY <3>2, <4>1
    <3> QED
      BY <2>1, <3>1, <3>2
  <2>3. \A p \in Conn \ {c} : Frame(p)' = Frame(p)
    BY <2>1
  <2> QED
    BY <2>2, <2>3
<1>4. ASSUME NEW d \in Bytes!Dir, Bytes!Read(c, d) PROVE PipeTyped' /\ \A p \in Conn \ {c} : Frame(p)' = Frame(p)
  BY <1>4 DEF Bytes!Read
<1>5. ASSUME NEW d \in Bytes!Dir, Bytes!ReadEnds(c, d) PROVE PipeTyped' /\ \A p \in Conn \ {c} : Frame(p)' = Frame(p)
  BY <1>5 DEF Bytes!ReadEnds, Bytes!Ends, Bytes!HalfClose
<1>6. ASSUME NEW d \in Bytes!Dir, Bytes!ReadFails(c, d) PROVE PipeTyped' /\ \A p \in Conn \ {c} : Frame(p)' = Frame(p)
  BY <1>6 DEF Bytes!ReadFails, Bytes!Ends, Bytes!HalfClose
<1>7. ASSUME NEW d \in Bytes!Dir, Bytes!Write(c, d) PROVE PipeTyped' /\ \A p \in Conn \ {c} : Frame(p)' = Frame(p)
  BY <1>7 DEF Bytes!Write
<1>8. ASSUME NEW d \in Bytes!Dir, Bytes!WriteFails(c, d) PROVE PipeTyped' /\ \A p \in Conn \ {c} : Frame(p)' = Frame(p)
  BY <1>8 DEF Bytes!WriteFails, Bytes!WriteFailing, Bytes!Ends, Bytes!HalfClose
<1>9. ASSUME NEW d \in Bytes!Dir, Bytes!CloseAll(c, d) PROVE PipeTyped' /\ \A p \in Conn \ {c} : Frame(p)' = Frame(p)
  BY <1>9 DEF Bytes!CloseAll
<1>10. ASSUME Bytes!CtxDone(c) PROVE PipeTyped' /\ \A p \in Conn \ {c} : Frame(p)' = Frame(p)
  BY <1>10 DEF Bytes!CtxDone
<1> QED
  BY <1>1, <1>2, <1>3, <1>4, <1>5, <1>6, <1>7, <1>8, <1>9, <1>10 DEF Bytes!PipeStep, Bytes!Peers, Bytes!Runs

LEMMA CopyingKeeps ==
    ASSUME PipeTyped, NEW c \in Conn, PipeAt(c), Bytes!PipeStep(c), UNCHANGED <<user, stream, pstop>>
    PROVE  PipeAt(c)'
<1>0. Bytes!Dir = {"up", "down"} /\ Bytes!Other("up") = "down" /\ Bytes!Other("down") = "up"
  BY DEF Bytes!Dir, Bytes!Other
<1> USE <1>0 DEF PipeTyped, PipeAt, CutAt
<1>1. CASE Bytes!PeerSends(c, "up")
  BY <1>1 DEF Bytes!PeerSends
<1>2. CASE Bytes!PeerSends(c, "down")
  BY <1>2 DEF Bytes!PeerSends
<1>3. CASE Bytes!PeerEnds(c, "up")
  BY <1>3 DEF Bytes!PeerEnds
<1>4. CASE Bytes!PeerEnds(c, "down")
  BY <1>4 DEF Bytes!PeerEnds
<1>5. CASE Bytes!Check(c, "up")
  BY <1>5 DEF Bytes!Check, Bytes!Ends, Bytes!HalfClose
<1>6. CASE Bytes!Check(c, "down")
  BY <1>6 DEF Bytes!Check, Bytes!Ends, Bytes!HalfClose
<1>7. CASE Bytes!Read(c, "up")
  BY <1>7 DEF Bytes!Read, Bytes!Readable, Bytes!Lost
<1>8. CASE Bytes!Read(c, "down")
  BY <1>8 DEF Bytes!Read, Bytes!Readable, Bytes!Lost
<1>9. CASE Bytes!ReadEnds(c, "up")
  BY <1>9 DEF Bytes!ReadEnds, Bytes!Ends, Bytes!HalfClose, Bytes!Readable, Bytes!Lost
<1>10. CASE Bytes!ReadEnds(c, "down")
  BY <1>10 DEF Bytes!ReadEnds, Bytes!Ends, Bytes!HalfClose, Bytes!Readable, Bytes!Lost
<1>11. CASE Bytes!ReadFails(c, "up")
  BY <1>11 DEF Bytes!ReadFails, Bytes!Ends, Bytes!HalfClose, Bytes!Readable, Bytes!Lost
<1>12. CASE Bytes!ReadFails(c, "down")
  BY <1>12 DEF Bytes!ReadFails, Bytes!Ends, Bytes!HalfClose, Bytes!Readable, Bytes!Lost
<1>13. CASE Bytes!Write(c, "up")
  BY <1>13 DEF Bytes!Write, Bytes!Lost
<1>14. CASE Bytes!Write(c, "down")
  BY <1>14 DEF Bytes!Write, Bytes!Lost
<1>15. CASE Bytes!WriteFails(c, "up")
  BY <1>15 DEF Bytes!WriteFails, Bytes!WriteFailing, Bytes!Ends, Bytes!HalfClose, Bytes!Lost
<1>16. CASE Bytes!WriteFails(c, "down")
  BY <1>16 DEF Bytes!WriteFails, Bytes!WriteFailing, Bytes!Ends, Bytes!HalfClose, Bytes!Lost
<1>17. CASE Bytes!CloseAll(c, "up")
  BY <1>17 DEF Bytes!CloseAll
<1>18. CASE Bytes!CloseAll(c, "down")
  BY <1>18 DEF Bytes!CloseAll
<1>19. CASE Bytes!CtxDone(c)
  BY <1>19 DEF Bytes!CtxDone
<1> HIDE DEF PipeTyped, PipeAt, CutAt
<1> QED
  BY <1>1, <1>2, <1>3, <1>4, <1>5, <1>6, <1>7, <1>8, <1>9, <1>10, <1>11, <1>12, <1>13,
     <1>14, <1>15, <1>16, <1>17, <1>18, <1>19 DEF Bytes!PipeStep, Bytes!Peers, Bytes!Runs

LEMMA NextPipeTyped == PipeTyped /\ ProxyMove => PipeTyped'
<1> SUFFICES ASSUME PipeTyped, ProxyMove PROVE PipeTyped'
  OBVIOUS
<1>1. ASSUME NEW c \in Conn, Copying(c) PROVE PipeTyped'
  BY <1>1, CopyingTyped DEF Copying
<1>2. ASSUME NEW c \in Conn, HandlerPipes(c) PROVE PipeTyped'
  BY <1>2 DEF HandlerPipes, Bytes!PipeStart, PipeTyped
<1>3. ASSUME UNCHANGED pipevars PROVE PipeTyped'
  BY <1>3 DEF pipevars, PipeTyped
<1> QED
  BY <1>1, <1>2, <1>3 DEF ProxyMove, Loop, Stopping, Handler, ProxyStart, LoopCheck, Accept, AcceptFails,
     StopSignal, StopListener, StopDrained, StopTimesOut, PrimaryClosed, Arrive, OpenTimesOut, HandlerRefuses,
     HandlerOpens, HandlerGivesUp, HandlerReturns, Deliver, proxyvars

\* A step that leaves a pipe alone: its connection may only move on while
\* nothing is copied or when all is done, and no stream comes back.
LEMMA PipeElse ==
    ASSUME PipeTyped, NEW p \in Conn, PipeAt(p), Frame(p)' = Frame(p), pstop # "no" => pstop' # "no",
           \/ user'[p] = user[p] /\ (user[p] = "pipe" => stream'[p] \in {stream[p], None})
           \/ user[p] # "pipe" /\ user'[p] # "pipe" /\ (user[p] = "end" => user'[p] = "end")
           \/ user[p] = "pipe" /\ user'[p] = "end" /\ Bytes!PipeDone(p)
    PROVE  PipeAt(p)'
<1>1. Bytes!Dir = {"up", "down"} /\ Bytes!Other("up") = "down" /\ Bytes!Other("down") = "up"
  BY DEF Bytes!Dir, Bytes!Other
<1>2. CASE user'[p] = user[p] /\ (user[p] = "pipe" => stream'[p] \in {stream[p], None})
  BY <1>1, <1>2 DEF PipeTyped, PipeAt, CutAt, Frame
<1>3. CASE user[p] # "pipe" /\ user'[p] # "pipe" /\ (user[p] = "end" => user'[p] = "end")
  BY <1>1, <1>3 DEF PipeTyped, PipeAt, CutAt, Frame
<1>4. CASE user[p] = "pipe" /\ user'[p] = "end" /\ Bytes!PipeDone(p)
  BY <1>1, <1>4 DEF PipeTyped, PipeAt, CutAt, Frame, Bytes!PipeDone
<1> QED
  BY <1>2, <1>3, <1>4

LEMMA NextPiped == GroupTyped /\ PortTyped /\ Owned /\ PipeTyped /\ Piped /\ ProxyMove => Piped'
<1> SUFFICES ASSUME GroupTyped, PortTyped, Owned, PipeTyped, Piped, ProxyMove, NEW p \in Conn PROVE PipeAt(p)'
  BY DEF Piped
<1>0. PipeAt(p) /\ OwnedAt(p) /\ p \in Opener /\ DOMAIN stream = Opener
  BY DEF Piped, Owned, GroupTyped
<1>1. ASSUME GroupStep, UNCHANGED proxyvars PROVE PipeAt(p)'
  <2>1. stream'[p] \in {stream[p], None}
    BY <1>1, <1>0, GroupQuiet
  <2>2. user' = user /\ pstop' = pstop /\ UNCHANGED pipevars
    BY <1>1 DEF proxyvars, hvars, proxyvars, hvars
  <2>3. Frame(p)' = Frame(p)
    BY <2>2 DEF Frame, pipevars
  <2> QED
    BY <1>0, <2>1, <2>2, <2>3, PipeElse
<1>2. ASSUME ProxyStart PROVE PipeAt(p)'
  <2>1. UNCHANGED pipevars /\ (pstop # "no" => pstop' # "no")
    BY <1>2 DEF ProxyStart, proxyvars, hvars
  <2>2. Frame(p)' = Frame(p)
    BY <2>1 DEF Frame, pipevars
  <2>3. \/ user'[p] = user[p] /\ (user[p] = "pipe" => stream'[p] \in {stream[p], None})
        \/ user[p] # "pipe" /\ user'[p] # "pipe" /\ (user[p] = "end" => user'[p] = "end")
        \/ user[p] = "pipe" /\ user'[p] = "end" /\ Bytes!PipeDone(p)
    BY <1>2, <1>0 DEF ProxyStart, PortTyped, proxyvars, hvars, gvars
  <2> QED
    BY <1>0, <2>1, <2>2, <2>3, PipeElse
<1>3. ASSUME LoopCheck PROVE PipeAt(p)'
  <2>1. UNCHANGED pipevars /\ (pstop # "no" => pstop' # "no")
    BY <1>3 DEF LoopCheck, proxyvars, hvars
  <2>2. Frame(p)' = Frame(p)
    BY <2>1 DEF Frame, pipevars
  <2>3. \/ user'[p] = user[p] /\ (user[p] = "pipe" => stream'[p] \in {stream[p], None})
        \/ user[p] # "pipe" /\ user'[p] # "pipe" /\ (user[p] = "end" => user'[p] = "end")
        \/ user[p] = "pipe" /\ user'[p] = "end" /\ Bytes!PipeDone(p)
    BY <1>3, <1>0 DEF LoopCheck, PortTyped, proxyvars, hvars, gvars
  <2> QED
    BY <1>0, <2>1, <2>2, <2>3, PipeElse
<1>4. ASSUME NEW c \in Conn, Accept(c) PROVE PipeAt(p)'
  <2>1. UNCHANGED pipevars /\ (pstop # "no" => pstop' # "no")
    BY <1>4 DEF Accept, proxyvars, hvars
  <2>2. Frame(p)' = Frame(p)
    BY <2>1 DEF Frame, pipevars
  <2>3. \/ user'[p] = user[p] /\ (user[p] = "pipe" => stream'[p] \in {stream[p], None})
        \/ user[p] # "pipe" /\ user'[p] # "pipe" /\ (user[p] = "end" => user'[p] = "end")
        \/ user[p] = "pipe" /\ user'[p] = "end" /\ Bytes!PipeDone(p)
    BY <1>4, <1>0 DEF Accept, PortTyped, proxyvars, hvars, gvars
  <2> QED
    BY <1>0, <2>1, <2>2, <2>3, PipeElse
<1>5. ASSUME AcceptFails PROVE PipeAt(p)'
  <2>1. UNCHANGED pipevars /\ (pstop # "no" => pstop' # "no")
    BY <1>5 DEF AcceptFails, proxyvars, hvars
  <2>2. Frame(p)' = Frame(p)
    BY <2>1 DEF Frame, pipevars
  <2>3. \/ user'[p] = user[p] /\ (user[p] = "pipe" => stream'[p] \in {stream[p], None})
        \/ user[p] # "pipe" /\ user'[p] # "pipe" /\ (user[p] = "end" => user'[p] = "end")
        \/ user[p] = "pipe" /\ user'[p] = "end" /\ Bytes!PipeDone(p)
    BY <1>5, <1>0 DEF AcceptFails, PortTyped, proxyvars, hvars, gvars
  <2> QED
    BY <1>0, <2>1, <2>2, <2>3, PipeElse
<1>6. ASSUME StopSignal PROVE PipeAt(p)'
  <2>1. UNCHANGED pipevars /\ (pstop # "no" => pstop' # "no")
    BY <1>6 DEF StopSignal, proxyvars, hvars
  <2>2. Frame(p)' = Frame(p)
    BY <2>1 DEF Frame, pipevars
  <2>3. \/ user'[p] = user[p] /\ (user[p] = "pipe" => stream'[p] \in {stream[p], None})
        \/ user[p] # "pipe" /\ user'[p] # "pipe" /\ (user[p] = "end" => user'[p] = "end")
        \/ user[p] = "pipe" /\ user'[p] = "end" /\ Bytes!PipeDone(p)
    BY <1>6, <1>0 DEF StopSignal, PortTyped, proxyvars, hvars, gvars
  <2> QED
    BY <1>0, <2>1, <2>2, <2>3, PipeElse
<1>7. ASSUME StopListener PROVE PipeAt(p)'
  <2>1. UNCHANGED pipevars /\ (pstop # "no" => pstop' # "no")
    BY <1>7 DEF StopListener, proxyvars, hvars
  <2>2. Frame(p)' = Frame(p)
    BY <2>1 DEF Frame, pipevars
  <2>3. \/ user'[p] = user[p] /\ (user[p] = "pipe" => stream'[p] \in {stream[p], None})
        \/ user[p] # "pipe" /\ user'[p] # "pipe" /\ (user[p] = "end" => user'[p] = "end")
        \/ user[p] = "pipe" /\ user'[p] = "end" /\ Bytes!PipeDone(p)
    BY <1>7, <1>0 DEF StopListener, PortTyped, proxyvars, hvars, gvars
  <2> QED
    BY <1>0, <2>1, <2>2, <2>3, PipeElse
<1>8. ASSUME StopDrained PROVE PipeAt(p)'
  <2>1. UNCHANGED pipevars /\ (pstop # "no" => pstop' # "no")
    BY <1>8 DEF StopDrained, proxyvars, hvars
  <2>2. Frame(p)' = Frame(p)
    BY <2>1 DEF Frame, pipevars
  <2>3. \/ user'[p] = user[p] /\ (user[p] = "pipe" => stream'[p] \in {stream[p], None})
        \/ user[p] # "pipe" /\ user'[p] # "pipe" /\ (user[p] = "end" => user'[p] = "end")
        \/ user[p] = "pipe" /\ user'[p] = "end" /\ Bytes!PipeDone(p)
    BY <1>8, <1>0 DEF StopDrained, PortTyped, proxyvars, hvars, gvars
  <2> QED
    BY <1>0, <2>1, <2>2, <2>3, PipeElse
<1>9. ASSUME StopTimesOut PROVE PipeAt(p)'
  <2>1. UNCHANGED pipevars /\ (pstop # "no" => pstop' # "no")
    BY <1>9 DEF StopTimesOut, proxyvars, hvars
  <2>2. Frame(p)' = Frame(p)
    BY <2>1 DEF Frame, pipevars
  <2>3. \/ user'[p] = user[p] /\ (user[p] = "pipe" => stream'[p] \in {stream[p], None})
        \/ user[p] # "pipe" /\ user'[p] # "pipe" /\ (user[p] = "end" => user'[p] = "end")
        \/ user[p] = "pipe" /\ user'[p] = "end" /\ Bytes!PipeDone(p)
    BY <1>9, <1>0 DEF StopTimesOut, PortTyped, proxyvars, hvars, gvars
  <2> QED
    BY <1>0, <2>1, <2>2, <2>3, PipeElse
<1>10. ASSUME PrimaryClosed PROVE PipeAt(p)'
  <2>1. stream'[p] \in {stream[p], None}
    BY <1>10, <1>0, GroupQuiet
  <2>2. user' = user /\ pstop' = pstop /\ UNCHANGED pipevars
    BY <1>10 DEF PrimaryClosed, proxyvars, hvars
  <2>3. Frame(p)' = Frame(p)
    BY <2>2 DEF Frame, pipevars
  <2> QED
    BY <1>0, <2>1, <2>2, <2>3, PipeElse
<1>11. ASSUME NEW c \in Conn, Arrive(c) PROVE PipeAt(p)'
  <2>1. UNCHANGED pipevars /\ (pstop # "no" => pstop' # "no")
    BY <1>11 DEF Arrive, proxyvars, hvars
  <2>2. Frame(p)' = Frame(p)
    BY <2>1 DEF Frame, pipevars
  <2>3. \/ user'[p] = user[p] /\ (user[p] = "pipe" => stream'[p] \in {stream[p], None})
        \/ user[p] # "pipe" /\ user'[p] # "pipe" /\ (user[p] = "end" => user'[p] = "end")
        \/ user[p] = "pipe" /\ user'[p] = "end" /\ Bytes!PipeDone(p)
    BY <1>11, <1>0 DEF Arrive, PortTyped, proxyvars, hvars, gvars
  <2> QED
    BY <1>0, <2>1, <2>2, <2>3, PipeElse
<1>12. ASSUME NEW c \in Conn, OpenTimesOut(c) PROVE PipeAt(p)'
  <2>1. UNCHANGED pipevars /\ (pstop # "no" => pstop' # "no")
    BY <1>12 DEF OpenTimesOut, proxyvars, hvars
  <2>2. Frame(p)' = Frame(p)
    BY <2>1 DEF Frame, pipevars
  <2>3. \/ user'[p] = user[p] /\ (user[p] = "pipe" => stream'[p] \in {stream[p], None})
        \/ user[p] # "pipe" /\ user'[p] # "pipe" /\ (user[p] = "end" => user'[p] = "end")
        \/ user[p] = "pipe" /\ user'[p] = "end" /\ Bytes!PipeDone(p)
    BY <1>12, <1>0 DEF OpenTimesOut, PortTyped, proxyvars, hvars, gvars
  <2> QED
    BY <1>0, <2>1, <2>2, <2>3, PipeElse
<1>13. ASSUME NEW c \in Conn, HandlerRefuses(c) PROVE PipeAt(p)'
  <2>1. UNCHANGED pipevars /\ (pstop # "no" => pstop' # "no")
    BY <1>13 DEF HandlerRefuses, Return, proxyvars, hvars
  <2>2. Frame(p)' = Frame(p)
    BY <2>1 DEF Frame, pipevars
  <2>3. \/ user'[p] = user[p] /\ (user[p] = "pipe" => stream'[p] \in {stream[p], None})
        \/ user[p] # "pipe" /\ user'[p] # "pipe" /\ (user[p] = "end" => user'[p] = "end")
        \/ user[p] = "pipe" /\ user'[p] = "end" /\ Bytes!PipeDone(p)
    BY <1>13, <1>0 DEF HandlerRefuses, Return, PortTyped, proxyvars, hvars, gvars
  <2> QED
    BY <1>0, <2>1, <2>2, <2>3, PipeElse
<1>14. ASSUME NEW c \in Conn, HandlerOpens(c) PROVE PipeAt(p)'
  <2>1. UNCHANGED pipevars /\ (pstop # "no" => pstop' # "no")
    BY <1>14 DEF HandlerOpens, Call, proxyvars, hvars
  <2>2. Frame(p)' = Frame(p)
    BY <2>1 DEF Frame, pipevars
  <2>3. \/ user'[p] = user[p] /\ (user[p] = "pipe" => stream'[p] \in {stream[p], None})
        \/ user[p] # "pipe" /\ user'[p] # "pipe" /\ (user[p] = "end" => user'[p] = "end")
        \/ user[p] = "pipe" /\ user'[p] = "end" /\ Bytes!PipeDone(p)
    BY <1>14, <1>0 DEF HandlerOpens, Call, PortTyped, proxyvars, hvars, gvars
  <2> QED
    BY <1>0, <2>1, <2>2, <2>3, PipeElse
<1>15. ASSUME NEW c \in Conn, HandlerPipes(c) PROVE PipeAt(p)'
  <2>1. CASE c = p
    <3>1. Bytes!Dir = {"up", "down"}
      BY DEF Bytes!Dir
    <3> QED
      BY <1>15, <1>0, <2>1, <3>1 DEF HandlerPipes, Bytes!PipeStart, PipeAt, CutAt, PipeTyped, PortTyped
  <2>2. CASE c # p
    <3>1. user'[p] = user[p] /\ stream' = stream /\ pstop' = pstop
      BY <1>15, <2>2 DEF HandlerPipes, PortTyped, gvars
    <3>2. Frame(p)' = Frame(p)
      BY <1>15, <2>2 DEF HandlerPipes, Bytes!PipeStart, Frame, PipeTyped
    <3> QED
      BY <1>0, <3>1, <3>2, PipeElse
  <2> QED
    BY <2>1, <2>2
<1>16. ASSUME NEW c \in Conn, HandlerGivesUp(c) PROVE PipeAt(p)'
  <2>1. UNCHANGED pipevars /\ (pstop # "no" => pstop' # "no")
    BY <1>16 DEF HandlerGivesUp, Return, proxyvars, hvars
  <2>2. Frame(p)' = Frame(p)
    BY <2>1 DEF Frame, pipevars
  <2>3. \/ user'[p] = user[p] /\ (user[p] = "pipe" => stream'[p] \in {stream[p], None})
        \/ user[p] # "pipe" /\ user'[p] # "pipe" /\ (user[p] = "end" => user'[p] = "end")
        \/ user[p] = "pipe" /\ user'[p] = "end" /\ Bytes!PipeDone(p)
    BY <1>16, <1>0 DEF HandlerGivesUp, Return, PortTyped, proxyvars, hvars, gvars
  <2> QED
    BY <1>0, <2>1, <2>2, <2>3, PipeElse
<1>17. ASSUME NEW c \in Conn, HandlerReturns(c) PROVE PipeAt(p)'
  <2>1. UNCHANGED pipevars /\ (pstop # "no" => pstop' # "no")
    BY <1>17 DEF HandlerReturns, Return, proxyvars, hvars
  <2>2. Frame(p)' = Frame(p)
    BY <2>1 DEF Frame, pipevars
  <2>3. \/ user'[p] = user[p] /\ (user[p] = "pipe" => stream'[p] \in {stream[p], None})
        \/ user[p] # "pipe" /\ user'[p] # "pipe" /\ (user[p] = "end" => user'[p] = "end")
        \/ user[p] = "pipe" /\ user'[p] = "end" /\ Bytes!PipeDone(p)
    BY <1>17, <1>0 DEF HandlerReturns, Return, PortTyped, proxyvars, hvars, gvars
  <2> QED
    BY <1>0, <2>1, <2>2, <2>3, PipeElse
<1>18. ASSUME NEW c \in Conn, Deliver(c) PROVE PipeAt(p)'
  <2>1. UNCHANGED pipevars /\ (pstop # "no" => pstop' # "no")
    BY <1>18 DEF Deliver, proxyvars, hvars
  <2>2. Frame(p)' = Frame(p)
    BY <2>1 DEF Frame, pipevars
  <2>3. \/ user'[p] = user[p] /\ (user[p] = "pipe" => stream'[p] \in {stream[p], None})
        \/ user[p] # "pipe" /\ user'[p] # "pipe" /\ (user[p] = "end" => user'[p] = "end")
        \/ user[p] = "pipe" /\ user'[p] = "end" /\ Bytes!PipeDone(p)
    BY <1>18, <1>0 DEF Deliver, PortTyped, proxyvars, hvars, gvars
  <2> QED
    BY <1>0, <2>1, <2>2, <2>3, PipeElse
<1>19. ASSUME NEW c \in Conn, Copying(c) PROVE PipeAt(p)'
  <2>1. UNCHANGED <<user, stream, pstop>> /\ Bytes!PipeStep(c)
    BY <1>19 DEF Copying, hvars, gvars
  <2>2. CASE c = p
    BY <1>0, <2>1, <2>2, CopyingKeeps
  <2>3. CASE c # p
    <3>1. Frame(p)' = Frame(p)
      BY <2>1, <2>3, CopyingTyped
    <3> QED
      BY <1>0, <2>1, <3>1, PipeElse
  <2> QED
    BY <2>2, <2>3
<1>20. ASSUME NEW c \in Conn, Opening(c), UNCHANGED proxyvars PROVE PipeAt(p)'
  <2>1. user[p] = "pipe" => stream'[p] = stream[p]
    <3>1. op[c] # "over"
      BY <1>20 DEF Opening, TryData, TryAll, Pop, Opened, OpenFails, Exhausted, Retry, StopsWaiting
    <3>2. user[p] = "pipe" => c # p
      BY <1>0, <3>1 DEF OwnedAt
    <3>3. c # p => stream'[p] = stream[p]
      BY <1>20, <1>0, OpeningMoves
    <3> QED
      BY <3>2, <3>3
  <2>2. user' = user /\ pstop' = pstop /\ UNCHANGED pipevars
    BY <1>20 DEF proxyvars, hvars
  <2>3. Frame(p)' = Frame(p)
    BY <2>2 DEF Frame, pipevars
  <2> QED
    BY <1>0, <2>1, <2>2, <2>3, PipeElse
<1>21. ASSUME UNCHANGED <<gvars, proxyvars>> PROVE PipeAt(p)'
  <2>1. UNCHANGED pipevars /\ (pstop # "no" => pstop' # "no")
    BY <1>21 DEF proxyvars, gvars, proxyvars, hvars
  <2>2. Frame(p)' = Frame(p)
    BY <2>1 DEF Frame, pipevars
  <2>3. \/ user'[p] = user[p] /\ (user[p] = "pipe" => stream'[p] \in {stream[p], None})
        \/ user[p] # "pipe" /\ user'[p] # "pipe" /\ (user[p] = "end" => user'[p] = "end")
        \/ user[p] = "pipe" /\ user'[p] = "end" /\ Bytes!PipeDone(p)
    BY <1>21, <1>0 DEF proxyvars, gvars, PortTyped, proxyvars, hvars, gvars
  <2> QED
    BY <1>0, <2>1, <2>2, <2>3, PipeElse
<1> QED
  BY <1>1, <1>2, <1>3, <1>4, <1>5, <1>6, <1>7, <1>8, <1>9, <1>10, <1>11, <1>12, <1>13,
     <1>14, <1>15, <1>16, <1>17, <1>18, <1>19, <1>20, <1>21 DEF ProxyMove, Loop, Stopping, Handler

-----------------------------------------------------------------------------
(* Every interleaving of the port, its group and its pipes.                *)

ProxySpec == ProxyInit /\ [][ProxyMove]_<<gvars, proxyvars>>

PortInv == GroupTyped /\ PortTyped /\ Counted /\ Still /\ Owned /\ PipeTyped /\ Piped

LEMMA InitPortInv == ProxyInit => PortInv
BY InitGroup, InitPort, InitPipe DEF ProxyInit, PortInv

LEMMA PortMovesGroup == ProxyMove => GroupMove
<1> SUFFICES ASSUME ProxyMove PROVE GroupMove
  OBVIOUS
<1>1. CASE ProxyStart \/ Loop \/ StopSignal \/ Stopping \/ StopTimesOut \/ PrimaryClosed
  BY <1>1 DEF ProxyStart, Loop, LoopCheck, Accept, AcceptFails, StopSignal, Stopping, StopListener, StopDrained,
              StopTimesOut, GroupMove
<1>2. ASSUME NEW c \in Conn, Arrive(c) \/ OpenTimesOut(c) \/ Handler(c) \/ Deliver(c) \/ Copying(c) \/ Opening(c)
      PROVE  GroupMove
  <2>1. c \in Opener
    OBVIOUS
  <2> QED
    BY <1>2, <2>1 DEF Arrive, OpenTimesOut, Copying, Handler, HandlerRefuses, HandlerOpens, HandlerPipes,
                      HandlerGivesUp, GroupMove
<1> QED
  BY <1>1, <1>2 DEF ProxyMove, GroupMove

LEMMA NextPortInv == PortInv /\ [ProxyMove]_<<gvars, proxyvars>> => PortInv'
<1> SUFFICES ASSUME PortInv, ProxyMove PROVE PortInv'
  BY DEF ProxyMove
<1> QED
  BY PortMovesGroup, NextGroupTyped, NextPortTyped, NextCounted, NextStill, NextOwned, NextPipeTyped, NextPiped
     DEF PortInv

LEMMA PortInvSays == PortInv => OrphanOnlyInBuffer /\ DrainedIsQuiet /\ WholeUnlessCut
<1> SUFFICES ASSUME PortInv PROVE OrphanOnlyInBuffer /\ DrainedIsQuiet /\ WholeUnlessCut
  OBVIOUS
<1>1. OrphanOnlyInBuffer
  BY DEF PortInv, Owned, OwnedAt, OrphanOnlyInBuffer
<1>2. DrainedIsQuiet
  <2>1. Handlers = {} => Slots = {}
    BY HandlersFinite
  <2>2. Cardinality({}) = 0
    BY FS_EmptySet
  <2> QED
    BY <2>1, <2>2 DEF PortInv, Still, Counted, DrainedIsQuiet
<1>3. WholeUnlessCut
  <2> SUFFICES ASSUME NEW c \in Conn PROVE Bytes!WholeUnlessCut(c)
    BY DEF WholeUnlessCut
  <2>1. PipeAt(c)
    BY DEF PortInv, Piped
  <2> QED
    BY <2>1 DEF PipeAt, CutAt, Bytes!WholeUnlessCut
<1> QED
  BY <1>1, <1>2, <1>3

LEMMA PortAlways == ProxySpec => []PortInv
BY InitPortInv, NextPortInv, PTL DEF ProxySpec

\* In every interleaving, whoever takes a stream closes it: one that outlives
\* its connection is on its way from the goroutine of openStreamWithTimeout,
\* or lies in the result buffer of a handler that had given up; a Stop that
\* waited leaves no handler, no slot and no accept; and a direction that ended
\* well has moved every chunk, one that failed was cut (proxy.go, pipe.go).
THEOREM PortIsSafe == ProxySpec => [](OrphanOnlyInBuffer /\ DrainedIsQuiet /\ WholeUnlessCut)
BY PortAlways, PortInvSays, PTL

-----------------------------------------------------------------------------
(* The scenes of MCDataPath                                                *)

\* In the scenes of the group nobody uses the port.
Idle ==
    /\ user = [c \in Conn |-> "none"] /\ pstop = "no"
    /\ how = [c \in Conn |-> [d \in Bytes!Dir |-> "none"]]

SceneInv ==
    /\ scene \in {"conns", "bytes"} => PortInv
    /\ scene \in {"beats", "opens"} => Idle
    /\ scene \in {"beats", "opens", "conns", "bytes"}

LEMMA ScenesMovePort ==
    ASSUME MCNext, scene \in {"conns", "bytes"}
    PROVE  ProxyMove
<1>1. Primary \in Session
  BY DEF Session
<1>2. CASE PrimaryOnly
  BY <1>1, <1>2 DEF PrimaryOnly, ProxyMove, GroupStep, Sessions
<1>3. CASE ProxyStart \/ Loop \/ Stops
  BY <1>3 DEF Stops, GroupRemoved, GroupStep, ProxyMove
<1>4. ASSUME NEW c \in Conn, Serving(c) PROVE ProxyMove
  BY <1>4 DEF Serving, ProxyMove
<1> QED
  BY <1>2, <1>3, <1>4 DEF MCNext, ConnsScene, BytesScene

LEMMA SceneAlways == Spec => []SceneInv
<1>1. MCInit => SceneInv
  BY InitPortInv DEF MCInit, ProxyInit, Bytes!PipeInit, SceneInv, Idle
<1>2. SceneInv /\ [MCNext]_mcvars => SceneInv'
  <2> SUFFICES ASSUME SceneInv, [MCNext]_mcvars PROVE SceneInv'
    OBVIOUS
  <2>1. scene' = scene
    BY DEF MCNext, mcvars
  <2>2. CASE scene \in {"conns", "bytes"}
    <3>1. [ProxyMove]_<<gvars, proxyvars>>
      BY <2>2, ScenesMovePort DEF mcvars
    <3> QED
      BY <2>1, <2>2, <3>1, NextPortInv DEF SceneInv
  <2>3. CASE scene \in {"beats", "opens"}
    <3>1. UNCHANGED proxyvars
      BY <2>3 DEF MCNext, BeatsScene, OpensScene, mcvars
    <3> QED
      BY <2>1, <2>3, <3>1 DEF SceneInv, Idle, proxyvars, hvars, pipevars
  <2> QED
    BY <2>2, <2>3 DEF SceneInv
<1> QED
  BY <1>1, <1>2, PTL DEF Spec

LEMMA SceneInvSays == SceneInv => OrphanOnlyInBuffer /\ DrainedIsQuiet /\ WholeUnlessCut
<1> SUFFICES ASSUME SceneInv PROVE OrphanOnlyInBuffer /\ DrainedIsQuiet /\ WholeUnlessCut
  OBVIOUS
<1>1. CASE PortInv
  BY <1>1, PortInvSays
<1>2. CASE Idle
  BY <1>2 DEF Idle, OrphanOnlyInBuffer, DrainedIsQuiet, WholeUnlessCut, Bytes!WholeUnlessCut
<1> QED
  BY <1>1, <1>2 DEF SceneInv

\* The same three in the scenes of MCDataPath.
THEOREM NoStreamLost == Spec => []OrphanOnlyInBuffer
BY SceneAlways, SceneInvSays, PTL

\* When Stop returns without its timeout the port is quiet.
THEOREM StopIsQuiet == Spec => []DrainedIsQuiet
BY SceneAlways, SceneInvSays, PTL

\* No byte is lost but by a cut.
THEOREM BytesAreWhole == Spec => []WholeUnlessCut
BY SceneAlways, SceneInvSays, PTL

=============================================================================
