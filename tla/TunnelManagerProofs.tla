------------------------- MODULE TunnelManagerProofs -------------------------
(***************************************************************************)
(* Theorems about TunnelManager for every set of sessions, names and       *)
(* addresses, every limit and every number of shards.                      *)
(***************************************************************************)
EXTENDS TunnelManager, FiniteSetTheorems, TLAPS

\* What a session or the cleanup goroutine has at hand at each of its steps.
StepOK ==
    /\ \A s \in Session :
        /\ pc[s] \in {"rate", "ip", "rollbackIP"} => RemoteIP[s] # NoIP
        /\ pc[s] \in {"insert", "pump", "live"} => name[s] # NoName
        /\ pc[s] \in {"count", "decIP"} => victim[s] # None
        /\ pc[s] = "decIP" => RemoteIP[victim[s]] # NoIP
    /\ jpc # "idle" => jshard >= 1
    /\ jpc \in {"count", "ip"} => victim[Janitor] # None
    /\ jpc = "ip" => RemoteIP[victim[Janitor]] # NoIP
    /\ jpc \in {"scan", "count", "ip"} =>
        /\ jshard \in 1..NumShards
        /\ \A n \in jstale : ShardOf[n] = jshard /\ Used(n)

Typed == TypeOK /\ StepOK

USE ManagerAssumption DEF Janitor, Owner, Used, Places

LEMMA InitTyped == Init => Typed
BY DEF Init, Typed, TypeOK, StepOK

LEMMA NextTyped == Typed /\ [Next]_vars => Typed'
<1> SUFFICES ASSUME Typed, [Next]_vars PROVE Typed'
  OBVIOUS
<1> USE DEF Typed, TypeOK, StepOK, Goto, Locked, Insert, PumpsWithout, DecrementIP,
            Live, Shard, reg, procs, jan
<1>1. ASSUME NEW s \in Session, Reserve(s) PROVE Typed'
  BY <1>1 DEF Reserve
<1>2. ASSUME NEW s \in Session, CheckRate(s) PROVE Typed'
  BY <1>2 DEF CheckRate
<1>3. ASSUME NEW s \in Session, ReserveIP(s) PROVE Typed'
  BY <1>3 DEF ReserveIP
<1>4. ASSUME NEW s \in Session, RegisterCustom(s) PROVE Typed'
  BY <1>4 DEF RegisterCustom
<1>5. ASSUME NEW s \in Session, RefuseCustom(s) PROVE Typed'
  BY <1>5 DEF RefuseCustom
<1>6. ASSUME NEW s \in Session, DrawShort(s) PROVE Typed'
  BY <1>6 DEF DrawShort
<1>7. ASSUME NEW s \in Session, DrawLong(s) PROVE Typed'
  BY <1>7 DEF DrawLong
<1>8. ASSUME NEW s \in Session, RegisterRandom(s) PROVE Typed'
  BY <1>8 DEF RegisterRandom
<1>9. ASSUME NEW s \in Session, StartPump(s) PROVE Typed'
  BY <1>9 DEF StartPump
<1>10. ASSUME NEW s \in Session, RollbackIP(s) PROVE Typed'
  BY <1>10 DEF RollbackIP
<1>11. ASSUME NEW s \in Session, RollbackGlobal(s) PROVE Typed'
  BY <1>11 DEF RollbackGlobal
<1>12. ASSUME NEW s \in Session, UnregisterAbsent(s) PROVE Typed'
  BY <1>12 DEF UnregisterAbsent
<1>13. ASSUME NEW s \in Session, UnregisterDelete(s) PROVE Typed'
  BY <1>13 DEF UnregisterDelete
<1>14. ASSUME NEW s \in Session, UnregisterCount(s) PROVE Typed'
  BY <1>14 DEF UnregisterCount
<1>15. ASSUME NEW s \in Session, UnregisterIP(s) PROVE Typed'
  BY <1>15 DEF UnregisterIP
<1>16. CASE CleanupStart
  BY <1>16 DEF CleanupStart
<1>17. CASE CleanupScan
  BY <1>17 DEF CleanupScan
<1>18. CASE CleanupDelete
  BY <1>18 DEF CleanupDelete
<1>19. CASE CleanupCount
  BY <1>19 DEF CleanupCount
<1>20. CASE CleanupIP
  BY <1>20 DEF CleanupIP
<1>21. CASE CleanupUnlock
  BY <1>21 DEF CleanupUnlock
<1>22. CASE CleanupEnd
  BY <1>22 DEF CleanupEnd
<1>23. ASSUME NEW ip \in IP, WindowExpires(ip) PROVE Typed'
  BY <1>23 DEF WindowExpires
<1>24. CASE ShutdownBegin
  BY <1>24 DEF ShutdownBegin
<1>25. CASE ShutdownShard
  BY <1>25 DEF ShutdownShard
<1>26. CASE ShutdownReset
  BY <1>26 DEF ShutdownReset
<1>27. CASE UNCHANGED vars
  BY <1>27 DEF vars
<1> QED
  BY <1>1, <1>2, <1>3, <1>4, <1>5, <1>6, <1>7, <1>8, <1>9, <1>10, <1>11, <1>12, <1>13,
     <1>14, <1>15, <1>16, <1>17, <1>18, <1>19, <1>20, <1>21, <1>22, <1>23, <1>24, <1>25,
     <1>26, <1>27 DEF Next, SessionStep, Disconnect, Cleanup

\* Every variable keeps its type, and every goroutine has what its next step reads.
THEOREM TypeCorrect == Spec => []TypeOK
<1>1. Spec => []Typed
  BY InitTyped, NextTyped, PTL DEF Spec
<1> QED
  BY <1>1, PTL DEF Typed

-----------------------------------------------------------------------------
(* Ownership of names                                                      *)

LEMMA NextOwned == Typed /\ EntryHasOwner /\ [Next]_vars => EntryHasOwner'
<1> SUFFICES ASSUME Typed, EntryHasOwner, [Next]_vars PROVE EntryHasOwner'
  OBVIOUS
<1> USE DEF Typed, TypeOK, StepOK, EntryHasOwner, Goto, reg, procs, jan
<1>1. ASSUME NEW s \in Session, Insert(s, name[s]), pc[s] \in {"name", "insert"},
             name[s] # NoName
      PROVE EntryHasOwner'
  BY <1>1 DEF Insert
<1>2. ASSUME NEW s \in Session, UnregisterAbsent(s) PROVE EntryHasOwner'
  BY <1>2 DEF UnregisterAbsent
<1>3. ASSUME NEW s \in Session, UnregisterDelete(s) PROVE EntryHasOwner'
  BY <1>3 DEF UnregisterDelete
<1>4. ASSUME NEW s \in Session,
             Reserve(s) \/ CheckRate(s) \/ ReserveIP(s) \/ RefuseCustom(s) \/ DrawShort(s)
               \/ DrawLong(s) \/ StartPump(s) \/ RollbackIP(s) \/ RollbackGlobal(s)
               \/ UnregisterCount(s) \/ UnregisterIP(s)
      PROVE EntryHasOwner'
  BY <1>4 DEF Reserve, CheckRate, ReserveIP, RefuseCustom, DrawShort, DrawLong, StartPump,
              RollbackIP, RollbackGlobal, UnregisterCount, UnregisterIP
<1>5. CASE CleanupDelete
  BY <1>5 DEF CleanupDelete
<1>6. CASE ShutdownShard
  BY <1>6 DEF ShutdownShard
<1>7. CASE UNCHANGED <<tunnels, pc, name>>
  BY <1>7
<1> QED
  BY <1>1, <1>2, <1>3, <1>4, <1>5, <1>6, <1>7
  DEF Next, SessionStep, Disconnect, Cleanup, RegisterCustom, RegisterRandom, CleanupStart,
      CleanupScan, CleanupCount, CleanupIP, CleanupUnlock, CleanupEnd, WindowExpires,
      ShutdownBegin, ShutdownReset, vars

\* No entry of the registry outlives its session, though Unregister and
\* CleanupStale remove entries by name and so may remove another session's.
THEOREM EntriesOwned == Spec => []EntryHasOwner
<1>1. Init => EntryHasOwner
  BY DEF Init, EntryHasOwner
<1>2. Spec => [](Typed /\ EntryHasOwner)
  BY <1>1, InitTyped, NextTyped, NextOwned, PTL DEF Spec
<1> QED
  BY <1>2, PTL

\* Sessions that are neither inserting, nor removing an entry by name.
LEMMA OtherSteps ==
    ASSUME Typed, NEW s \in Session,
           Reserve(s) \/ CheckRate(s) \/ ReserveIP(s) \/ RefuseCustom(s) \/ DrawShort(s)
             \/ DrawLong(s) \/ RollbackIP(s) \/ RollbackGlobal(s)
             \/ UnregisterCount(s) \/ UnregisterIP(s)
    PROVE  /\ UNCHANGED <<tunnels, pumps, down, upset>>
           /\ pc[s] \notin {"pump", "live"}
           /\ \E l \in Places : l \notin {"pump", "live"} /\ pc' = [pc EXCEPT ![s] = l]
           /\ \A t \in Session \ {s} : name'[t] = name[t]
BY DEF Typed, TypeOK, Goto, reg, Reserve, CheckRate, ReserveIP, RefuseCustom, DrawShort,
   DrawLong, RollbackIP, RollbackGlobal, UnregisterCount, UnregisterIP

\* With no upset and no Shutdown, a step inserts under a free name, removes the
\* session's own entry, or leaves the registry alone.
LEMMA CalmStep ==
    ASSUME Typed, LiveOwnsName, [Next]_vars, upset' = {}, down' = 0
    PROVE  /\ upset = {} /\ down = 0
           /\ \/ \E s \in Session : Insert(s, name[s]) /\ tunnels[name[s]] = None
                                    /\ name[s] \in Subdomain /\ pc[s] \in {"name", "insert"}
              \/ \E s \in Session : StartPump(s) \/ UnregisterDelete(s)
              \/ \E s \in Session : /\ UNCHANGED <<tunnels, pumps>>
                                    /\ pc[s] \notin {"pump", "live"}
                                    /\ \E l \in Places : l \notin {"pump", "live"}
                                                         /\ pc' = [pc EXCEPT ![s] = l]
                                    /\ \A t \in Session \ {s} : name'[t] = name[t]
              \/ UNCHANGED <<tunnels, pumps, pc, name>>
<1> USE DEF Typed, TypeOK, StepOK, LiveOwnsName, Goto, reg, procs, jan
<1>1. ASSUME NEW s \in Session, RegisterCustom(s) \/ RegisterRandom(s)
      PROVE  /\ upset = {} /\ down = 0
             /\ Insert(s, name[s]) /\ tunnels[name[s]] = None /\ name[s] \in Subdomain
             /\ pc[s] \in {"name", "insert"}
  BY <1>1 DEF RegisterCustom, RegisterRandom
<1>2. ASSUME NEW s \in Session, StartPump(s) \/ UnregisterDelete(s)
      PROVE  upset = {} /\ down = 0
  BY <1>2 DEF StartPump, UnregisterDelete
<1>3. ASSUME NEW s \in Session PROVE ~UnregisterAbsent(s)
  <2> SUFFICES ASSUME UnregisterAbsent(s) PROVE FALSE
    OBVIOUS
  <2>1. upset = {} /\ down = 0 /\ pc[s] = "live" /\ tunnels[name[s]] = None
    BY DEF UnregisterAbsent
  <2> QED
    BY <2>1
<1>4. ASSUME NEW s \in Session,
             Reserve(s) \/ CheckRate(s) \/ ReserveIP(s) \/ RefuseCustom(s) \/ DrawShort(s)
               \/ DrawLong(s) \/ RollbackIP(s) \/ RollbackGlobal(s)
               \/ UnregisterCount(s) \/ UnregisterIP(s)
      PROVE  /\ upset = {} /\ down = 0
             /\ UNCHANGED <<tunnels, pumps>> /\ pc[s] \notin {"pump", "live"}
             /\ \E l \in Places : l \notin {"pump", "live"} /\ pc' = [pc EXCEPT ![s] = l]
             /\ \A t \in Session \ {s} : name'[t] = name[t]
  BY <1>4, OtherSteps
<1>5. CASE \/ CleanupStart \/ CleanupScan \/ CleanupCount \/ CleanupIP \/ CleanupUnlock
           \/ CleanupEnd \/ UNCHANGED vars \/ \E ip \in IP : WindowExpires(ip)
  BY <1>5 DEF CleanupStart, CleanupScan, CleanupCount, CleanupIP, CleanupUnlock, CleanupEnd,
              WindowExpires, vars
<1>6. ~CleanupDelete /\ ~ShutdownBegin /\ ~ShutdownShard /\ ~ShutdownReset
  BY DEF CleanupDelete, ShutdownBegin, ShutdownShard, ShutdownReset
<1> QED
  BY <1>1, <1>2, <1>3, <1>4, <1>5, <1>6 DEF Next, SessionStep, Disconnect, Cleanup

LEMMA NextLiveOwnsName == Typed /\ LiveOwnsName /\ [Next]_vars => LiveOwnsName'
<1> SUFFICES ASSUME Typed, LiveOwnsName, [Next]_vars, upset' = {}, down' = 0,
                    NEW t \in Session, pc'[t] \in {"pump", "live"}
             PROVE  tunnels'[name'[t]] = t
  BY DEF LiveOwnsName
<1>0. \A s \in Session : pc[s] \in {"pump", "live"} =>
        tunnels[name[s]] = s /\ name[s] \in Subdomain
  BY CalmStep DEF LiveOwnsName, Typed, TypeOK, StepOK
<1> USE DEF Typed, TypeOK, Goto
<1>1. ASSUME NEW s \in Session, Insert(s, name[s]), tunnels[name[s]] = None,
             name[s] \in Subdomain
      PROVE  tunnels'[name'[t]] = t
  BY <1>0, <1>1 DEF Insert
<1>2. ASSUME NEW s \in Session, StartPump(s) PROVE tunnels'[name'[t]] = t
  BY <1>0, <1>2 DEF StartPump, reg
<1>3. ASSUME NEW s \in Session, UnregisterDelete(s) PROVE tunnels'[name'[t]] = t
  BY <1>0, <1>3 DEF UnregisterDelete
<1>4. ASSUME NEW s \in Session, UNCHANGED <<tunnels, pumps>>, pc[s] \notin {"pump", "live"},
             NEW l \in Places, l \notin {"pump", "live"}, pc' = [pc EXCEPT ![s] = l],
             \A x \in Session \ {s} : name'[x] = name[x]
      PROVE  tunnels'[name'[t]] = t
  BY <1>0, <1>4
<1>5. CASE UNCHANGED <<tunnels, pumps, pc, name>>
  BY <1>0, <1>5
<1> QED
  BY <1>1, <1>2, <1>3, <1>4, <1>5, CalmStep

LEMMA NextOneWritePump ==
    Typed /\ LiveOwnsName /\ OneWritePump /\ [Next]_vars => OneWritePump'
<1> SUFFICES ASSUME Typed, LiveOwnsName, OneWritePump, [Next]_vars, upset' = {}, down' = 0,
                    NEW t \in Session
             PROVE  pumps'[t] = IF pc'[t] = "live" THEN 1 ELSE 0
  BY DEF OneWritePump
<1>0. \A s \in Session : /\ pumps[s] = IF pc[s] = "live" THEN 1 ELSE 0
                         /\ pc[s] \in {"pump", "live"} => tunnels[name[s]] = s
  BY CalmStep DEF LiveOwnsName, OneWritePump
<1> USE DEF Typed, TypeOK, Goto
<1>1. ASSUME NEW s \in Session, Insert(s, name[s]) PROVE pumps'[t] = IF pc'[t] = "live" THEN 1 ELSE 0
  BY <1>0, <1>1 DEF Insert
<1>2. ASSUME NEW s \in Session, StartPump(s) PROVE pumps'[t] = IF pc'[t] = "live" THEN 1 ELSE 0
  BY <1>0, <1>2 DEF StartPump
<1>3. ASSUME NEW s \in Session, UnregisterDelete(s)
      PROVE  pumps'[t] = IF pc'[t] = "live" THEN 1 ELSE 0
  BY <1>0, <1>3 DEF UnregisterDelete, PumpsWithout
<1>4. ASSUME NEW s \in Session, UNCHANGED <<tunnels, pumps>>, pc[s] \notin {"pump", "live"},
             NEW l \in Places, l \notin {"pump", "live"}, pc' = [pc EXCEPT ![s] = l]
      PROVE  pumps'[t] = IF pc'[t] = "live" THEN 1 ELSE 0
  BY <1>0, <1>4
<1>5. CASE UNCHANGED <<tunnels, pumps, pc, name>>
  BY <1>0, <1>5
<1> QED
  BY <1>1, <1>2, <1>3, <1>4, <1>5, CalmStep

LEMMA SpecLiveOwnsName == Spec => [](Typed /\ LiveOwnsName)
<1>1. Init => LiveOwnsName
  BY DEF Init, LiveOwnsName
<1> QED
  BY <1>1, InitTyped, NextTyped, NextLiveOwnsName, PTL DEF Spec

\* Until a drawn name clashes or the cleanup or Shutdown removes tunnels, a live
\* tunnel's name leads to it, though Unregister removes entries by name only.
THEOREM LiveTunnelsReachable == Spec => []LiveOwnsName
BY SpecLiveOwnsName, PTL

\* Under the same condition a live connection has one write pump, though the
\* connection whose pump is started is looked up again by name.
THEOREM PumpsOnce == Spec => []OneWritePump
<1>1. Init => OneWritePump
  BY DEF Init, OneWritePump
<1>2. Spec => [](Typed /\ LiveOwnsName /\ OneWritePump)
  BY <1>1, SpecLiveOwnsName, NextOneWritePump, PTL DEF Spec
<1> QED
  BY <1>2, PTL

\* Registering a custom name never replaces a registered connection: the
\* look-up and the insertion share a critical section.
THEOREM CustomSafe == Spec => CustomNeverDisplaces
<1>1. Typed /\ [Next]_vars =>
        [\A s \in Session : pc[s] = "name" /\ pc'[s] = "pump" => tunnels[name'[s]] = None]_vars
  <2> SUFFICES ASSUME Typed, Next, NEW s \in Session, pc[s] = "name", pc'[s] = "pump"
               PROVE tunnels[name'[s]] = None
    OBVIOUS
  <2>1. RegisterCustom(s)
    <3> USE DEF Typed, TypeOK, Goto, procs
    <3>1. PICK t \in Session : Reserve(t) \/ SessionStep(t) \/ Disconnect(t)
      BY DEF Next, Cleanup, CleanupStart, CleanupScan, CleanupDelete, CleanupCount, CleanupIP,
             CleanupUnlock, CleanupEnd, WindowExpires, ShutdownBegin, ShutdownShard,
             ShutdownReset
    <3>2. t = s
      BY <3>1 DEF SessionStep, Disconnect, Reserve, CheckRate, ReserveIP, RegisterCustom,
         RefuseCustom, DrawShort, DrawLong, RegisterRandom, StartPump, RollbackIP,
         RollbackGlobal, UnregisterAbsent, UnregisterDelete, UnregisterCount, UnregisterIP,
         Insert
    <3> QED
      BY <3>1, <3>2 DEF SessionStep, Disconnect, Reserve, CheckRate, ReserveIP, RegisterCustom,
         RefuseCustom, DrawShort, DrawLong, RegisterRandom, StartPump, RollbackIP,
         RollbackGlobal, UnregisterAbsent, UnregisterDelete, UnregisterCount, UnregisterIP
  <2> QED
    BY <2>1 DEF RegisterCustom, Insert, Typed, TypeOK
<1> QED
  BY <1>1, InitTyped, NextTyped, PTL DEF Spec, CustomNeverDisplaces

-----------------------------------------------------------------------------
(* The counters                                                            *)

One(b) == IF b THEN 1 ELSE 0

\* Two sets that differ at most in x have cardinalities that differ by x.
LEMMA ChangeOne ==
    ASSUME NEW S, NEW T, NEW x, IsFiniteSet(S), S \ {x} = T \ {x}
    PROVE  /\ IsFiniteSet(T)
           /\ Cardinality(S) \in Nat /\ Cardinality(T) \in Nat
           /\ Cardinality(T) + One(x \in S) = Cardinality(S) + One(x \in T)
<1> DEFINE Rest == S \ {x}
<1>1. IsFiniteSet(Rest) /\ Cardinality(Rest) \in Nat /\ Cardinality(S) \in Nat
  BY FS_RemoveElement, FS_CardinalityType
<1>2. Cardinality(S) = Cardinality(Rest) + One(x \in S)
  BY <1>1, FS_RemoveElement DEF One
<1>3. /\ IsFiniteSet(Rest \cup {x})
      /\ Cardinality(Rest \cup {x}) = Cardinality(Rest) + 1
  BY <1>1, FS_AddElement
<1>4. CASE x \in T
  <2>1. T = Rest \cup {x}
    BY <1>4
  <2> QED
    BY <1>1, <1>2, <1>3, <1>4, <2>1 DEF One
<1>5. CASE x \notin T
  <2>1. T = Rest
    BY <1>5
  <2> QED
    BY <1>1, <1>2, <1>5, <2>1 DEF One
<1> QED
  BY <1>4, <1>5

LEMMA Finite ==
    ASSUME Typed
    PROVE  /\ IsFiniteSet(Live) /\ Cardinality(Live) \in Nat
           /\ IsFiniteSet(InFlight) /\ Cardinality(InFlight) \in Nat
           /\ \A ip \in IP : /\ IsFiniteSet(LiveOf(ip)) /\ Cardinality(LiveOf(ip)) \in Nat
                             /\ IsFiniteSet(InFlightOf(ip)) /\ Cardinality(InFlightOf(ip)) \in Nat
<1>1. /\ Live \in SUBSET Subdomain /\ InFlight \in SUBSET Session
      /\ \A ip \in IP : LiveOf(ip) \in SUBSET Subdomain /\ InFlightOf(ip) \in SUBSET Session
  BY DEF Live, InFlight, LiveOf, InFlightOf
<1> QED
  BY <1>1, FS_Subset, FS_CardinalityType

Holding == {"rate", "ip", "name", "insert", "rollbackIP", "rollbackGlobal", "count"}

\* A session that moves from one place to another.
LEMMA MoveSession ==
    ASSUME Typed, NEW s \in Session, NEW l, Goto(s, l)
    PROVE  /\ Cardinality(InFlight') \in Nat
           /\ Cardinality(InFlight') + One(pc[s] \in Holding)
                = Cardinality(InFlight) + One(l \in Holding)
<1>1. InFlight \ {s} = InFlight' \ {s}
  BY DEF InFlight, Goto, Typed, TypeOK
<1>2. (s \in InFlight) = (pc[s] \in Holding) /\ (s \in InFlight') = (l \in Holding)
  BY DEF InFlight, Goto, Typed, TypeOK, Holding
<1> QED
  BY <1>1, <1>2, Finite, ChangeOne

\* One entry of the registry that is written.
Write(n, x) == tunnels' = [tunnels EXCEPT ![n] = x]

LEMMA WriteEntry ==
    ASSUME Typed, NEW n \in Subdomain, NEW x \in Session \cup {None}, Write(n, x)
    PROVE  /\ Cardinality(Live') \in Nat
           /\ Cardinality(Live') + One(Used(n)) = Cardinality(Live) + One(x # None)
<1>1. Live \ {n} = Live' \ {n}
  BY DEF Write, Live, Typed, TypeOK
<1>2. (n \in Live) = Used(n) /\ (n \in Live') = (x # None)
  BY DEF Write, Live, Typed, TypeOK
<1> QED
  BY <1>1, <1>2, Finite, ChangeOne

LEMMA NextGlobalLimit == Typed /\ GlobalLimit /\ [Next]_vars => GlobalLimit'
<1> SUFFICES ASSUME Typed, GlobalLimit, [Next]_vars PROVE GlobalLimit'
  OBVIOUS
<1> USE Finite DEF GlobalLimit, Slots, CleanupHolds, One, Holding
<1>1. /\ Typed' /\ tunnelCount \in Int /\ down \in Nat
      /\ \A s \in Session : pc[s] \in Places /\ (pc[s] \in {"insert", "live"} => name[s] \in Subdomain)
  BY NextTyped DEF Typed, TypeOK, StepOK
<1>2. UNCHANGED tunnels => Live' = Live
  BY DEF Live
<1>3. UNCHANGED pc => InFlight' = InFlight
  BY DEF InFlight
<1>4. ASSUME NEW s \in Session, Reserve(s) PROVE GlobalLimit'
  BY <1>1, <1>2, <1>4, MoveSession DEF Reserve, jan
<1>5. ASSUME NEW s \in Session, CheckRate(s) \/ ReserveIP(s) \/ RefuseCustom(s) \/ DrawLong(s)
                                  \/ StartPump(s) \/ RollbackIP(s)
      PROVE GlobalLimit'
  <2>1. UNCHANGED <<tunnels, tunnelCount, jpc, down>>
    BY <1>5 DEF CheckRate, ReserveIP, RefuseCustom, DrawLong, StartPump, RollbackIP, reg, jan
  <2>2. PICK l : Goto(s, l) /\ (pc[s] \in Holding <=> l \in Holding)
    BY <1>5 DEF CheckRate, ReserveIP, RefuseCustom, DrawLong, StartPump, RollbackIP, Holding
  <2> QED
    BY <1>1, <1>2, <2>1, <2>2, MoveSession
<1>6. ASSUME NEW s \in Session, DrawShort(s) PROVE GlobalLimit'
  <2>1. UNCHANGED <<tunnels, tunnelCount, jpc, down>>
    BY <1>6 DEF DrawShort, reg, jan
  <2>2. UNCHANGED pc \/ (pc[s] = "name" /\ Goto(s, "insert"))
    BY <1>6 DEF DrawShort
  <2> QED
    BY <1>1, <1>2, <1>3, <2>1, <2>2, MoveSession
<1>7. ASSUME NEW s \in Session, RegisterCustom(s) \/ RegisterRandom(s) PROVE GlobalLimit'
  <2>1. /\ UNCHANGED <<tunnelCount, jpc, down>>
        /\ pc[s] \in Holding /\ Goto(s, "pump")
        /\ Write(name[s], s)
        /\ name[s] \in Subdomain
    BY <1>1, <1>7 DEF Write, RegisterCustom, RegisterRandom, Insert, jan, Typed, TypeOK, Holding
  <2>2. Cardinality(InFlight') + 1 = Cardinality(InFlight) /\ Cardinality(InFlight') \in Nat
    BY <2>1, MoveSession
  <2>3. Cardinality(Live') <= Cardinality(Live) + 1 /\ Cardinality(Live') \in Nat
    BY <2>1, WriteEntry
  <2> QED
    BY <1>1, <2>1, <2>2, <2>3
<1>8. ASSUME NEW s \in Session, RollbackGlobal(s) \/ UnregisterCount(s) PROVE GlobalLimit'
  <2>1. /\ UNCHANGED <<tunnels, jpc, down>> /\ tunnelCount' = tunnelCount - 1
        /\ pc[s] \in Holding
        /\ Goto(s, "idle") \/ Goto(s, "decIP")
    BY <1>8 DEF RollbackGlobal, UnregisterCount, jan, Holding
  <2> QED
    BY <1>1, <1>2, <2>1, MoveSession
<1>9. ASSUME NEW s \in Session, UnregisterAbsent(s) \/ UnregisterIP(s) PROVE GlobalLimit'
  <2>1. /\ UNCHANGED <<tunnels, tunnelCount, jpc, down>>
        /\ pc[s] \notin Holding /\ Goto(s, "idle")
    BY <1>9 DEF UnregisterAbsent, UnregisterIP, reg, jan, Holding
  <2> QED
    BY <1>1, <1>2, <2>1, MoveSession
<1>10. ASSUME NEW s \in Session, UnregisterDelete(s) PROVE GlobalLimit'
  <2>1. /\ UNCHANGED <<tunnelCount, jpc, down>>
        /\ pc[s] = "live" /\ Goto(s, "count") /\ Used(name[s])
        /\ Write(name[s], None)
        /\ name[s] \in Subdomain
    BY <1>1, <1>10 DEF Write, UnregisterDelete, jan
  <2>2. Cardinality(InFlight') = Cardinality(InFlight) + 1 /\ Cardinality(InFlight') \in Nat
    BY <2>1, MoveSession
  <2>3. Cardinality(Live') + 1 = Cardinality(Live) /\ Cardinality(Live') \in Nat
    BY <2>1, WriteEntry
  <2> QED
    BY <1>1, <2>1, <2>2, <2>3
<1>11. CASE CleanupDelete
  <2>1. PICK n \in jstale : Write(n, None)
    BY <1>11 DEF Write, CleanupDelete
  <2>2. n \in Subdomain /\ Used(n)
    BY <1>11 DEF CleanupDelete, Typed, TypeOK, StepOK
  <2>3. Cardinality(Live') + 1 = Cardinality(Live) /\ Cardinality(Live') \in Nat
    BY <2>1, <2>2, WriteEntry
  <2> QED
    BY <1>1, <1>3, <1>11, <2>3 DEF CleanupDelete
<1>12. CASE CleanupCount
  BY <1>1, <1>2, <1>3, <1>12 DEF CleanupCount
<1>13. CASE CleanupStart \/ CleanupScan \/ CleanupIP \/ CleanupUnlock \/ CleanupEnd
  BY <1>1, <1>2, <1>3, <1>13
  DEF CleanupStart, CleanupScan, CleanupIP, CleanupUnlock, CleanupEnd, reg, procs
<1>14. CASE ShutdownShard
  <2>1. Live' \in SUBSET Live
    BY <1>14 DEF ShutdownShard, Live, Typed, TypeOK
  <2>2. Cardinality(Live') \in Nat /\ Cardinality(Live') <= Cardinality(Live)
    BY <2>1, FS_Subset, FS_CardinalityType
  <2> QED
    BY <1>1, <1>3, <1>14, <2>2 DEF ShutdownShard, jan
<1>15. CASE ShutdownReset
  BY <1>15 DEF ShutdownReset
<1>16. CASE ShutdownBegin
  BY <1>1, <1>2, <1>3, <1>16 DEF ShutdownBegin, reg, procs, jan
<1>17. CASE UNCHANGED <<tunnels, tunnelCount, pc, jpc, down>>
  BY <1>1, <1>2, <1>3, <1>17
<1> QED
  BY <1>4, <1>5, <1>6, <1>7, <1>8, <1>9, <1>10, <1>11, <1>12, <1>13, <1>14, <1>15, <1>16, <1>17
  DEF Next, SessionStep, Disconnect, Cleanup, WindowExpires, vars, reg, procs, jan

\* However many calls race, the registered tunnels and the reservations in
\* flight are covered by tunnelCount, which never passes maxTunnels.
THEOREM GlobalLimitHolds == Spec => []GlobalLimit
<1>1. Init => GlobalLimit
  <2> SUFFICES ASSUME Init PROVE GlobalLimit
    OBVIOUS
  <2>1. Live = {} /\ InFlight = {}
    BY DEF Init, Live, InFlight
  <2> QED
    BY <2>1, FS_EmptySet DEF Init, GlobalLimit, Slots, CleanupHolds
<1>2. Spec => [](Typed /\ GlobalLimit)
  BY <1>1, InitTyped, NextTyped, NextGlobalLimit, PTL DEF Spec
<1> QED
  BY <1>2, PTL

-----------------------------------------------------------------------------
(* The abstract registry                                                   *)

LEMMA Room ==
    ASSUME Typed, GlobalLimit, down = 0, NEW s \in Session, pc[s] \in {"name", "insert"}
    PROVE  Cardinality(Live) < MaxTunnels
<1>1. InFlight # {}
  BY DEF InFlight
<1>2. Cardinality(InFlight) # 0 /\ Cardinality(InFlight) \in Nat /\ Cardinality(Live) \in Nat
  BY <1>1, Finite, FS_EmptySet
<1> QED
  BY <1>2, ManagerAssumption DEF GlobalLimit, Slots, CleanupHolds, Typed, TypeOK

LEMMA StepRefines ==
    ASSUME Typed, GlobalLimit, EntryHasOwner, LiveOwnsName, [Next]_vars, Typed', EntryHasOwner'
    PROVE  [R!Next]_<<tunnels, upset = {} /\ down = 0>>
<1>1. CASE ~(upset' = {} /\ down' = 0)
  <2>1. tunnels' \in [Subdomain -> Session \cup {None}]
    BY DEF Typed, TypeOK, Owner
  <2>2. R!Injective(tunnels')
    BY DEF R!Injective, EntryHasOwner, Used
  <2> QED
    BY <1>1, <2>1, <2>2 DEF R!Next, R!Unrest
<1>2. CASE upset' = {} /\ down' = 0
  <2>1. upset = {} /\ down = 0
    BY <1>2, CalmStep
  <2>2. (upset = {} /\ down = 0)' = (upset = {} /\ down = 0)
    BY <1>2, <2>1
  <2>3. ASSUME NEW s \in Session, Insert(s, name[s]), tunnels[name[s]] = None,
               name[s] \in Subdomain, pc[s] \in {"name", "insert"}
        PROVE  R!Take(s, name[s])
    <3>1. \A m \in Subdomain : tunnels[m] # s
      BY <2>3, ManagerAssumption DEF EntryHasOwner, Used
    <3>2. R!Taken = Live
      BY DEF R!Taken, Live
    <3>3. R!Cardinality(R!Taken) < MaxTunnels
      <4>1. R!Cardinality(Live) = Cardinality(Live)
        BY DEF R!Cardinality, Cardinality
      <4> QED
        BY <2>1, <2>3, <3>2, <4>1, Room
    <3>4. tunnels' = [tunnels EXCEPT ![name[s]] = s]
      BY <2>3 DEF Insert
    <3> QED
      BY <2>1, <2>2, <2>3, <3>1, <3>3, <3>4, Zenon DEF R!Take
  <2>4. ASSUME NEW s \in Session, UnregisterDelete(s) PROVE \E n \in Subdomain : R!Give(n)
    <3>1. name[s] \in Subdomain
      BY <2>4 DEF UnregisterDelete, Typed, TypeOK, StepOK
    <3>2. tunnels[name[s]] # None /\ tunnels' = [tunnels EXCEPT ![name[s]] = None]
      BY <2>4 DEF UnregisterDelete, Used
    <3>3. R!Give(name[s])
      BY <2>1, <2>2, <3>2, Zenon DEF R!Give
    <3> QED
      BY <3>1, <3>3
  <2>5. ASSUME UNCHANGED tunnels PROVE UNCHANGED <<tunnels, upset = {} /\ down = 0>>
    BY <2>2, <2>5, Zenon
  <2>6. \/ \E s \in Session : R!Take(s, name[s]) /\ name[s] \in Subdomain
        \/ \E s \in Session : UnregisterDelete(s)
        \/ UNCHANGED tunnels
    <3>1. \/ \E s \in Session : /\ Insert(s, name[s]) /\ tunnels[name[s]] = None
                                /\ name[s] \in Subdomain /\ pc[s] \in {"name", "insert"}
          \/ \E s \in Session : StartPump(s) \/ UnregisterDelete(s)
          \/ UNCHANGED tunnels
      BY <1>2, CalmStep
    <3>2. \A s \in Session : StartPump(s) => UNCHANGED tunnels
      BY DEF StartPump, reg
    <3> QED
      BY <2>3, <3>1, <3>2
  <2>7. R!Next \/ UNCHANGED tunnels
    BY <2>4, <2>6 DEF R!Next
  <2> QED
    BY <2>5, <2>7, Zenon
<1> QED
  BY <1>1, <1>2

\* Every behaviour of the manager, with its reservations, locks and rollbacks, is
\* one of the abstract registry.
THEOREM ManagerRefinesRegistry == Spec => RefinesRegistry
<1>1. Init => R!Init
  BY DEF Init, R!Init
<1>2. Spec => [](Typed /\ LiveOwnsName) /\ []GlobalLimit /\ []EntryHasOwner
  BY SpecLiveOwnsName, GlobalLimitHolds, EntriesOwned
<1>3. Typed /\ GlobalLimit /\ EntryHasOwner /\ LiveOwnsName
        /\ Typed' /\ EntryHasOwner' /\ [Next]_vars
        => [R!Next]_<<tunnels, upset = {} /\ down = 0>>
  BY StepRefines
<1> QED
  BY <1>1, <1>2, <1>3, PTL DEF Spec, RefinesRegistry, R!Spec
-----------------------------------------------------------------------------
(* No slot leaks                                                           *)

Calm == "clash" \notin upset /\ down = 0

GlobalExact == Calm => tunnelCount = Slots
IPExact == Calm => \A ip \in IP : tunnelsByIP[ip] = SlotsOf(ip)

\* What holds a slot of ip outside the map.
HoldsOf(ip, place, address, owner) ==
    \/ address = ip /\ place \in {"name", "insert", "rollbackIP"}
    \/ place \in {"count", "decIP"} /\ owner # None /\ RemoteIP[owner] = ip

LEMMA MoveSessionOf ==
    ASSUME Typed, NEW ip \in IP, NEW s \in Session,
           \A t \in Session \ {s} : pc'[t] = pc[t] /\ victim'[t] = victim[t]
    PROVE  /\ Cardinality(InFlightOf(ip)') \in Nat
           /\ Cardinality(InFlightOf(ip)') + One(HoldsOf(ip, pc[s], RemoteIP[s], victim[s]))
                = Cardinality(InFlightOf(ip)) + One(HoldsOf(ip, pc'[s], RemoteIP[s], victim'[s]))
<1>1. InFlightOf(ip) \ {s} = InFlightOf(ip)' \ {s}
  BY DEF InFlightOf
<1>2. /\ s \in InFlightOf(ip) <=> HoldsOf(ip, pc[s], RemoteIP[s], victim[s])
      /\ s \in InFlightOf(ip)' <=> HoldsOf(ip, pc'[s], RemoteIP[s], victim'[s])
  BY DEF InFlightOf, HoldsOf
<1>3. /\ One(s \in InFlightOf(ip)) = One(HoldsOf(ip, pc[s], RemoteIP[s], victim[s]))
      /\ One(s \in InFlightOf(ip)') = One(HoldsOf(ip, pc'[s], RemoteIP[s], victim'[s]))
  BY <1>2 DEF One
<1> QED
  BY <1>1, <1>3, Finite, ChangeOne

LEMMA WriteEntryOf ==
    ASSUME Typed, NEW ip \in IP, NEW n \in Subdomain, NEW x \in Session \cup {None}, Write(n, x)
    PROVE  /\ Cardinality(LiveOf(ip)') \in Nat
           /\ Cardinality(LiveOf(ip)') + One(Used(n) /\ RemoteIP[tunnels[n]] = ip)
                = Cardinality(LiveOf(ip)) + One(x # None /\ RemoteIP[x] = ip)
<1>1. LiveOf(ip) \ {n} = LiveOf(ip)' \ {n}
  BY DEF Write, LiveOf, Live, Typed, TypeOK
<1>2. /\ (n \in LiveOf(ip)) = (Used(n) /\ RemoteIP[tunnels[n]] = ip)
      /\ (n \in LiveOf(ip)') = (x # None /\ RemoteIP[x] = ip)
  BY DEF Write, LiveOf, Live, Typed, TypeOK
<1> QED
  BY <1>1, <1>2, Finite, ChangeOne

\* What a step that keeps the calm does to the slots.
LEMMA CalmBefore == Typed /\ [Next]_vars /\ Calm' => Calm /\ UNCHANGED down
<1> SUFFICES ASSUME Typed, [Next]_vars, Calm' PROVE Calm /\ UNCHANGED down
  OBVIOUS
<1> USE DEF Calm, jan
<1>1. ASSUME NEW s \in Session, Reserve(s) \/ SessionStep(s) \/ Disconnect(s)
      PROVE  Calm /\ UNCHANGED down
  BY <1>1 DEF SessionStep, Disconnect, Reserve, CheckRate, ReserveIP, RegisterCustom,
     RefuseCustom, DrawShort, DrawLong, RegisterRandom, StartPump, RollbackIP, RollbackGlobal,
     UnregisterAbsent, UnregisterDelete, UnregisterCount, UnregisterIP
<1>2. CASE Cleanup \/ CleanupStart \/ \E ip \in IP : WindowExpires(ip)
  BY <1>2 DEF Cleanup, CleanupStart, CleanupScan, CleanupDelete, CleanupCount, CleanupIP,
     CleanupUnlock, CleanupEnd, WindowExpires
<1>3. CASE ShutdownBegin \/ ShutdownShard \/ ShutdownReset
  BY <1>3 DEF ShutdownBegin, ShutdownShard, ShutdownReset, Typed, TypeOK
<1>4. CASE UNCHANGED vars
  BY <1>4 DEF vars
<1> QED
  BY <1>1, <1>2, <1>3, <1>4 DEF Next

LEMMA NextGlobalExact == Typed /\ GlobalExact /\ [Next]_vars => GlobalExact'
<1> SUFFICES ASSUME Typed, GlobalExact, [Next]_vars, Calm' PROVE tunnelCount' = Slots'
  BY DEF GlobalExact
<1> USE Finite DEF Slots, CleanupHolds, One, Holding
<1>1. /\ tunnelCount = Slots /\ tunnelCount \in Int /\ down = 0
      /\ \A s \in Session : pc[s] \in {"insert", "live"} => name[s] \in Subdomain
  BY CalmBefore DEF Typed, TypeOK, StepOK, GlobalExact, Calm
<1>2. UNCHANGED tunnels => Live' = Live
  BY DEF Live
<1>3. UNCHANGED pc => InFlight' = InFlight
  BY DEF InFlight
<1>4. ASSUME NEW s \in Session, Reserve(s) PROVE tunnelCount' = Slots'
  BY <1>1, <1>2, <1>4, MoveSession DEF Reserve, jan
<1>5. ASSUME NEW s \in Session, CheckRate(s) \/ ReserveIP(s) \/ RefuseCustom(s) \/ DrawLong(s)
                                  \/ StartPump(s) \/ RollbackIP(s)
      PROVE tunnelCount' = Slots'
  <2>1. UNCHANGED <<tunnels, tunnelCount, jpc>>
    BY <1>5 DEF CheckRate, ReserveIP, RefuseCustom, DrawLong, StartPump, RollbackIP, reg, jan
  <2>2. PICK l : Goto(s, l) /\ (pc[s] \in Holding <=> l \in Holding)
    BY <1>5 DEF CheckRate, ReserveIP, RefuseCustom, DrawLong, StartPump, RollbackIP, Holding
  <2> QED
    BY <1>1, <1>2, <2>1, <2>2, MoveSession
<1>6. ASSUME NEW s \in Session, DrawShort(s) PROVE tunnelCount' = Slots'
  <2>1. UNCHANGED <<tunnels, tunnelCount, jpc>>
    BY <1>6 DEF DrawShort, reg, jan
  <2>2. UNCHANGED pc \/ (pc[s] = "name" /\ Goto(s, "insert"))
    BY <1>6 DEF DrawShort
  <2> QED
    BY <1>1, <1>2, <1>3, <2>1, <2>2, MoveSession
<1>7. ASSUME NEW s \in Session, RegisterCustom(s) \/ RegisterRandom(s) PROVE tunnelCount' = Slots'
  <2>1. /\ UNCHANGED <<tunnelCount, jpc>>
        /\ pc[s] \in Holding /\ Goto(s, "pump")
        /\ Write(name[s], s) /\ ~Used(name[s])
        /\ name[s] \in Subdomain
    BY <1>1, <1>7 DEF Write, RegisterCustom, RegisterRandom, Insert, jan, Typed, TypeOK, Holding,
       Calm
  <2>2. Cardinality(InFlight') + 1 = Cardinality(InFlight) /\ Cardinality(InFlight') \in Nat
    BY <2>1, MoveSession
  <2>3. Cardinality(Live') = Cardinality(Live) + 1 /\ Cardinality(Live') \in Nat
    BY <2>1, WriteEntry
  <2> QED
    BY <1>1, <2>1, <2>2, <2>3
<1>8. ASSUME NEW s \in Session, RollbackGlobal(s) \/ UnregisterCount(s) PROVE tunnelCount' = Slots'
  <2>1. /\ UNCHANGED <<tunnels, jpc>> /\ tunnelCount' = tunnelCount - 1
        /\ pc[s] \in Holding
        /\ Goto(s, "idle") \/ Goto(s, "decIP")
    BY <1>8 DEF RollbackGlobal, UnregisterCount, jan, Holding
  <2> QED
    BY <1>1, <1>2, <2>1, MoveSession
<1>9. ASSUME NEW s \in Session, UnregisterAbsent(s) \/ UnregisterIP(s) PROVE tunnelCount' = Slots'
  <2>1. /\ UNCHANGED <<tunnels, tunnelCount, jpc>>
        /\ pc[s] \notin Holding /\ Goto(s, "idle")
    BY <1>9 DEF UnregisterAbsent, UnregisterIP, reg, jan, Holding
  <2> QED
    BY <1>1, <1>2, <2>1, MoveSession
<1>10. ASSUME NEW s \in Session, UnregisterDelete(s) PROVE tunnelCount' = Slots'
  <2>1. /\ UNCHANGED <<tunnelCount, jpc>>
        /\ pc[s] = "live" /\ Goto(s, "count") /\ Used(name[s])
        /\ Write(name[s], None)
        /\ name[s] \in Subdomain
    BY <1>1, <1>10 DEF Write, UnregisterDelete, jan
  <2>2. Cardinality(InFlight') = Cardinality(InFlight) + 1 /\ Cardinality(InFlight') \in Nat
    BY <2>1, MoveSession
  <2>3. Cardinality(Live') + 1 = Cardinality(Live) /\ Cardinality(Live') \in Nat
    BY <2>1, WriteEntry
  <2> QED
    BY <1>1, <2>1, <2>2, <2>3
<1>11. CASE CleanupDelete
  <2>1. PICK n \in jstale : Write(n, None)
    BY <1>11 DEF Write, CleanupDelete
  <2>2. n \in Subdomain /\ Used(n)
    BY <1>11 DEF CleanupDelete, Typed, TypeOK, StepOK
  <2>3. Cardinality(Live') + 1 = Cardinality(Live) /\ Cardinality(Live') \in Nat
    BY <2>1, <2>2, WriteEntry
  <2> QED
    BY <1>1, <1>3, <1>11, <2>3 DEF CleanupDelete
<1>12. CASE CleanupCount
  BY <1>1, <1>2, <1>3, <1>12 DEF CleanupCount
<1>13. CASE CleanupStart \/ CleanupScan \/ CleanupIP \/ CleanupUnlock \/ CleanupEnd
  BY <1>1, <1>2, <1>3, <1>13
  DEF CleanupStart, CleanupScan, CleanupIP, CleanupUnlock, CleanupEnd, reg, procs
<1>14. ~ShutdownBegin /\ ~ShutdownShard /\ ~ShutdownReset
  BY <1>1 DEF ShutdownBegin, ShutdownShard, ShutdownReset, Calm
<1>15. CASE UNCHANGED <<tunnels, tunnelCount, pc, jpc>>
  BY <1>1, <1>2, <1>3, <1>15
<1> QED
  BY <1>4, <1>5, <1>6, <1>7, <1>8, <1>9, <1>10, <1>11, <1>12, <1>13, <1>14, <1>15
  DEF Next, SessionStep, Disconnect, Cleanup, WindowExpires, vars, reg, procs, jan

\* The counter of an address, its entries and what sessions and the cleanup hold
\* of it change together.
LEMMA NextIPExact == Typed /\ IPExact /\ [Next]_vars => IPExact'
<1> SUFFICES ASSUME Typed, IPExact, [Next]_vars, Calm', NEW ip \in IP
             PROVE tunnelsByIP'[ip] = SlotsOf(ip)'
  BY DEF IPExact
<1> DEFINE Now(s)  == HoldsOf(ip, pc[s], RemoteIP[s], victim[s])
           Then(s) == HoldsOf(ip, pc'[s], RemoteIP[s], victim'[s])
<1>1. /\ tunnelsByIP[ip] = SlotsOf(ip) /\ tunnelsByIP[ip] \in Nat /\ down = 0
      /\ \A s \in Session : pc[s] \in {"insert", "live"} => name[s] \in Subdomain
  BY CalmBefore DEF Typed, TypeOK, StepOK, IPExact, Calm
<1>2. UNCHANGED tunnels => LiveOf(ip)' = LiveOf(ip)
  BY DEF LiveOf, Live
<1>3. UNCHANGED <<pc, victim>> => InFlightOf(ip)' = InFlightOf(ip)
  BY DEF InFlightOf
<1>4. UNCHANGED jpc /\ victim'[Janitor] = victim[Janitor] => CleanupHoldsOf(ip)' = CleanupHoldsOf(ip)
  BY DEF CleanupHoldsOf
<1>5. CleanupHoldsOf(ip) \in {0, 1} /\ CleanupHoldsOf(ip)' \in {0, 1}
  BY DEF CleanupHoldsOf
<1>6. /\ Cardinality(LiveOf(ip)) \in Nat /\ Cardinality(InFlightOf(ip)) \in Nat
  BY Finite
<1>7. ASSUME NEW s \in Session,
             \A t \in Session \ {s} : pc'[t] = pc[t] /\ victim'[t] = victim[t],
             UNCHANGED <<tunnels, jpc>>, victim'[Janitor] = victim[Janitor],
             tunnelsByIP'[ip] + One(Now(s)) = tunnelsByIP[ip] + One(Then(s)),
             tunnelsByIP'[ip] \in Nat
      PROVE  tunnelsByIP'[ip] = SlotsOf(ip)'
  <2>1. /\ Cardinality(InFlightOf(ip)') \in Nat
        /\ Cardinality(InFlightOf(ip)') + One(Now(s)) = Cardinality(InFlightOf(ip)) + One(Then(s))
    BY <1>7, MoveSessionOf
  <2>2. One(Now(s)) \in {0, 1} /\ One(Then(s)) \in {0, 1}
    BY DEF One
  <2> QED
    BY <1>1, <1>2, <1>4, <1>5, <1>6, <1>7, <2>1, <2>2 DEF SlotsOf
<1>8. ASSUME NEW s \in Session, Now(s) PROVE tunnelsByIP[ip] > 0
  <2>1. s \in InFlightOf(ip)
    BY <1>8 DEF InFlightOf, HoldsOf
  <2>2. Cardinality(InFlightOf(ip)) # 0
    BY <2>1, Finite, FS_EmptySet
  <2> QED
    BY <1>1, <1>5, <1>6, <2>2 DEF SlotsOf
<1>9. ASSUME NEW s \in Session, Reserve(s) \/ CheckRate(s) \/ RefuseCustom(s) \/ DrawShort(s)
                                 \/ DrawLong(s) \/ StartPump(s) \/ RollbackGlobal(s)
                                 \/ UnregisterAbsent(s) \/ UnregisterCount(s)
      PROVE  tunnelsByIP'[ip] = SlotsOf(ip)'
  <2>1. /\ UNCHANGED <<tunnels, tunnelsByIP, jpc>> /\ victim'[Janitor] = victim[Janitor]
        /\ \A t \in Session \ {s} : pc'[t] = pc[t] /\ victim'[t] = victim[t]
    BY <1>9 DEF Reserve, CheckRate, RefuseCustom, DrawShort, DrawLong, StartPump, RollbackGlobal,
       UnregisterAbsent, UnregisterCount,
       Goto, reg, jan, Typed, TypeOK
  <2>2. Now(s) <=> Then(s)
    BY <1>9 DEF Reserve, CheckRate, RefuseCustom, DrawShort, DrawLong, StartPump, RollbackGlobal,
       UnregisterAbsent, UnregisterCount,
       Goto, Typed, TypeOK, StepOK, HoldsOf
  <2> QED
    BY <1>1, <1>7, <2>1, <2>2 DEF One
<1>10. ASSUME NEW s \in Session, ReserveIP(s) PROVE tunnelsByIP'[ip] = SlotsOf(ip)'
  <2>1. /\ UNCHANGED <<tunnels, jpc, victim>>
        /\ \A t \in Session \ {s} : pc'[t] = pc[t]
    BY <1>10 DEF ReserveIP, Goto, jan, Typed, TypeOK
  <2>2. ~Now(s)
    BY <1>10 DEF ReserveIP, HoldsOf
  <2>3. Then(s) => RemoteIP[s] = ip /\ tunnelsByIP'[ip] = tunnelsByIP[ip] + 1
    BY <1>10 DEF ReserveIP, Goto, Typed, TypeOK, HoldsOf
  <2>4. ~Then(s) => tunnelsByIP'[ip] = tunnelsByIP[ip]
    BY <1>10 DEF ReserveIP, Goto, Typed, TypeOK, HoldsOf
  <2> QED
    BY <1>1, <1>7, <2>1, <2>2, <2>3, <2>4 DEF One
<1>11. ASSUME NEW s \in Session, RollbackIP(s) \/ UnregisterIP(s) PROVE tunnelsByIP'[ip] = SlotsOf(ip)'
  <2>1. /\ UNCHANGED <<tunnels, jpc>> /\ victim'[Janitor] = victim[Janitor]
        /\ \A t \in Session \ {s} : pc'[t] = pc[t] /\ victim'[t] = victim[t]
    BY <1>11 DEF RollbackIP, UnregisterIP, Goto, jan, Typed, TypeOK
  <2>2. ~Then(s)
    BY <1>11 DEF RollbackIP, UnregisterIP, Goto, Typed, TypeOK, HoldsOf
  <2>3. Now(s) => tunnelsByIP'[ip] = IF tunnelsByIP[ip] > 0 THEN tunnelsByIP[ip] - 1 ELSE 0
    BY <1>11 DEF RollbackIP, UnregisterIP, DecrementIP, Typed, TypeOK, HoldsOf
  <2>4. ~Now(s) => tunnelsByIP'[ip] = tunnelsByIP[ip]
    BY <1>11 DEF RollbackIP, UnregisterIP, DecrementIP, Typed, TypeOK, StepOK, HoldsOf
  <2> QED
    BY <1>1, <1>7, <1>8, <2>1, <2>2, <2>3, <2>4 DEF One
<1>12. ASSUME NEW s \in Session, RegisterCustom(s) \/ RegisterRandom(s)
       PROVE  tunnelsByIP'[ip] = SlotsOf(ip)'
  <2>1. /\ UNCHANGED <<tunnelsByIP, jpc, victim>>
        /\ pc[s] \in {"name", "insert"} /\ Goto(s, "pump")
        /\ Write(name[s], s) /\ ~Used(name[s])
        /\ name[s] \in Subdomain
    BY <1>1, <1>12 DEF Write, RegisterCustom, RegisterRandom, Insert, jan, Typed, TypeOK, Calm
  <2>2. (Now(s) <=> RemoteIP[s] = ip) /\ ~Then(s)
    BY <2>1 DEF HoldsOf, Goto, Typed, TypeOK
  <2>3. /\ Cardinality(InFlightOf(ip)') + One(Now(s)) = Cardinality(InFlightOf(ip)) + One(Then(s))
        /\ Cardinality(InFlightOf(ip)') \in Nat
    <3>1. \A t \in Session \ {s} : pc'[t] = pc[t] /\ victim'[t] = victim[t]
      BY <2>1 DEF Goto
    <3> QED
      BY <3>1, MoveSessionOf
  <2>4. /\ Cardinality(LiveOf(ip)') = Cardinality(LiveOf(ip)) + One(RemoteIP[s] = ip)
        /\ Cardinality(LiveOf(ip)') \in Nat
    <3>1. s # None
      BY ManagerAssumption
    <3>2. /\ One(Used(name[s]) /\ RemoteIP[tunnels[name[s]]] = ip) = 0
          /\ One(s # None /\ RemoteIP[s] = ip) = One(RemoteIP[s] = ip)
      BY <2>1, <3>1 DEF One
    <3>3. /\ Cardinality(LiveOf(ip)') + One(Used(name[s]) /\ RemoteIP[tunnels[name[s]]] = ip)
                = Cardinality(LiveOf(ip)) + One(s # None /\ RemoteIP[s] = ip)
          /\ Cardinality(LiveOf(ip)') \in Nat
      BY <2>1, WriteEntryOf
    <3> QED
      BY <3>2, <3>3
  <2>5. CleanupHoldsOf(ip)' = CleanupHoldsOf(ip)
    BY <1>4, <2>1
  <2> QED
    BY <1>1, <1>5, <1>6, <2>1, <2>2, <2>3, <2>4, <2>5 DEF SlotsOf, One
<1>13. ASSUME NEW s \in Session, UnregisterDelete(s) PROVE tunnelsByIP'[ip] = SlotsOf(ip)'
  <2> DEFINE owner == tunnels[name[s]]
  <2>1. /\ UNCHANGED <<tunnelsByIP, jpc>> /\ victim'[Janitor] = victim[Janitor]
        /\ pc[s] = "live" /\ Goto(s, "count") /\ Used(name[s])
        /\ victim' = [victim EXCEPT ![s] = owner]
        /\ Write(name[s], None)
        /\ name[s] \in Subdomain
    BY <1>1, <1>13 DEF Write, UnregisterDelete, jan
  <2>2. ~Now(s) /\ (Then(s) <=> RemoteIP[owner] = ip)
    BY <2>1 DEF HoldsOf, Goto, Typed, TypeOK
  <2>3. /\ Cardinality(InFlightOf(ip)') + One(Now(s)) = Cardinality(InFlightOf(ip)) + One(Then(s))
        /\ Cardinality(InFlightOf(ip)') \in Nat
    <3>1. \A t \in Session \ {s} : pc'[t] = pc[t] /\ victim'[t] = victim[t]
      BY <2>1 DEF Goto
    <3> QED
      BY <3>1, MoveSessionOf
  <2>4. /\ Cardinality(LiveOf(ip)') + One(RemoteIP[owner] = ip) = Cardinality(LiveOf(ip))
        /\ Cardinality(LiveOf(ip)') \in Nat
    <3>1. /\ One(Used(name[s]) /\ RemoteIP[tunnels[name[s]]] = ip) = One(RemoteIP[owner] = ip)
          /\ One(None # None /\ RemoteIP[None] = ip) = 0
      BY <2>1 DEF One
    <3>2. /\ Cardinality(LiveOf(ip)') + One(Used(name[s]) /\ RemoteIP[tunnels[name[s]]] = ip)
                = Cardinality(LiveOf(ip)) + One(None # None /\ RemoteIP[None] = ip)
          /\ Cardinality(LiveOf(ip)') \in Nat
      BY <2>1, WriteEntryOf
    <3> QED
      BY <1>6, <3>1, <3>2
  <2>5. CleanupHoldsOf(ip)' = CleanupHoldsOf(ip)
    BY <1>4, <2>1
  <2> QED
    BY <1>1, <1>5, <1>6, <2>1, <2>2, <2>3, <2>4, <2>5 DEF SlotsOf, One
<1>14. CASE CleanupDelete
  <2>1. PICK n \in jstale : /\ Write(n, None)
                           /\ victim' = [victim EXCEPT ![Janitor] = tunnels[n]]
    BY <1>14 DEF Write, CleanupDelete
  <2>2. /\ UNCHANGED <<tunnelsByIP, pc>> /\ jpc = "scan" /\ jpc' = "count"
        /\ n \in Subdomain /\ Used(n)
    BY <1>14 DEF CleanupDelete, Typed, TypeOK, StepOK
  <2>3. CleanupHoldsOf(ip) = 0 /\ CleanupHoldsOf(ip)' = One(RemoteIP[tunnels[n]] = ip)
    BY <2>1, <2>2 DEF CleanupHoldsOf, One, Typed, TypeOK
  <2>4. /\ Cardinality(LiveOf(ip)') + One(RemoteIP[tunnels[n]] = ip) = Cardinality(LiveOf(ip))
        /\ Cardinality(LiveOf(ip)') \in Nat
    <3>1. /\ One(Used(n) /\ RemoteIP[tunnels[n]] = ip) = One(RemoteIP[tunnels[n]] = ip)
          /\ One(None # None /\ RemoteIP[None] = ip) = 0
      BY <2>2 DEF One
    <3>2. /\ Cardinality(LiveOf(ip)') + One(Used(n) /\ RemoteIP[tunnels[n]] = ip)
                = Cardinality(LiveOf(ip)) + One(None # None /\ RemoteIP[None] = ip)
          /\ Cardinality(LiveOf(ip)') \in Nat
      BY <2>1, <2>2, WriteEntryOf
    <3> QED
      BY <1>6, <3>1, <3>2
  <2>5. InFlightOf(ip)' = InFlightOf(ip)
    BY <2>1, <2>2 DEF InFlightOf, Typed, TypeOK
  <2> QED
    BY <1>1, <1>6, <2>2, <2>3, <2>4, <2>5 DEF SlotsOf, One
<1>15. CASE CleanupCount
  <2>1. /\ UNCHANGED <<tunnels, tunnelsByIP, pc>>
        /\ \A s \in Session : victim'[s] = victim[s]
    BY <1>15 DEF CleanupCount, Typed, TypeOK
  <2>2. CleanupHoldsOf(ip)' = CleanupHoldsOf(ip)
    BY <1>15 DEF CleanupCount, CleanupHoldsOf, Typed, TypeOK, StepOK
  <2>3. InFlightOf(ip)' = InFlightOf(ip)
    BY <2>1 DEF InFlightOf
  <2> QED
    BY <1>1, <1>2, <2>1, <2>2, <2>3 DEF SlotsOf
<1>16. CASE CleanupIP
  <2>1. /\ UNCHANGED <<tunnels, pc>>
        /\ \A s \in Session : victim'[s] = victim[s]
    BY <1>16 DEF CleanupIP, Typed, TypeOK
  <2>2. InFlightOf(ip)' = InFlightOf(ip)
    BY <2>1 DEF InFlightOf
  <2>3. CleanupHoldsOf(ip)' = 0
    BY <1>16 DEF CleanupIP, CleanupHoldsOf
  <2>4. /\ CleanupHoldsOf(ip) = 1 =>
              tunnelsByIP'[ip] = IF tunnelsByIP[ip] > 0 THEN tunnelsByIP[ip] - 1 ELSE 0
        /\ CleanupHoldsOf(ip) = 0 => tunnelsByIP'[ip] = tunnelsByIP[ip]
    BY <1>16 DEF CleanupIP, CleanupHoldsOf, DecrementIP, Typed, TypeOK, StepOK
  <2> QED
    BY <1>1, <1>2, <1>5, <1>6, <2>1, <2>2, <2>3, <2>4 DEF SlotsOf
<1>17. CASE CleanupStart \/ CleanupScan \/ CleanupUnlock \/ CleanupEnd
  <2>1. UNCHANGED <<tunnels, tunnelsByIP, pc, victim>> /\ jpc' \notin {"count", "ip"}
        /\ jpc \notin {"count", "ip"}
    BY <1>17 DEF CleanupStart, CleanupScan, CleanupUnlock, CleanupEnd, reg, procs
  <2>2. CleanupHoldsOf(ip)' = CleanupHoldsOf(ip)
    BY <2>1 DEF CleanupHoldsOf
  <2> QED
    BY <1>1, <1>2, <1>3, <2>1, <2>2 DEF SlotsOf
<1>18. ~ShutdownBegin /\ ~ShutdownShard /\ ~ShutdownReset
  BY <1>1 DEF ShutdownBegin, ShutdownShard, ShutdownReset, Calm
<1>19. CASE UNCHANGED <<tunnels, tunnelsByIP, pc, victim, jpc>>
  BY <1>1, <1>2, <1>3, <1>4, <1>19 DEF SlotsOf
<1> QED
  BY <1>9, <1>10, <1>11, <1>12, <1>13, <1>14, <1>15, <1>16, <1>17, <1>18, <1>19
  DEF Next, SessionStep, Disconnect, Cleanup, WindowExpires, vars, reg, procs, jan

\* No slot leaks, whatever is refused, rolled back, unregistered by name or
\* cleaned up: each counter is exactly the tunnels and calls it stands for.
THEOREM SlotsNeverLeak == Spec => []NoSlotLeak
<1>1. Init => GlobalExact /\ IPExact
  <2> SUFFICES ASSUME Init PROVE GlobalExact /\ IPExact
    OBVIOUS
  <2>1. Live = {} /\ InFlight = {}
    BY DEF Init, Live, InFlight
  <2>2. ASSUME NEW ip \in IP PROVE LiveOf(ip) = {} /\ InFlightOf(ip) = {} /\ CleanupHoldsOf(ip) = 0
    BY <2>1 DEF Init, LiveOf, InFlightOf, CleanupHoldsOf
  <2>3. tunnelCount = Slots
    BY <2>1, FS_EmptySet DEF Init, Slots, CleanupHolds
  <2>4. ASSUME NEW ip \in IP PROVE tunnelsByIP[ip] = SlotsOf(ip)
    <3>1. tunnelsByIP[ip] = 0 /\ Cardinality({}) = 0
      BY FS_EmptySet DEF Init
    <3> QED
      BY <2>2, <3>1 DEF SlotsOf
  <2> QED
    BY <2>3, <2>4 DEF GlobalExact, IPExact
<1>2. Spec => [](Typed /\ GlobalExact /\ IPExact)
  BY <1>1, InitTyped, NextTyped, NextGlobalExact, NextIPExact, PTL DEF Spec
<1>3. GlobalExact /\ IPExact => NoSlotLeak
  BY DEF GlobalExact, IPExact, NoSlotLeak, Calm
<1> QED
  BY <1>2, <1>3, PTL

=============================================================================
