---------------------------- MODULE PoolClientProofs ----------------------------
(***************************************************************************)
(* Theorems about PoolClient for every set of identifiers and every bound. *)
(***************************************************************************)
EXTENDS PoolClient, FiniteSetTheorems, TLAPS

\* What the proofs need of the types.  How many handlers run plays no part.
PoolTyped ==
    /\ connect \in {"new", "up", "warm", "running", "failed"}
    /\ primary \in BOOLEAN /\ data \subseteq D
    /\ sess \in [H -> {"none", "open", "closed"}]
    /\ add \in [D -> {"no", "start", "dial"}]
    /\ loops \in [H -> SUBSET Loops]
    /\ removing \in [D -> Loops \cup {"no", "scaler"}]
    /\ closing \in {"no", "flag", "sweep", "done"}
    /\ toClose \subseteq H /\ callers \subseteq Loops \cup {"user"} /\ byUser \in BOOLEAN
    /\ scaler \in {"none", "tick", "count", "add", "pick", "remove", "end"}
    /\ seen \in Nat /\ left \in Nat /\ cand \subseteq D
    /\ done \in BOOLEAN

\* The order of Connect and Close: Close runs only after the primary is there,
\* has a caller until it is done, and leaves nothing to itself.
CloseOrder ==
    /\ closing # "sweep" => toClose = {}
    /\ closing \in {"sweep", "done"} => primary = FALSE
    /\ connect \in {"new", "failed"} =>
        primary = FALSE /\ loops[Primary] = {} /\ closing = "no"
    /\ connect \notin {"new", "failed"} => sess[Primary] # "none"
    /\ closing \in {"flag", "sweep"} => callers # {}
    /\ "user" \in callers => byUser = TRUE
    /\ done = TRUE => connect = "running"

\* The sessions that are being added.
BeingAdded == {d \in D : add[d] # "no"}

\* The scaler adds nothing while it looks, and what it saw is no less than
\* there is when it decides.
ScalerOrder ==
    /\ connect = "new" => data = {}
    /\ connect \in {"new", "up", "failed"} => BeingAdded = {}
    /\ connect # "running" => scaler = "none"
    /\ scaler # "add" => left = 0 /\ (BeingAdded = {} \/ connect = "warm")
    /\ scaler = "count" => Count <= seen

USE PoolClientAssumption

LEMMA CountNat == data \subseteq D => IsFiniteSet(data) /\ Cardinality(data) \in Nat /\ Count \in Nat
<1> SUFFICES ASSUME data \subseteq D PROVE IsFiniteSet(data) /\ Cardinality(data) \in Nat /\ Count \in Nat
  OBVIOUS
<1>1. IsFiniteSet(data)
  BY FS_Subset
<1>2. Cardinality(data) \in Nat
  BY <1>1, FS_CardinalityType
<1> QED
  BY <1>1, <1>2 DEF Count

LEMMA InitPool == Init => PoolTyped /\ CloseOrder /\ OpenIsOwned /\ WaitAfterClose /\ ScalerOrder /\ PoolBound
<1> SUFFICES ASSUME Init PROVE PoolTyped /\ CloseOrder /\ OpenIsOwned /\ WaitAfterClose /\ ScalerOrder /\ PoolBound
  OBVIOUS
<1> USE DEF Init, H, Loops, Primary
<1>1. PoolTyped
  BY DEF PoolTyped
<1>2. CloseOrder
  BY DEF CloseOrder
<1>3. OpenIsOwned /\ WaitAfterClose
  BY DEF OpenIsOwned, WaitAfterClose
<1>4. ScalerOrder
  BY DEF ScalerOrder, BeingAdded
<1>5. PoolBound
  <2>1. {d \in D : add[d] # "no"} = {}
    OBVIOUS
  <2> QED
    BY <2>1, FS_EmptySet DEF PoolBound, Count
<1> QED
  BY <1>1, <1>2, <1>3, <1>4, <1>5

\* What the loss of the primary does: one more caller of Close.
LEMMA LostPrimary ==
    ASSUME PoolTyped, NEW loop \in Loops, Lost(Primary, loop)
    PROVE /\ callers' = callers \cup {loop}
          /\ closing' = (IF closing = "no" THEN "flag" ELSE closing)
          /\ UNCHANGED <<toClose, byUser, primary, data, sess, removing>>
          /\ loops' = [loops EXCEPT ![Primary] = @ \ {loop}]
BY DEF Lost, Call, Ends, handles

\* What the loss of another session does: it leaves the map.
LEMMA LostData ==
    ASSUME PoolTyped, NEW d \in D, NEW loop \in Loops, Lost(d, loop)
    PROVE /\ data' = data \ {d}
          /\ removing' = (IF d \in data THEN [removing EXCEPT ![d] = loop] ELSE removing)
          /\ UNCHANGED <<primary, sess, closing, toClose, callers, byUser>>
          /\ loops' = [loops EXCEPT ![d] = @ \ {loop}]
BY DEF Lost, TakeOut, Ends, close, Primary, H, PoolTyped

LEMMA NextTyped == PoolTyped /\ [Next]_vars => PoolTyped'
<1> SUFFICES ASSUME PoolTyped, [Next]_vars PROVE PoolTyped'
  OBVIOUS
<1> USE DEF PoolTyped, Loops, H, Primary, handles, work, close, scale
<1>1. ASSUME ConnectFails PROVE PoolTyped'
  BY <1>1 DEF ConnectFails
<1>2. ASSUME ConnectPrimary PROVE PoolTyped'
  BY <1>2 DEF ConnectPrimary
<1>3. ASSUME WarmUp PROVE PoolTyped'
  BY <1>3 DEF WarmUp
<1>4. ASSUME ConnectReturns PROVE PoolTyped'
  BY <1>4 DEF ConnectReturns
<1>5. ASSUME NEW d \in D, AddStart(d) PROVE PoolTyped'
  BY <1>5 DEF AddStart
<1>6. ASSUME NEW d \in D, AddFails(d) PROVE PoolTyped'
  BY <1>6 DEF AddFails
<1>7. ASSUME NEW d \in D, AddInsert(d) PROVE PoolTyped'
  BY <1>7 DEF AddInsert
<1>8. ASSUME NEW d \in D, RemoveClose(d) PROVE PoolTyped'
  BY <1>8 DEF RemoveClose
<1>9. ASSUME UserCloses PROVE PoolTyped'
  BY <1>9 DEF UserCloses, Call
<1>10. ASSUME CloseSweep PROVE PoolTyped'
  BY <1>10 DEF CloseSweep
<1>11. ASSUME CloseNext PROVE PoolTyped'
  BY <1>11 DEF CloseNext
<1>12. ASSUME NEW w \in Loops \cup {"user"}, CloseReturns(w) PROVE PoolTyped'
  BY <1>12 DEF CloseReturns
<1>13. ASSUME NEW h \in H, AcceptStream(h) PROVE PoolTyped'
  BY <1>13 DEF AcceptStream
<1>14. ASSUME NEW h \in H, AcceptEnds(h) PROVE PoolTyped'
  BY <1>14 DEF AcceptEnds, Ends
<1>15. ASSUME NEW h \in H, AcceptFails(h) PROVE PoolTyped'
  <2>0. /\ Lost(h, "accept") /\ "accept" \in loops[h]
        /\ UNCHANGED <<connect, add, scaler, seen, left, cand, done>>
    BY <1>15 DEF AcceptFails
  <2>1. CASE h = Primary
    <3>1. Lost(Primary, "accept")
      BY <2>0, <2>1
    <3>2. /\ callers' = callers \cup {"accept"}
          /\ closing' = (IF closing = "no" THEN "flag" ELSE closing)
          /\ UNCHANGED <<toClose, byUser, primary, data, sess, removing>>
          /\ loops' = [loops EXCEPT ![Primary] = loops[Primary] \ {"accept"}]
      BY <3>1, LostPrimary
    <3>3. loops' \in [H -> SUBSET Loops]
      BY <3>2
    <3> QED
      BY <2>0, <2>1, <3>2, <3>3
  <2>2. CASE h \in D /\ h # Primary
    <3>1. /\ data' = data \ {h}
          /\ removing' = (IF h \in data THEN [removing EXCEPT ![h] = "accept"] ELSE removing)
          /\ UNCHANGED <<primary, sess, closing, toClose, callers, byUser>>
          /\ loops' = [loops EXCEPT ![h] = loops[h] \ {"accept"}]
      BY <2>0, <2>2, LostData
    <3> QED
      BY <2>0, <2>2, <3>1
  <2> QED
    BY <2>1, <2>2
<1>16. ASSUME NEW h \in H, WatchEnds(h) PROVE PoolTyped'
  BY <1>16 DEF WatchEnds, Ends
<1>17. ASSUME NEW h \in H, WatchFires(h) PROVE PoolTyped'
  <2>0. /\ Lost(h, "watch") /\ "watch" \in loops[h]
        /\ UNCHANGED <<connect, add, scaler, seen, left, cand, done>>
    BY <1>17 DEF WatchFires
  <2>1. CASE h = Primary
    <3>1. Lost(Primary, "watch")
      BY <2>0, <2>1
    <3>2. /\ callers' = callers \cup {"watch"}
          /\ closing' = (IF closing = "no" THEN "flag" ELSE closing)
          /\ UNCHANGED <<toClose, byUser, primary, data, sess, removing>>
          /\ loops' = [loops EXCEPT ![Primary] = loops[Primary] \ {"watch"}]
      BY <3>1, LostPrimary
    <3>3. loops' \in [H -> SUBSET Loops]
      BY <3>2
    <3> QED
      BY <2>0, <2>1, <3>2, <3>3
  <2>2. CASE h \in D /\ h # Primary
    <3>1. /\ data' = data \ {h}
          /\ removing' = (IF h \in data THEN [removing EXCEPT ![h] = "watch"] ELSE removing)
          /\ UNCHANGED <<primary, sess, closing, toClose, callers, byUser>>
          /\ loops' = [loops EXCEPT ![h] = loops[h] \ {"watch"}]
      BY <2>0, <2>2, LostData
    <3> QED
      BY <2>0, <2>2, <3>1
  <2> QED
    BY <2>1, <2>2
<1>18. ASSUME NEW h \in H, PingEnds(h) PROVE PoolTyped'
  BY <1>18 DEF PingEnds, Ends
<1>19. ASSUME NEW h \in H, PingFails(h) PROVE PoolTyped'
  <2>0. /\ Lost(h, "ping") /\ "ping" \in loops[h]
        /\ UNCHANGED <<connect, add, scaler, seen, left, cand, done>>
    BY <1>19 DEF PingFails
  <2>1. CASE h = Primary
    <3>1. Lost(Primary, "ping")
      BY <2>0, <2>1
    <3>2. /\ callers' = callers \cup {"ping"}
          /\ closing' = (IF closing = "no" THEN "flag" ELSE closing)
          /\ UNCHANGED <<toClose, byUser, primary, data, sess, removing>>
          /\ loops' = [loops EXCEPT ![Primary] = loops[Primary] \ {"ping"}]
      BY <3>1, LostPrimary
    <3>3. loops' \in [H -> SUBSET Loops]
      BY <3>2
    <3> QED
      BY <2>0, <2>1, <3>2, <3>3
  <2>2. CASE h \in D /\ h # Primary
    <3>1. /\ data' = data \ {h}
          /\ removing' = (IF h \in data THEN [removing EXCEPT ![h] = "ping"] ELSE removing)
          /\ UNCHANGED <<primary, sess, closing, toClose, callers, byUser>>
          /\ loops' = [loops EXCEPT ![h] = loops[h] \ {"ping"}]
      BY <2>0, <2>2, LostData
    <3> QED
      BY <2>0, <2>2, <3>1
  <2> QED
    BY <2>1, <2>2
<1>20. ASSUME NEW h \in H, StreamEnds(h) PROVE PoolTyped'
  BY <1>20 DEF StreamEnds
<1>21. ASSUME NEW h \in H, Silent(h) PROVE PoolTyped'
  BY <1>21 DEF Silent
<1>22. ASSUME NEW h \in H, SessionDies(h) PROVE PoolTyped'
  BY <1>22 DEF SessionDies
<1>23. ASSUME ScalerEnd PROVE PoolTyped'
  BY <1>23 DEF ScalerEnd, others
<1>24. ASSUME ScalerCount PROVE PoolTyped'
  <2>1. Count \in Nat
    BY CountNat
  <2> QED
    BY <1>24, <2>1 DEF ScalerCount, others
<1>25. ASSUME ScalerDecide PROVE PoolTyped'
  <2>1. seen < MaxSessions => Smaller(MaxBurst, MaxSessions - seen) \in Nat
    BY DEF Smaller
  <2>2. seen' \in Nat /\ left' \in Nat /\ scaler' \in {"tick", "add", "pick"}
    BY <1>25, <2>1 DEF ScalerDecide, Add, Burst, ScaleUp
  <2>3. UNCHANGED <<connect, primary, data, sess, add, loops, removing, closing, toClose,
                    callers, byUser, cand, done>>
    BY <1>25 DEF ScalerDecide, Add, others
  <2> QED
    BY <2>2, <2>3
<1>26. ASSUME ScalerAdd PROVE PoolTyped'
  <2>1. add' \in [D -> {"no", "start", "dial"}]
    <3>1. CASE \E d \in D : Unused(d)
      <4>1. PICK d \in D : add' = [add EXCEPT ![d] = "start"]
        BY <1>26, <3>1 DEF ScalerAdd
      <4> QED
        BY <4>1
    <3>2. CASE ~\E d \in D : Unused(d)
      BY <1>26, <3>2 DEF ScalerAdd
    <3> QED
      BY <3>1, <3>2
  <2> QED
    BY <1>26, <2>1 DEF ScalerAdd, others
<1>27. ASSUME ScalerDone PROVE PoolTyped'
  BY <1>27 DEF ScalerDone, others
<1>28. ASSUME ScalerPick PROVE PoolTyped'
  BY <1>28 DEF ScalerPick, others
<1>29. ASSUME ScalerRemove PROVE PoolTyped'
  BY <1>29 DEF ScalerRemove, others, TakeOut
<1>30. ASSUME WaitDone PROVE PoolTyped'
  BY <1>30 DEF WaitDone
<1>31. ASSUME UNCHANGED vars PROVE PoolTyped'
  BY <1>31 DEF vars
<1> QED
  BY <1>1, <1>2, <1>3, <1>4, <1>5, <1>6, <1>7, <1>8, <1>9, <1>10, <1>11, <1>12, <1>13,
     <1>14, <1>15, <1>16, <1>17, <1>18, <1>19, <1>20, <1>21, <1>22, <1>23, <1>24, <1>25,
     <1>26, <1>27, <1>28, <1>29, <1>30, <1>31 DEF Next, Connecting, Closing, Scaler, Adding, Accepting, Watching

LEMMA NextClose == PoolTyped /\ CloseOrder /\ [Next]_vars => CloseOrder'
<1> SUFFICES ASSUME PoolTyped, CloseOrder, [Next]_vars PROVE CloseOrder'
  OBVIOUS
<1> USE DEF PoolTyped, Loops, H, Primary, handles, work, close, scale, CloseOrder, Stopped
<1>1. ASSUME ConnectFails PROVE CloseOrder'
  BY <1>1 DEF ConnectFails
<1>2. ASSUME ConnectPrimary PROVE CloseOrder'
  BY <1>2 DEF ConnectPrimary
<1>3. ASSUME WarmUp PROVE CloseOrder'
  BY <1>3 DEF WarmUp
<1>4. ASSUME ConnectReturns PROVE CloseOrder'
  BY <1>4 DEF ConnectReturns
<1>5. ASSUME NEW d \in D, AddStart(d) PROVE CloseOrder'
  BY <1>5 DEF AddStart
<1>6. ASSUME NEW d \in D, AddFails(d) PROVE CloseOrder'
  BY <1>6 DEF AddFails
<1>7. ASSUME NEW d \in D, AddInsert(d) PROVE CloseOrder'
  BY <1>7 DEF AddInsert
<1>8. ASSUME NEW d \in D, RemoveClose(d) PROVE CloseOrder'
  BY <1>8 DEF RemoveClose
<1>9. ASSUME UserCloses PROVE CloseOrder'
  BY <1>9 DEF UserCloses, Call
<1>10. ASSUME CloseSweep PROVE CloseOrder'
  BY <1>10 DEF CloseSweep
<1>11. ASSUME CloseNext PROVE CloseOrder'
  BY <1>11 DEF CloseNext
<1>12. ASSUME NEW w \in Loops \cup {"user"}, CloseReturns(w) PROVE CloseOrder'
  BY <1>12 DEF CloseReturns
<1>13. ASSUME NEW h \in H, AcceptStream(h) PROVE CloseOrder'
  BY <1>13 DEF AcceptStream
<1>14. ASSUME NEW h \in H, AcceptEnds(h) PROVE CloseOrder'
  BY <1>14 DEF AcceptEnds, Ends
<1>15. ASSUME NEW h \in H, AcceptFails(h) PROVE CloseOrder'
  <2>0. /\ Lost(h, "accept") /\ "accept" \in loops[h]
        /\ UNCHANGED <<connect, add, scaler, seen, left, cand, done>>
    BY <1>15 DEF AcceptFails
  <2>1. CASE h = Primary
    <3>1. Lost(Primary, "accept")
      BY <2>0, <2>1
    <3>2. /\ callers' = callers \cup {"accept"}
          /\ closing' = (IF closing = "no" THEN "flag" ELSE closing)
          /\ UNCHANGED <<toClose, byUser, primary, data, sess, removing>>
          /\ loops' = [loops EXCEPT ![Primary] = loops[Primary] \ {"accept"}]
      BY <3>1, LostPrimary
    <3>3. loops[Primary] = {} => loops'[Primary] = {}
      BY <3>2
    <3> QED
      BY <2>0, <2>1, <3>2, <3>3
  <2>2. CASE h \in D /\ h # Primary
    <3>1. /\ data' = data \ {h}
          /\ removing' = (IF h \in data THEN [removing EXCEPT ![h] = "accept"] ELSE removing)
          /\ UNCHANGED <<primary, sess, closing, toClose, callers, byUser>>
          /\ loops' = [loops EXCEPT ![h] = loops[h] \ {"accept"}]
      BY <2>0, <2>2, LostData
    <3> QED
      BY <2>0, <2>2, <3>1
  <2> QED
    BY <2>1, <2>2
<1>16. ASSUME NEW h \in H, WatchEnds(h) PROVE CloseOrder'
  BY <1>16 DEF WatchEnds, Ends
<1>17. ASSUME NEW h \in H, WatchFires(h) PROVE CloseOrder'
  <2>0. /\ Lost(h, "watch") /\ "watch" \in loops[h]
        /\ UNCHANGED <<connect, add, scaler, seen, left, cand, done>>
    BY <1>17 DEF WatchFires
  <2>1. CASE h = Primary
    <3>1. Lost(Primary, "watch")
      BY <2>0, <2>1
    <3>2. /\ callers' = callers \cup {"watch"}
          /\ closing' = (IF closing = "no" THEN "flag" ELSE closing)
          /\ UNCHANGED <<toClose, byUser, primary, data, sess, removing>>
          /\ loops' = [loops EXCEPT ![Primary] = loops[Primary] \ {"watch"}]
      BY <3>1, LostPrimary
    <3>3. loops[Primary] = {} => loops'[Primary] = {}
      BY <3>2
    <3> QED
      BY <2>0, <2>1, <3>2, <3>3
  <2>2. CASE h \in D /\ h # Primary
    <3>1. /\ data' = data \ {h}
          /\ removing' = (IF h \in data THEN [removing EXCEPT ![h] = "watch"] ELSE removing)
          /\ UNCHANGED <<primary, sess, closing, toClose, callers, byUser>>
          /\ loops' = [loops EXCEPT ![h] = loops[h] \ {"watch"}]
      BY <2>0, <2>2, LostData
    <3> QED
      BY <2>0, <2>2, <3>1
  <2> QED
    BY <2>1, <2>2
<1>18. ASSUME NEW h \in H, PingEnds(h) PROVE CloseOrder'
  BY <1>18 DEF PingEnds, Ends
<1>19. ASSUME NEW h \in H, PingFails(h) PROVE CloseOrder'
  <2>0. /\ Lost(h, "ping") /\ "ping" \in loops[h]
        /\ UNCHANGED <<connect, add, scaler, seen, left, cand, done>>
    BY <1>19 DEF PingFails
  <2>1. CASE h = Primary
    <3>1. Lost(Primary, "ping")
      BY <2>0, <2>1
    <3>2. /\ callers' = callers \cup {"ping"}
          /\ closing' = (IF closing = "no" THEN "flag" ELSE closing)
          /\ UNCHANGED <<toClose, byUser, primary, data, sess, removing>>
          /\ loops' = [loops EXCEPT ![Primary] = loops[Primary] \ {"ping"}]
      BY <3>1, LostPrimary
    <3>3. loops[Primary] = {} => loops'[Primary] = {}
      BY <3>2
    <3> QED
      BY <2>0, <2>1, <3>2, <3>3
  <2>2. CASE h \in D /\ h # Primary
    <3>1. /\ data' = data \ {h}
          /\ removing' = (IF h \in data THEN [removing EXCEPT ![h] = "ping"] ELSE removing)
          /\ UNCHANGED <<primary, sess, closing, toClose, callers, byUser>>
          /\ loops' = [loops EXCEPT ![h] = loops[h] \ {"ping"}]
      BY <2>0, <2>2, LostData
    <3> QED
      BY <2>0, <2>2, <3>1
  <2> QED
    BY <2>1, <2>2
<1>20. ASSUME NEW h \in H, StreamEnds(h) PROVE CloseOrder'
  BY <1>20 DEF StreamEnds
<1>21. ASSUME NEW h \in H, Silent(h) PROVE CloseOrder'
  BY <1>21 DEF Silent
<1>22. ASSUME NEW h \in H, SessionDies(h) PROVE CloseOrder'
  BY <1>22 DEF SessionDies
<1>23. ASSUME ScalerEnd PROVE CloseOrder'
  BY <1>23 DEF ScalerEnd, others
<1>24. ASSUME ScalerCount PROVE CloseOrder'
  BY <1>24 DEF ScalerCount, others
<1>25. ASSUME ScalerDecide PROVE CloseOrder'
  BY <1>25 DEF ScalerDecide, others, Add, Burst, ScaleUp, ScaleDown, Smaller
<1>26. ASSUME ScalerAdd PROVE CloseOrder'
  BY <1>26 DEF ScalerAdd, others
<1>27. ASSUME ScalerDone PROVE CloseOrder'
  BY <1>27 DEF ScalerDone, others
<1>28. ASSUME ScalerPick PROVE CloseOrder'
  BY <1>28 DEF ScalerPick, others
<1>29. ASSUME ScalerRemove PROVE CloseOrder'
  BY <1>29 DEF ScalerRemove, others, TakeOut
<1>30. ASSUME WaitDone PROVE CloseOrder'
  BY <1>30 DEF WaitDone
<1>31. ASSUME UNCHANGED vars PROVE CloseOrder'
  BY <1>31 DEF vars
<1> QED
  BY <1>1, <1>2, <1>3, <1>4, <1>5, <1>6, <1>7, <1>8, <1>9, <1>10, <1>11, <1>12, <1>13,
     <1>14, <1>15, <1>16, <1>17, <1>18, <1>19, <1>20, <1>21, <1>22, <1>23, <1>24, <1>25,
     <1>26, <1>27, <1>28, <1>29, <1>30, <1>31 DEF Next, Connecting, Closing, Scaler, Adding, Accepting, Watching

LEMMA NextOwned == PoolTyped /\ CloseOrder /\ OpenIsOwned /\ [Next]_vars => OpenIsOwned'
<1> SUFFICES ASSUME PoolTyped, CloseOrder, OpenIsOwned, [Next]_vars PROVE OpenIsOwned'
  OBVIOUS
<1> USE DEF PoolTyped, Loops, H, Primary, handles, work, close, scale, CloseOrder, OpenIsOwned
<1>1. ASSUME ConnectFails PROVE OpenIsOwned'
  BY <1>1 DEF ConnectFails
<1>2. ASSUME ConnectPrimary PROVE OpenIsOwned'
  BY <1>2 DEF ConnectPrimary
<1>3. ASSUME WarmUp PROVE OpenIsOwned'
  BY <1>3 DEF WarmUp
<1>4. ASSUME ConnectReturns PROVE OpenIsOwned'
  BY <1>4 DEF ConnectReturns
<1>5. ASSUME NEW d \in D, AddStart(d) PROVE OpenIsOwned'
  BY <1>5 DEF AddStart
<1>6. ASSUME NEW d \in D, AddFails(d) PROVE OpenIsOwned'
  BY <1>6 DEF AddFails
<1>7. ASSUME NEW d \in D, AddInsert(d) PROVE OpenIsOwned'
  BY <1>7 DEF AddInsert
<1>8. ASSUME NEW d \in D, RemoveClose(d) PROVE OpenIsOwned'
  BY <1>8 DEF RemoveClose
<1>9. ASSUME UserCloses PROVE OpenIsOwned'
  BY <1>9 DEF UserCloses, Call
<1>10. ASSUME CloseSweep PROVE OpenIsOwned'
  BY <1>10 DEF CloseSweep
<1>11. ASSUME CloseNext PROVE OpenIsOwned'
  BY <1>11 DEF CloseNext
<1>12. ASSUME NEW w \in Loops \cup {"user"}, CloseReturns(w) PROVE OpenIsOwned'
  BY <1>12 DEF CloseReturns
<1>13. ASSUME NEW h \in H, AcceptStream(h) PROVE OpenIsOwned'
  BY <1>13 DEF AcceptStream
<1>14. ASSUME NEW h \in H, AcceptEnds(h) PROVE OpenIsOwned'
  BY <1>14 DEF AcceptEnds, Ends
<1>15. ASSUME NEW h \in H, AcceptFails(h) PROVE OpenIsOwned'
  BY <1>15 DEF AcceptFails, Lost, Ends, Call, TakeOut
<1>16. ASSUME NEW h \in H, WatchEnds(h) PROVE OpenIsOwned'
  BY <1>16 DEF WatchEnds, Ends
<1>17. ASSUME NEW h \in H, WatchFires(h) PROVE OpenIsOwned'
  BY <1>17 DEF WatchFires, Lost, Ends, Call, TakeOut
<1>18. ASSUME NEW h \in H, PingEnds(h) PROVE OpenIsOwned'
  BY <1>18 DEF PingEnds, Ends
<1>19. ASSUME NEW h \in H, PingFails(h) PROVE OpenIsOwned'
  BY <1>19 DEF PingFails, Lost, Ends, Call, TakeOut
<1>20. ASSUME NEW h \in H, StreamEnds(h) PROVE OpenIsOwned'
  BY <1>20 DEF StreamEnds
<1>21. ASSUME NEW h \in H, Silent(h) PROVE OpenIsOwned'
  BY <1>21 DEF Silent
<1>22. ASSUME NEW h \in H, SessionDies(h) PROVE OpenIsOwned'
  BY <1>22 DEF SessionDies
<1>23. ASSUME ScalerEnd PROVE OpenIsOwned'
  BY <1>23 DEF ScalerEnd, others
<1>24. ASSUME ScalerCount PROVE OpenIsOwned'
  BY <1>24 DEF ScalerCount, others
<1>25. ASSUME ScalerDecide PROVE OpenIsOwned'
  BY <1>25 DEF ScalerDecide, others, Add, Burst, ScaleUp, ScaleDown, Smaller
<1>26. ASSUME ScalerAdd PROVE OpenIsOwned'
  BY <1>26 DEF ScalerAdd, others
<1>27. ASSUME ScalerDone PROVE OpenIsOwned'
  BY <1>27 DEF ScalerDone, others
<1>28. ASSUME ScalerPick PROVE OpenIsOwned'
  BY <1>28 DEF ScalerPick, others
<1>29. ASSUME ScalerRemove PROVE OpenIsOwned'
  BY <1>29 DEF ScalerRemove, others, TakeOut
<1>30. ASSUME WaitDone PROVE OpenIsOwned'
  BY <1>30 DEF WaitDone
<1>31. ASSUME UNCHANGED vars PROVE OpenIsOwned'
  BY <1>31 DEF vars
<1> QED
  BY <1>1, <1>2, <1>3, <1>4, <1>5, <1>6, <1>7, <1>8, <1>9, <1>10, <1>11, <1>12, <1>13,
     <1>14, <1>15, <1>16, <1>17, <1>18, <1>19, <1>20, <1>21, <1>22, <1>23, <1>24, <1>25,
     <1>26, <1>27, <1>28, <1>29, <1>30, <1>31 DEF Next, Connecting, Closing, Scaler, Adding, Accepting, Watching

LEMMA NextWait == PoolTyped /\ CloseOrder /\ OpenIsOwned /\ WaitAfterClose /\ [Next]_vars => WaitAfterClose'
<1> SUFFICES ASSUME PoolTyped, CloseOrder, OpenIsOwned, WaitAfterClose, [Next]_vars PROVE WaitAfterClose'
  OBVIOUS
<1> USE DEF PoolTyped, Loops, H, Primary, handles, work, close, scale, CloseOrder, OpenIsOwned, WaitAfterClose, Stopped
<1>1. ASSUME ConnectFails PROVE WaitAfterClose'
  BY <1>1 DEF ConnectFails
<1>2. ASSUME ConnectPrimary PROVE WaitAfterClose'
  BY <1>2 DEF ConnectPrimary
<1>3. ASSUME WarmUp PROVE WaitAfterClose'
  BY <1>3 DEF WarmUp
<1>4. ASSUME ConnectReturns PROVE WaitAfterClose'
  BY <1>4 DEF ConnectReturns
<1>5. ASSUME NEW d \in D, AddStart(d) PROVE WaitAfterClose'
  BY <1>5 DEF AddStart
<1>6. ASSUME NEW d \in D, AddFails(d) PROVE WaitAfterClose'
  BY <1>6 DEF AddFails
<1>7. ASSUME NEW d \in D, AddInsert(d) PROVE WaitAfterClose'
  BY <1>7 DEF AddInsert
<1>8. ASSUME NEW d \in D, RemoveClose(d) PROVE WaitAfterClose'
  BY <1>8 DEF RemoveClose
<1>9. ASSUME UserCloses PROVE WaitAfterClose'
  BY <1>9 DEF UserCloses, Call
<1>10. ASSUME CloseSweep PROVE WaitAfterClose'
  BY <1>10 DEF CloseSweep
<1>11. ASSUME CloseNext PROVE WaitAfterClose'
  BY <1>11 DEF CloseNext
<1>12. ASSUME NEW w \in Loops \cup {"user"}, CloseReturns(w) PROVE WaitAfterClose'
  BY <1>12 DEF CloseReturns
<1>13. ASSUME NEW h \in H, AcceptStream(h) PROVE WaitAfterClose'
  BY <1>13 DEF AcceptStream
<1>14. ASSUME NEW h \in H, AcceptEnds(h) PROVE WaitAfterClose'
  BY <1>14 DEF AcceptEnds, Ends
<1>15. ASSUME NEW h \in H, AcceptFails(h) PROVE WaitAfterClose'
  BY <1>15 DEF AcceptFails, Lost, Ends, Call, TakeOut
<1>16. ASSUME NEW h \in H, WatchEnds(h) PROVE WaitAfterClose'
  BY <1>16 DEF WatchEnds, Ends
<1>17. ASSUME NEW h \in H, WatchFires(h) PROVE WaitAfterClose'
  BY <1>17 DEF WatchFires, Lost, Ends, Call, TakeOut
<1>18. ASSUME NEW h \in H, PingEnds(h) PROVE WaitAfterClose'
  BY <1>18 DEF PingEnds, Ends
<1>19. ASSUME NEW h \in H, PingFails(h) PROVE WaitAfterClose'
  BY <1>19 DEF PingFails, Lost, Ends, Call, TakeOut
<1>20. ASSUME NEW h \in H, StreamEnds(h) PROVE WaitAfterClose'
  BY <1>20 DEF StreamEnds
<1>21. ASSUME NEW h \in H, Silent(h) PROVE WaitAfterClose'
  BY <1>21 DEF Silent
<1>22. ASSUME NEW h \in H, SessionDies(h) PROVE WaitAfterClose'
  BY <1>22 DEF SessionDies
<1>23. ASSUME ScalerEnd PROVE WaitAfterClose'
  BY <1>23 DEF ScalerEnd, others
<1>24. ASSUME ScalerCount PROVE WaitAfterClose'
  BY <1>24 DEF ScalerCount, others
<1>25. ASSUME ScalerDecide PROVE WaitAfterClose'
  BY <1>25 DEF ScalerDecide, others, Add, Burst, ScaleUp, ScaleDown, Smaller
<1>26. ASSUME ScalerAdd PROVE WaitAfterClose'
  BY <1>26 DEF ScalerAdd, others
<1>27. ASSUME ScalerDone PROVE WaitAfterClose'
  BY <1>27 DEF ScalerDone, others
<1>28. ASSUME ScalerPick PROVE WaitAfterClose'
  BY <1>28 DEF ScalerPick, others
<1>29. ASSUME ScalerRemove PROVE WaitAfterClose'
  BY <1>29 DEF ScalerRemove, others, TakeOut
<1>30. ASSUME WaitDone PROVE WaitAfterClose'
  <2>1. byUser = FALSE => closing = "done"
    <3>1. callers \subseteq {"user"} /\ closing # "no"
      BY <1>30 DEF WaitDone
    <3>2. byUser = FALSE => callers = {}
      BY <3>1
    <3> QED
      BY <3>1, <3>2
  <2>2. byUser = FALSE => sess[Primary] = "closed"
    BY <1>30, <2>1 DEF WaitDone
  <2> QED
    BY <1>30, <2>1, <2>2 DEF WaitDone
<1>31. ASSUME UNCHANGED vars PROVE WaitAfterClose'
  BY <1>31 DEF vars
<1> QED
  BY <1>1, <1>2, <1>3, <1>4, <1>5, <1>6, <1>7, <1>8, <1>9, <1>10, <1>11, <1>12, <1>13,
     <1>14, <1>15, <1>16, <1>17, <1>18, <1>19, <1>20, <1>21, <1>22, <1>23, <1>24, <1>25,
     <1>26, <1>27, <1>28, <1>29, <1>30, <1>31 DEF Next, Connecting, Closing, Scaler, Adding, Accepting, Watching

\* What PoolBound counts.
LEMMA PoolCounts ==
    PoolTyped => /\ IsFiniteSet(data) /\ IsFiniteSet(BeingAdded)
                 /\ Cardinality(data) \in Nat /\ Cardinality(BeingAdded) \in Nat
                 /\ Count \in Nat /\ left \in Nat
<1> SUFFICES ASSUME PoolTyped
             PROVE /\ IsFiniteSet(data) /\ IsFiniteSet(BeingAdded)
                   /\ Cardinality(data) \in Nat /\ Cardinality(BeingAdded) \in Nat
                   /\ Count \in Nat /\ left \in Nat
  OBVIOUS
<1>1. IsFiniteSet(data) /\ Cardinality(data) \in Nat /\ Count \in Nat
  BY CountNat DEF PoolTyped
<1>2. IsFiniteSet(BeingAdded)
  BY FS_Subset DEF BeingAdded
<1>3. Cardinality(BeingAdded) \in Nat
  BY <1>2, FS_CardinalityType
<1> QED
  BY <1>1, <1>2, <1>3 DEF PoolTyped

\* A step that only takes sessions away leaves no more of them.
LEMMA CountShrinks ==
    PoolTyped /\ PoolTyped' /\ data' \subseteq data /\ (primary' => primary) => Count' <= Count
<1> SUFFICES ASSUME PoolTyped, PoolTyped', data' \subseteq data, primary' => primary
             PROVE Count' <= Count
  OBVIOUS
<1>1. IsFiniteSet(data) /\ Cardinality(data) \in Nat
  BY PoolCounts
<1>2. Cardinality(data') <= Cardinality(data) /\ Cardinality(data') \in Nat
  BY <1>1, FS_Subset, FS_CardinalityType
<1> QED
  BY <1>1, <1>2 DEF Count, PoolTyped

LEMMA Room ==
    ASSUME NEW a \in Nat, NEW b \in Nat, NEW c \in Nat, NEW d \in Nat, a <= b, c <= d - b
    PROVE a + c <= d
OBVIOUS

LEMMA NoneBetween ==
    ASSUME NEW a \in Nat, NEW b \in Nat, NEW c \in Nat, NEW d \in Nat, b = 0, a + c <= d
    PROVE a + b + c <= d
OBVIOUS

LEMMA BoundShrinks ==
    /\ PoolTyped /\ PoolTyped' /\ PoolBound
    /\ data' \subseteq data /\ (primary' => primary)
    /\ BeingAdded' \subseteq BeingAdded /\ left' <= left
    => PoolBound'
<1> SUFFICES ASSUME PoolTyped, PoolTyped', PoolBound, data' \subseteq data, primary' => primary,
                    BeingAdded' \subseteq BeingAdded, left' <= left
             PROVE PoolBound'
  OBVIOUS
<1>1. Count' <= Count
  BY CountShrinks
<1>2. /\ Count \in Nat /\ left \in Nat /\ IsFiniteSet(BeingAdded)
      /\ Cardinality(BeingAdded) \in Nat
  BY PoolCounts
<1>3. Cardinality(BeingAdded') <= Cardinality(BeingAdded) /\ Cardinality(BeingAdded') \in Nat
  BY <1>2, FS_Subset, FS_CardinalityType
<1>4. Count' \in Nat
  <2>1. IsFiniteSet(data') /\ Cardinality(data') \in Nat
    BY <1>2, PoolCounts, FS_Subset, FS_CardinalityType
  <2> QED
    BY <2>1 DEF Count
<1>5. Count + Cardinality(BeingAdded) + left <= MaxSessions
  BY DEF PoolBound, BeingAdded
<1>6. Count' + Cardinality(BeingAdded') + left' <= MaxSessions
  BY <1>1, <1>2, <1>3, <1>4, <1>5 DEF PoolTyped
<1> QED
  BY <1>6 DEF PoolBound, BeingAdded

\* A step that leaves the scaler and Connect where they are and adds nothing.
LEMMA QuietStep ==
    /\ PoolTyped /\ PoolTyped' /\ ScalerOrder /\ PoolBound
    /\ data' \subseteq data /\ (primary' => primary) /\ BeingAdded' \subseteq BeingAdded
    /\ UNCHANGED <<connect, scaler, seen, left>>
    => ScalerOrder' /\ PoolBound'
<1> SUFFICES ASSUME PoolTyped, PoolTyped', ScalerOrder, PoolBound,
                    data' \subseteq data, primary' => primary, BeingAdded' \subseteq BeingAdded,
                    UNCHANGED <<connect, scaler, seen, left>>
             PROVE ScalerOrder' /\ PoolBound'
  OBVIOUS
<1>1. PoolBound'
  BY BoundShrinks DEF PoolTyped
<1>2. Count' <= Count /\ Count \in Nat
  BY CountShrinks, PoolCounts
<1>3. Count' \in Nat
  <2>1. IsFiniteSet(data') /\ Cardinality(data') \in Nat
    BY PoolCounts, FS_Subset, FS_CardinalityType
  <2> QED
    BY <2>1 DEF Count
<1>4. scaler' = "count" => Count' <= seen'
  BY <1>2, <1>3 DEF ScalerOrder, PoolTyped
<1>5. ScalerOrder'
  BY <1>4 DEF ScalerOrder
<1> QED
  BY <1>1, <1>5

\* A step that leaves the pool as it is.
LEMMA SamePool ==
    UNCHANGED <<primary, data, add>> => Count' = Count /\ BeingAdded' = BeingAdded
BY DEF Count, BeingAdded

PoolInv == ScalerOrder /\ PoolBound

LEMMA NextPool == PoolTyped /\ PoolTyped' /\ PoolInv /\ [Next]_vars => PoolInv'
<1> SUFFICES ASSUME PoolTyped, PoolTyped', PoolInv, [Next]_vars PROVE PoolInv'
  OBVIOUS
<1> USE DEF PoolInv, Loops, H, Primary, handles, work, close, scale
<1>1. ASSUME ConnectFails PROVE PoolInv'
  <2>1. UNCHANGED <<primary, data, add, scaler, seen, left>> /\ connect = "new" /\ connect' = "failed"
    BY <1>1 DEF ConnectFails
  <2>2. Count' = Count /\ BeingAdded' = BeingAdded
    BY <2>1, SamePool
  <2>3. PoolBound'
    BY <2>1, <2>2, BoundShrinks DEF PoolTyped
  <2>4. ScalerOrder'
    BY <2>1, <2>2 DEF ScalerOrder
  <2> QED
    BY <2>3, <2>4
<1>2. ASSUME ConnectPrimary PROVE PoolInv'
  <2>1. /\ UNCHANGED <<data, add, scaler, seen, left>> /\ connect = "new" /\ connect' = "up"
        /\ primary' = TRUE /\ BeingAdded' = BeingAdded
    BY <1>2 DEF ConnectPrimary, BeingAdded
  <2>2. scaler = "none" /\ left = 0 /\ data = {} /\ BeingAdded = {}
    BY <2>1 DEF ScalerOrder
  <2>3. Cardinality({}) = 0
    BY FS_EmptySet
  <2>4. Count' + Cardinality(BeingAdded') + left' <= MaxSessions
    BY <2>1, <2>2, <2>3 DEF Count
  <2>5. PoolBound'
    BY <2>4 DEF PoolBound, BeingAdded
  <2>6. ScalerOrder'
    BY <2>1, <2>2 DEF ScalerOrder
  <2> QED
    BY <2>5, <2>6
<1>3. ASSUME WarmUp PROVE PoolInv'
  <2>1. PICK new \in SUBSET D :
            /\ Cardinality(new) = IF Stopped THEN 0 ELSE Larger(InitialSessions - Count, 0)
            /\ add' = [d \in D |-> IF d \in new THEN "start" ELSE add[d]]
    BY <1>3 DEF WarmUp
  <2>2. /\ UNCHANGED <<primary, data, scaler, seen, left>> /\ connect = "up" /\ connect' = "warm"
    BY <1>3 DEF WarmUp
  <2>3. scaler = "none" /\ left = 0 /\ BeingAdded = {}
    BY <2>2 DEF ScalerOrder
  <2>4. BeingAdded' = new
    BY <2>1, <2>3 DEF BeingAdded
  <2>5. Count' = Count /\ Count \in Nat
    BY <2>2, PoolCounts DEF Count
  <2>6. Count <= MaxSessions
    BY <2>3, <2>5, FS_EmptySet DEF PoolBound, BeingAdded
  <2>7. Cardinality(new) = 0 \/ Cardinality(new) = InitialSessions - Count
    BY <2>1 DEF Larger
  <2>8. Count' + Cardinality(BeingAdded') + left' <= MaxSessions
    BY <2>2, <2>3, <2>4, <2>5, <2>6, <2>7
  <2>9. PoolBound'
    BY <2>8 DEF PoolBound, BeingAdded
  <2>10. ScalerOrder'
    BY <2>2, <2>3 DEF ScalerOrder
  <2> QED
    BY <2>9, <2>10
<1>4. ASSUME ConnectReturns PROVE PoolInv'
  <2>1. /\ UNCHANGED <<primary, data, add, left>> /\ connect' = "running"
        /\ scaler' = scaler \/ scaler' = "tick"
    BY <1>4 DEF ConnectReturns
  <2>2. Count' = Count /\ BeingAdded' = BeingAdded
    BY <2>1, SamePool
  <2>3. scaler = "none" /\ left = 0 /\ BeingAdded = {}
    BY <1>4 DEF ConnectReturns, ScalerOrder, BeingAdded
  <2>4. PoolBound'
    BY <2>1, <2>2, <2>3, BoundShrinks DEF PoolTyped
  <2>5. ScalerOrder'
    BY <2>1, <2>2, <2>3 DEF ScalerOrder
  <2> QED
    BY <2>4, <2>5
<1>5. ASSUME NEW d \in D, AddStart(d) PROVE PoolInv'
  <2>1. /\ data' \subseteq data /\ (primary' => primary)
        /\ UNCHANGED <<connect, scaler, seen, left>>
    BY <1>5 DEF AddStart
  <2>2. BeingAdded' \subseteq BeingAdded
    BY <1>5 DEF AddStart, BeingAdded
  <2> QED
    BY <2>1, <2>2, QuietStep
<1>6. ASSUME NEW d \in D, AddFails(d) PROVE PoolInv'
  <2>1. /\ data' \subseteq data /\ (primary' => primary)
        /\ UNCHANGED <<connect, scaler, seen, left>>
    BY <1>6 DEF AddFails
  <2>2. BeingAdded' \subseteq BeingAdded
    BY <1>6 DEF AddFails, BeingAdded
  <2> QED
    BY <2>1, <2>2, QuietStep
<1>7. ASSUME NEW d \in D, AddInsert(d) PROVE PoolInv'
  <2>1. /\ UNCHANGED <<primary, connect, scaler, seen, left>>
        /\ add[d] = "dial" /\ data' = data \cup {d}
    BY <1>7 DEF AddInsert
  <2>2. d \in BeingAdded /\ BeingAdded' = BeingAdded \ {d}
    BY <1>7 DEF AddInsert, BeingAdded, PoolTyped
  <2>3. Cardinality(BeingAdded') = Cardinality(BeingAdded) - 1
    BY <2>2, PoolCounts, FS_RemoveElement
  <2>4. Cardinality(data') \in Nat /\ Cardinality(data') <= Cardinality(data) + 1
    <3>1. IsFiniteSet(data) /\ Cardinality(data) \in Nat
      BY PoolCounts
    <3> QED
      <4>1. \/ Cardinality(data \cup {d}) = Cardinality(data)
            \/ Cardinality(data \cup {d}) = Cardinality(data) + 1
        BY <3>1, FS_AddElement
      <4> QED
        BY <2>1, <3>1, <4>1
  <2>5. Count' \in Nat /\ Count' <= Count + 1
    BY <2>1, <2>4, PoolCounts DEF Count
  <2>6. Count' + Cardinality(BeingAdded') + left' <= MaxSessions
    <3>1. Count + Cardinality(BeingAdded) + left <= MaxSessions
      BY DEF PoolBound, BeingAdded
    <3> QED
      BY <2>1, <2>3, <2>5, <3>1, PoolCounts
  <2>7. PoolBound'
    BY <2>6 DEF PoolBound, BeingAdded
  <2>8. scaler = "add" \/ (scaler = "none" /\ connect = "warm")
    BY <2>2 DEF ScalerOrder
  <2>9. ScalerOrder'
    BY <2>1, <2>2, <2>8 DEF ScalerOrder
  <2> QED
    BY <2>7, <2>9
<1>8. ASSUME NEW d \in D, RemoveClose(d) PROVE PoolInv'
  <2>1. /\ data' \subseteq data /\ (primary' => primary)
        /\ UNCHANGED <<connect, scaler, seen, left>>
    BY <1>8 DEF RemoveClose
  <2>2. BeingAdded' \subseteq BeingAdded
    BY <1>8 DEF RemoveClose, BeingAdded
  <2> QED
    BY <2>1, <2>2, QuietStep
<1>9. ASSUME UserCloses PROVE PoolInv'
  <2>1. /\ data' \subseteq data /\ (primary' => primary)
        /\ UNCHANGED <<connect, scaler, seen, left>>
    BY <1>9 DEF UserCloses, Call
  <2>2. BeingAdded' \subseteq BeingAdded
    BY <1>9 DEF UserCloses, Call, BeingAdded
  <2> QED
    BY <2>1, <2>2, QuietStep
<1>10. ASSUME CloseSweep PROVE PoolInv'
  <2>1. /\ data' \subseteq data /\ (primary' => primary)
        /\ UNCHANGED <<connect, scaler, seen, left>>
    BY <1>10 DEF CloseSweep
  <2>2. BeingAdded' \subseteq BeingAdded
    BY <1>10 DEF CloseSweep, BeingAdded
  <2> QED
    BY <2>1, <2>2, QuietStep
<1>11. ASSUME CloseNext PROVE PoolInv'
  <2>1. /\ data' \subseteq data /\ (primary' => primary)
        /\ UNCHANGED <<connect, scaler, seen, left>>
    BY <1>11 DEF CloseNext
  <2>2. BeingAdded' \subseteq BeingAdded
    BY <1>11 DEF CloseNext, BeingAdded
  <2> QED
    BY <2>1, <2>2, QuietStep
<1>12. ASSUME NEW w \in Loops \cup {"user"}, CloseReturns(w) PROVE PoolInv'
  <2>1. /\ data' \subseteq data /\ (primary' => primary)
        /\ UNCHANGED <<connect, scaler, seen, left>>
    BY <1>12 DEF CloseReturns
  <2>2. BeingAdded' \subseteq BeingAdded
    BY <1>12 DEF CloseReturns, BeingAdded
  <2> QED
    BY <2>1, <2>2, QuietStep
<1>13. ASSUME NEW h \in H, AcceptStream(h) PROVE PoolInv'
  <2>1. /\ data' \subseteq data /\ (primary' => primary)
        /\ UNCHANGED <<connect, scaler, seen, left>>
    BY <1>13 DEF AcceptStream
  <2>2. BeingAdded' \subseteq BeingAdded
    BY <1>13 DEF AcceptStream, BeingAdded
  <2> QED
    BY <2>1, <2>2, QuietStep
<1>14. ASSUME NEW h \in H, AcceptEnds(h) PROVE PoolInv'
  <2>1. /\ data' \subseteq data /\ (primary' => primary)
        /\ UNCHANGED <<connect, scaler, seen, left>>
    BY <1>14 DEF AcceptEnds, Ends
  <2>2. BeingAdded' \subseteq BeingAdded
    BY <1>14 DEF AcceptEnds, Ends, BeingAdded
  <2> QED
    BY <2>1, <2>2, QuietStep
<1>15. ASSUME NEW h \in H, AcceptFails(h) PROVE PoolInv'
  <2>1. /\ data' \subseteq data /\ (primary' => primary)
        /\ UNCHANGED <<connect, scaler, seen, left>>
    BY <1>15 DEF AcceptFails, Lost, Ends, Call, TakeOut
  <2>2. BeingAdded' \subseteq BeingAdded
    BY <1>15 DEF AcceptFails, Lost, Ends, Call, TakeOut, BeingAdded
  <2> QED
    BY <2>1, <2>2, QuietStep
<1>16. ASSUME NEW h \in H, WatchEnds(h) PROVE PoolInv'
  <2>1. /\ data' \subseteq data /\ (primary' => primary)
        /\ UNCHANGED <<connect, scaler, seen, left>>
    BY <1>16 DEF WatchEnds, Ends
  <2>2. BeingAdded' \subseteq BeingAdded
    BY <1>16 DEF WatchEnds, Ends, BeingAdded
  <2> QED
    BY <2>1, <2>2, QuietStep
<1>17. ASSUME NEW h \in H, WatchFires(h) PROVE PoolInv'
  <2>1. /\ data' \subseteq data /\ (primary' => primary)
        /\ UNCHANGED <<connect, scaler, seen, left>>
    BY <1>17 DEF WatchFires, Lost, Ends, Call, TakeOut
  <2>2. BeingAdded' \subseteq BeingAdded
    BY <1>17 DEF WatchFires, Lost, Ends, Call, TakeOut, BeingAdded
  <2> QED
    BY <2>1, <2>2, QuietStep
<1>18. ASSUME NEW h \in H, PingEnds(h) PROVE PoolInv'
  <2>1. /\ data' \subseteq data /\ (primary' => primary)
        /\ UNCHANGED <<connect, scaler, seen, left>>
    BY <1>18 DEF PingEnds, Ends
  <2>2. BeingAdded' \subseteq BeingAdded
    BY <1>18 DEF PingEnds, Ends, BeingAdded
  <2> QED
    BY <2>1, <2>2, QuietStep
<1>19. ASSUME NEW h \in H, PingFails(h) PROVE PoolInv'
  <2>1. /\ data' \subseteq data /\ (primary' => primary)
        /\ UNCHANGED <<connect, scaler, seen, left>>
    BY <1>19 DEF PingFails, Lost, Ends, Call, TakeOut
  <2>2. BeingAdded' \subseteq BeingAdded
    BY <1>19 DEF PingFails, Lost, Ends, Call, TakeOut, BeingAdded
  <2> QED
    BY <2>1, <2>2, QuietStep
<1>20. ASSUME NEW h \in H, StreamEnds(h) PROVE PoolInv'
  <2>1. /\ data' \subseteq data /\ (primary' => primary)
        /\ UNCHANGED <<connect, scaler, seen, left>>
    BY <1>20 DEF StreamEnds
  <2>2. BeingAdded' \subseteq BeingAdded
    BY <1>20 DEF StreamEnds, BeingAdded
  <2> QED
    BY <2>1, <2>2, QuietStep
<1>21. ASSUME NEW h \in H, Silent(h) PROVE PoolInv'
  <2>1. /\ data' \subseteq data /\ (primary' => primary)
        /\ UNCHANGED <<connect, scaler, seen, left>>
    BY <1>21 DEF Silent
  <2>2. BeingAdded' \subseteq BeingAdded
    BY <1>21 DEF Silent, BeingAdded
  <2> QED
    BY <2>1, <2>2, QuietStep
<1>22. ASSUME NEW h \in H, SessionDies(h) PROVE PoolInv'
  <2>1. /\ data' \subseteq data /\ (primary' => primary)
        /\ UNCHANGED <<connect, scaler, seen, left>>
    BY <1>22 DEF SessionDies
  <2>2. BeingAdded' \subseteq BeingAdded
    BY <1>22 DEF SessionDies, BeingAdded
  <2> QED
    BY <2>1, <2>2, QuietStep
<1>23. ASSUME ScalerEnd PROVE PoolInv'
  <2>1. UNCHANGED <<primary, data, add>>
    BY <1>23 DEF ScalerEnd, others
  <2>2. Count' = Count /\ BeingAdded' = BeingAdded /\ Count \in Nat
    BY <2>1, SamePool, PoolCounts
  <2>3. /\ left' = left /\ connect' = connect /\ scaler \notin {"none"}
        /\ scaler' \notin {"none", "add", "count"} /\ left = 0 /\ BeingAdded = {}
    BY <1>23 DEF ScalerEnd, others, ScalerOrder
  <2>4. ScalerOrder'
    BY <2>1, <2>2, <2>3 DEF ScalerOrder
  <2>5. PoolBound'
    BY <2>1, <2>2, <2>3, BoundShrinks DEF PoolTyped
  <2> QED
    BY <2>4, <2>5
<1>24. ASSUME ScalerCount PROVE PoolInv'
  <2>1. UNCHANGED <<primary, data, add>>
    BY <1>24 DEF ScalerCount, others
  <2>2. Count' = Count /\ BeingAdded' = BeingAdded /\ Count \in Nat
    BY <2>1, SamePool, PoolCounts
  <2>3. UNCHANGED <<left, connect>> /\ scaler = "tick" /\ scaler' = "count" /\ seen' = Count
    BY <1>24 DEF ScalerCount, others
  <2>4. ScalerOrder'
    BY <2>2, <2>3 DEF ScalerOrder
  <2>5. PoolBound'
    BY <2>1, <2>2, <2>3, BoundShrinks DEF PoolTyped
  <2> QED
    BY <2>4, <2>5
<1>25. ASSUME ScalerDecide PROVE PoolInv'
  <2>1. UNCHANGED <<primary, data, add, connect>>
    BY <1>25 DEF ScalerDecide, others, Add
  <2>2. Count' = Count /\ BeingAdded' = BeingAdded /\ Count \in Nat
    BY <2>1, SamePool, PoolCounts
  <2>3. scaler = "count" /\ left = 0 /\ BeingAdded = {} /\ Count <= seen /\ connect = "running"
    BY <1>25 DEF ScalerDecide, ScalerOrder, PoolTyped
  <2>4. \/ scaler' = "add" /\ left' <= MaxSessions - seen
        \/ scaler' \in {"pick", "tick"} /\ left' = left
    <3>1. seen < MaxSessions => Smaller(MaxBurst, MaxSessions - seen) <= MaxSessions - seen
      BY DEF Smaller, PoolTyped
    <3> QED
      BY <1>25, <3>1 DEF ScalerDecide, Add, Burst, ScaleUp, PoolTyped
  <2>5. Cardinality(BeingAdded) = 0
    BY <2>3, FS_EmptySet
  <2>6. Count' + Cardinality(BeingAdded') + left' <= MaxSessions
    <3>1. left \in Nat /\ left' \in Nat /\ seen \in Nat
      BY DEF PoolTyped
    <3>2. Count + left' <= MaxSessions
      <4>1. CASE left' <= MaxSessions - seen
        <5>1. MaxSessions \in Nat
          BY DEF PoolClientAssumption
        <5>2. Count \in Nat /\ Count <= seen /\ seen \in Nat /\ left' \in Nat
          BY <2>2, <2>3, <3>1
        <5> QED
          BY <5>1, <5>2, <4>1, Room
      <4>2. CASE left' = left
        BY <2>2, <2>3, <2>5, <4>2 DEF PoolBound, BeingAdded
      <4> QED
        BY <2>4, <4>1, <4>2
    <3> QED
      <4>1. MaxSessions \in Nat /\ Count' \in Nat
        BY <2>2 DEF PoolClientAssumption
      <4>2. Cardinality(BeingAdded') = 0 /\ Cardinality(BeingAdded') \in Nat
        BY <2>2, <2>5
      <4>3. Count' + left' <= MaxSessions
        BY <2>2, <3>2
      <4> QED
        BY <3>1, <4>1, <4>2, <4>3, NoneBetween
  <2>7. PoolBound'
    BY <2>6 DEF PoolBound, BeingAdded
  <2>8. ScalerOrder'
    BY <2>1, <2>2, <2>3, <2>4 DEF ScalerOrder
  <2> QED
    BY <2>7, <2>8
<1>26. ASSUME ScalerAdd PROVE PoolInv'
  <2>1. /\ UNCHANGED <<primary, data, connect, scaler, seen>> /\ scaler = "add"
        /\ left' = left - 1 /\ left > 0 /\ BeingAdded = {}
    BY <1>26 DEF ScalerAdd, others, BeingAdded
  <2>2. \/ BeingAdded' = BeingAdded
        \/ \E d \in D : BeingAdded' = BeingAdded \cup {d}
    <3>1. CASE \E d \in D : Unused(d)
      <4>1. PICK d \in D : add' = [add EXCEPT ![d] = "start"]
        BY <1>26, <3>1 DEF ScalerAdd
      <4> QED
        BY <4>1 DEF BeingAdded, PoolTyped
    <3>2. CASE ~\E d \in D : Unused(d)
      BY <1>26, <3>2 DEF ScalerAdd, BeingAdded
    <3> QED
      BY <3>1, <3>2
  <2>3. Cardinality(BeingAdded') \in Nat /\ Cardinality(BeingAdded') <= Cardinality(BeingAdded) + 1
    <3>1. IsFiniteSet(BeingAdded) /\ Cardinality(BeingAdded) \in Nat
      BY PoolCounts
    <3>2. ASSUME NEW d \in D, BeingAdded' = BeingAdded \cup {d}
          PROVE  /\ Cardinality(BeingAdded') \in Nat
                 /\ Cardinality(BeingAdded') <= Cardinality(BeingAdded) + 1
      <4>1. \/ Cardinality(BeingAdded \cup {d}) = Cardinality(BeingAdded)
            \/ Cardinality(BeingAdded \cup {d}) = Cardinality(BeingAdded) + 1
        BY <3>1, FS_AddElement
      <4> QED
        BY <3>1, <3>2, <4>1
    <3> QED
      BY <2>2, <3>1, <3>2
  <2>4. Count' = Count
    BY <2>1 DEF Count
  <2>5. Count' + Cardinality(BeingAdded') + left' <= MaxSessions
    <3>1. Count + Cardinality(BeingAdded) + left <= MaxSessions
      BY DEF PoolBound, BeingAdded
    <3> QED
      BY <2>1, <2>3, <2>4, <3>1, PoolCounts
  <2>6. PoolBound'
    BY <2>5 DEF PoolBound, BeingAdded
  <2>7. ScalerOrder'
    BY <2>1 DEF ScalerOrder
  <2> QED
    BY <2>6, <2>7
<1>27. ASSUME ScalerDone PROVE PoolInv'
  <2>1. UNCHANGED <<primary, data, add>>
    BY <1>27 DEF ScalerDone, others
  <2>2. Count' = Count /\ BeingAdded' = BeingAdded /\ Count \in Nat
    BY <2>1, SamePool, PoolCounts
  <2>3. /\ left' = left /\ connect' = connect /\ scaler # "none" /\ scaler' = "tick"
    BY <1>27 DEF ScalerDone, others
  <2>4. left = 0 /\ BeingAdded = {}
    BY <1>27 DEF ScalerDone, ScalerOrder, BeingAdded
  <2>5. ScalerOrder'
    BY <2>2, <2>3, <2>4 DEF ScalerOrder
  <2>6. PoolBound'
    BY <2>1, <2>2, <2>3, BoundShrinks DEF PoolTyped
  <2> QED
    BY <2>5, <2>6
<1>28. ASSUME ScalerPick PROVE PoolInv'
  <2>1. UNCHANGED <<primary, data, add>>
    BY <1>28 DEF ScalerPick, others
  <2>2. Count' = Count /\ BeingAdded' = BeingAdded /\ Count \in Nat
    BY <2>1, SamePool, PoolCounts
  <2>3. /\ left' = left /\ connect' = connect /\ scaler \notin {"none"}
        /\ scaler' \notin {"none", "add", "count"} /\ left = 0 /\ BeingAdded = {}
    BY <1>28 DEF ScalerPick, others, ScalerOrder
  <2>4. ScalerOrder'
    BY <2>1, <2>2, <2>3 DEF ScalerOrder
  <2>5. PoolBound'
    BY <2>1, <2>2, <2>3, BoundShrinks DEF PoolTyped
  <2> QED
    BY <2>4, <2>5
<1>29. ASSUME ScalerRemove PROVE PoolInv'
  <2>1. /\ data' \subseteq data /\ (primary' => primary)
        /\ UNCHANGED <<connect, scaler, seen, left>>
    BY <1>29 DEF ScalerRemove, others, TakeOut
  <2>2. BeingAdded' \subseteq BeingAdded
    BY <1>29 DEF ScalerRemove, others, TakeOut, BeingAdded
  <2> QED
    BY <2>1, <2>2, QuietStep
<1>30. ASSUME WaitDone PROVE PoolInv'
  <2>1. /\ data' \subseteq data /\ (primary' => primary)
        /\ UNCHANGED <<connect, scaler, seen, left>>
    BY <1>30 DEF WaitDone
  <2>2. BeingAdded' \subseteq BeingAdded
    BY <1>30 DEF WaitDone, BeingAdded
  <2> QED
    BY <2>1, <2>2, QuietStep
<1>31. ASSUME UNCHANGED vars PROVE PoolInv'
  <2>1. /\ data' \subseteq data /\ (primary' => primary)
        /\ UNCHANGED <<connect, scaler, seen, left>>
    BY <1>31 DEF vars
  <2>2. BeingAdded' \subseteq BeingAdded
    BY <1>31 DEF vars, BeingAdded
  <2> QED
    BY <2>1, <2>2, QuietStep
<1> QED
  BY <1>1, <1>2, <1>3, <1>4, <1>5, <1>6, <1>7, <1>8, <1>9, <1>10, <1>11, <1>12, <1>13,
     <1>14, <1>15, <1>16, <1>17, <1>18, <1>19, <1>20, <1>21, <1>22, <1>23, <1>24, <1>25,
     <1>26, <1>27, <1>28, <1>29, <1>30, <1>31 DEF Next, Connecting, Closing, Scaler, Adding, Accepting, Watching

OwnedInv == PoolTyped /\ CloseOrder /\ OpenIsOwned /\ WaitAfterClose

LEMMA OwnedInvariant == Spec => []OwnedInv
<1>1. OwnedInv /\ [Next]_vars => OwnedInv'
  BY NextTyped, NextClose, NextOwned, NextWait DEF OwnedInv
<1> QED
  BY <1>1, InitPool, PTL DEF Spec, OwnedInv

PoolBoundInv == PoolTyped /\ PoolInv

LEMMA PoolBoundInvariant == Spec => []PoolBoundInv
<1>1. PoolBoundInv /\ [Next]_vars => PoolBoundInv'
  BY NextTyped, NextPool DEF PoolBoundInv
<1> QED
  BY <1>1, InitPool, PTL DEF Spec, PoolBoundInv, PoolInv

\* The pool, what is being dialled for it and what the scaler has still to add
\* never pass maxSessions, for every number of sessions, burst and capacity.
THEOREM PoolNeverTooLarge == Spec => []PoolBound
BY PoolBoundInvariant, PTL DEF PoolBoundInv, PoolInv

\* No session of the client is lost track of: whoever takes one from the map
\* closes it, or Close does.
THEOREM OpenSessionsOwned == Spec => []OpenIsOwned
BY OwnedInvariant, PTL DEF OwnedInv

\* The client is over, and may be connected anew, only when Close is.
THEOREM OverAfterClose == Spec => []WaitAfterClose
BY OwnedInvariant, PTL DEF OwnedInv
=============================================================================
