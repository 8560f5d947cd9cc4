----------------------------- MODULE ListenerProofs -----------------------------
(***************************************************************************)
(* Theorems about Listener for every set of connections and keys, every    *)
(* number of workers and every capacity of the queue.  What they say holds *)
(* as long as the queue never filled up; an overflow gives a connection a  *)
(* second handler and wg one Done too many.                                *)
(***************************************************************************)
EXTENDS Listener, SequenceTheorems, FiniteSetTheorems, TLAPS

USE ListenerAssumption

TCPConn == Conn \ WS

\* The values of what the proofs speak of.
ListenerTyped ==
    /\ queue \in Seq(TCPConn)
    /\ submit \in [TCPConn -> {"no", "send", "queued", "refused", "overflow", "panic"}]
    /\ acc \in {"check", "accept", "submit", "exit"} /\ (acc = "submit" => cur \in TCPConn)
    /\ run \in [Conn -> [{1, 2} ->
                  {"none", "upgraded", "handshake", "active", "deferred", "ended"}]]
    /\ table \in [Keys -> Conn \cup {None}]
    /\ wg \in Int /\ http \in BOOLEAN

Held(q) == {q[i] : i \in 1..Len(q)}
Distinct(q) == \A i, j \in 1..Len(q) : q[i] = q[j] => i = j

\* A connection has one handler: the pool's if Submit queued it, which starts
\* when a worker takes it, the accept loop's if Submit refused it.
OneHandler ==
    /\ Distinct(queue)
    /\ \A c \in Held(queue) : submit[c] = "queued" /\ run[c][1] = "none"
    /\ \A c \in TCPConn :
        /\ run[c][1] # "none" => submit[c] = "queued" /\ run[c][1] # "upgraded"
        /\ run[c][2] # "none" => submit[c] = "refused" /\ ~(acc = "submit" /\ cur = c)
    /\ \A c \in WS : run[c][2] = "none" /\ (c \notin arrived => run[c][1] = "none")

\* Those wg counts, besides the HTTP server and the accept loop: accepted
\* connections whose handler has not ended, and served WebSocket tunnels.
Owed(c) ==
    \/ Handling(c, 1) \/ Handling(c, 2)
    \/ /\ c \in TCPConn
       /\ \/ acc = "submit" /\ cur = c /\ submit[c] # "queued"
          \/ submit[c] = "queued" /\ run[c][1] = "none"
Owing == {c \in Conn : Owed(c)}
Account == wg - (IF http THEN 1 ELSE 0) - (IF acc = "exit" THEN 0 ELSE 1)
WgExact == Account = Cardinality(Owing)

\* Once Stop has waited, none of them is left or comes back but WebSocket
\* tunnels that were on their way.
AllGone ==
    stop \in {"pool", "groups", "done"} =>
        acc = "exit" /\ ~http /\ \A c \in TCPConn : ~Owed(c)

InTable ==
    \A c \in Conn : Alone(c) =>
        ((table[Key[c]] = c) <=> (run[c][1] = "active" \/ run[c][2] = "active"))

Steady == OneHandler /\ WgExact /\ AllGone /\ InTable
ListenerInv == ListenerTyped /\ (~Overflowed => Steady)

-----------------------------------------------------------------------------
(* The queue                                                               *)

LEMMA HeldAppend ==
    ASSUME NEW S, NEW q \in Seq(S), NEW d \in S, Distinct(q), d \notin Held(q)
    PROVE  Distinct(Append(q, d)) /\ Held(Append(q, d)) = Held(q) \cup {d}
<1> DEFINE n == Len(q)
           t == Append(q, d)
<1>1. n \in Nat /\ Len(t) = n + 1 /\ t[n + 1] = d /\ \A i \in 1..n : t[i] = q[i]
  BY AppendProperties, LenProperties
<1> HIDE DEF n, t
<1>2. \A i \in 1..(n + 1) : i \in 1..n \/ i = n + 1
  BY <1>1
<1>3. 1..n \subseteq 1..(n + 1) /\ n + 1 \in 1..(n + 1)
  BY <1>1
<1>4. Held(t) = Held(q) \cup {d}
  <2>1. Held(t) \subseteq Held(q) \cup {d}
    BY <1>1, <1>2 DEF Held, n
  <2>2. Held(q) \cup {d} \subseteq Held(t)
    BY <1>1, <1>3 DEF Held, n
  <2> QED
    BY <2>1, <2>2
<1>5. Distinct(t)
  BY <1>1, <1>2 DEF Distinct, Held, n
<1> QED
  BY <1>4, <1>5 DEF t

LEMMA HeldTail ==
    ASSUME NEW S, NEW q \in Seq(S), Distinct(q), q # <<>>
    PROVE  /\ Distinct(Tail(q)) /\ Head(q) \in Held(q) /\ Head(q) \in S /\ Tail(q) \in Seq(S)
           /\ Held(Tail(q)) = Held(q) \ {Head(q)}
<1> DEFINE n == Len(q)
           t == Tail(q)
<1>1. /\ n \in Nat \ {0} /\ Len(t) = n - 1 /\ Head(q) = q[1] /\ \A i \in 1..(n - 1) : t[i] = q[i + 1]
      /\ Head(q) \in S /\ t \in Seq(S)
  <2>1. Len(t) = n - 1 /\ n \in Nat \ {0} /\ Head(q) \in S /\ t \in Seq(S) /\ Head(q) = q[1]
    BY HeadTailProperties, EmptySeq
  <2> QED
    BY <2>1, HeadTailProperties
<1> HIDE DEF n, t
<1>2. \A i \in 1..(n - 1) : i + 1 \in 1..n /\ i + 1 # 1 /\ t[i] = q[i + 1]
  BY <1>1
<1>3. \A i \in 1..n : i = 1 \/ (i - 1 \in 1..(n - 1) /\ t[i - 1] = q[i])
  BY <1>1
<1>4. 1 \in 1..n
  BY <1>1
<1>5. Distinct(t)
  <2> SUFFICES ASSUME NEW i \in 1..(n - 1), NEW j \in 1..(n - 1), t[i] = t[j] PROVE i = j
    BY <1>1 DEF Distinct
  <2>1. i + 1 = j + 1
    BY <1>2 DEF Distinct, n
  <2> QED
    BY <1>1, <2>1
<1>6. Head(q) \in Held(q) /\ Head(q) \notin Held(t)
  <2>1. Head(q) \in Held(q)
    BY <1>1, <1>4 DEF Held, n
  <2>2. ASSUME NEW i \in 1..(n - 1), t[i] = q[1] PROVE FALSE
    BY <1>2, <1>4, <2>2 DEF Distinct, n
  <2> QED
    BY <1>1, <2>1, <2>2 DEF Held
<1>7. Held(t) \subseteq Held(q)
  BY <1>1, <1>2 DEF Held, n
<1>8. Held(q) \subseteq Held(t) \cup {Head(q)}
  BY <1>1, <1>3 DEF Held, n
<1> QED
  BY <1>1, <1>5, <1>6, <1>7, <1>8 DEF t

-----------------------------------------------------------------------------
(* Types                                                                   *)

LEMMA InitListenerTyped == Init => ListenerTyped
<1> SUFFICES ASSUME Init PROVE ListenerTyped
  OBVIOUS
<1>1. queue \in Seq(TCPConn)
  BY DEF Init
<1> QED
  BY <1>1 DEF Init, ListenerTyped, TCPConn

LEMMA NextListenerTyped == ListenerTyped /\ [Next]_vars => ListenerTyped'
<1> SUFFICES ASSUME ListenerTyped, [Next]_vars PROVE ListenerTyped'
  OBVIOUS
<1> USE DEF ListenerTyped, poolVars
<1>1. ASSUME NEW c \in Conn, Arrive(c) PROVE ListenerTyped'
  BY <1>1 DEF Arrive
<1>2. ASSUME NEW c \in Conn, WSUpgrade(c) PROVE ListenerTyped'
  BY <1>2 DEF WSUpgrade
<1>3. ASSUME NEW c \in Conn, HandleWSConnection(c) PROVE ListenerTyped'
  BY <1>3 DEF HandleWSConnection, Start
<1>4. ASSUME AcceptCheck PROVE ListenerTyped'
  BY <1>4 DEF AcceptCheck
<1>5. ASSUME AcceptFails PROVE ListenerTyped'
  BY <1>5 DEF AcceptFails
<1>6. ASSUME AcceptSubmit PROVE ListenerTyped'
  <2>1. CASE Pool!SubmitCheck(cur) /\ UNCHANGED run
    BY <1>6, <2>1 DEF AcceptSubmit, Pool!SubmitCheck
  <2>2. CASE Pool!SubmitQueue(cur) /\ UNCHANGED run
    <3>1. queue' \in Seq(TCPConn)
      BY <1>6, <2>2, AppendProperties DEF AcceptSubmit, Pool!SubmitQueue
    <3> QED
      BY <1>6, <2>2, <3>1 DEF AcceptSubmit, Pool!SubmitQueue
  <2>3. CASE Pool!SubmitOverflow(cur) /\ Start(cur, 1)
    BY <1>6, <2>3 DEF AcceptSubmit, Pool!SubmitOverflow, Start, TCPConn
  <2> QED
    BY <1>6, <2>1, <2>2, <2>3 DEF AcceptSubmit
<1>7. ASSUME AcceptNext PROVE ListenerTyped'
  <2>1. run' = run \/ (cur \in Conn /\ run' = [run EXCEPT ![cur][2] = "handshake"])
    BY <1>7 DEF AcceptNext, Start, TCPConn
  <2>2. acc' = "check" /\ UNCHANGED <<poolVars, table, wg, http>>
    BY <1>7 DEF AcceptNext
  <2>3. run' \in [Conn -> [{1, 2} ->
                  {"none", "upgraded", "handshake", "active", "deferred", "ended"}]]
    BY <2>1
  <2> QED
    BY <2>2, <2>3
<1>8. ASSUME NEW c \in Conn, Accept(c) PROVE ListenerTyped'
  BY <1>8 DEF Accept, TCPConn
<1>9. ASSUME NEW w \in Worker, WorkerTakes(w) PROVE ListenerTyped'
  <2>1. Head(queue) \in TCPConn /\ Tail(queue) \in Seq(TCPConn)
    BY <1>9, HeadTailProperties DEF WorkerTakes, Pool!Take
  <2> QED
    BY <1>9, <2>1 DEF WorkerTakes, Pool!Take, Start, TCPConn
<1>10. ASSUME NEW w \in Worker, WorkerReturns(w) PROVE ListenerTyped'
  BY <1>10 DEF WorkerReturns, Pool!JobReturns
<1>11. ASSUME NEW w \in Worker, WorkerExits(w) PROVE ListenerTyped'
  BY <1>11 DEF WorkerExits, Pool!WorkerExit
<1>12. ASSUME NEW c \in Conn, DirectReturns(c) PROVE ListenerTyped'
  BY <1>12 DEF DirectReturns, Pool!DirectReturns
<1>13. ASSUME NEW c \in Conn, NEW k \in {1, 2}, HandshakeFails(c, k) PROVE ListenerTyped'
  BY <1>13 DEF HandshakeFails
<1>14. ASSUME NEW c \in Conn, NEW k \in {1, 2}, Register(c, k) PROVE ListenerTyped'
  BY <1>14 DEF Register, Keys
<1>15. ASSUME NEW c \in Conn, NEW k \in {1, 2}, HandleReturns(c, k) PROVE ListenerTyped'
  BY <1>15 DEF HandleReturns, Keys
<1>16. ASSUME NEW c \in Conn, NEW k \in {1, 2}, HandlerDone(c, k) PROVE ListenerTyped'
  BY <1>16 DEF HandlerDone
<1>17. ASSUME StopBegin PROVE ListenerTyped'
  BY <1>17 DEF StopBegin
<1>18. ASSUME StopHTTP PROVE ListenerTyped'
  BY <1>18 DEF StopHTTP
<1>19. ASSUME StopListener PROVE ListenerTyped'
  BY <1>19 DEF StopListener
<1>20. ASSUME StopSweep PROVE ListenerTyped'
  BY <1>20 DEF StopSweep
<1>21. ASSUME StopWait PROVE ListenerTyped'
  BY <1>21 DEF StopWait
<1>22. ASSUME StopPool PROVE ListenerTyped'
  BY <1>22 DEF StopPool, Pool!CloseFlag, Pool!CloseChan
<1>23. ASSUME StopPoolDone PROVE ListenerTyped'
  BY <1>23 DEF StopPoolDone, Pool!CloseReturn
<1>24. ASSUME StopGroups PROVE ListenerTyped'
  BY <1>24 DEF StopGroups
<1>25. ASSUME ServeReturns PROVE ListenerTyped'
  <2>1. http' = FALSE /\ wg' = wg - 1 /\ UNCHANGED <<poolVars, acc, cur, run, table>>
    BY <1>25 DEF ServeReturns
  <2>2. wg' \in Int
    BY <2>1
  <2>3. http' \in BOOLEAN
    BY <2>1, Zenon
  <2> QED
    BY <2>1, <2>2, <2>3
<1>26. ASSUME UNCHANGED vars PROVE ListenerTyped'
  BY <1>26 DEF vars
<1> QED
  BY <1>1, <1>2, <1>3, <1>4, <1>5, <1>6, <1>7, <1>8, <1>9, <1>10, <1>11, <1>12, <1>13,
     <1>14, <1>15, <1>16, <1>17, <1>18, <1>19, <1>20, <1>21, <1>22, <1>23, <1>24, <1>25,
     <1>26 DEF Next, AcceptLoop, Workers, StopStep

-----------------------------------------------------------------------------
(* The steps, by what they do to handlers, queue and wg                    *)

Late == {"pool", "groups", "done"}

\* Neither a handler nor the queue nor wg is concerned.
Idle ==
    /\ UNCHANGED <<queue, submit, cur, run, table, wg, http>>
    /\ arrived' \cap WS = arrived \cap WS
    /\ acc' = acc \/ {acc, acc'} \subseteq {"check", "accept"}
    /\ stop' = stop \/ stop' \notin Late \/ stop \in Late \/ wg = 0

\* The accept loop ends.
AcceptExits ==
    /\ acc \in {"check", "accept"} /\ acc' = "exit" /\ wg' = wg - 1
    /\ UNCHANGED <<queue, submit, cur, run, table, http, arrived, stop>>

ListenerMove ==
    \/ Idle \/ AcceptExits \/ ServeReturns \/ AcceptSubmit \/ AcceptNext
    \/ \E c \in Conn : Accept(c) \/ WSUpgrade(c) \/ HandleWSConnection(c)
    \/ \E w \in Worker : WorkerTakes(w)
    \/ \E c \in Conn, k \in {1, 2} :
        HandshakeFails(c, k) \/ Register(c, k) \/ HandleReturns(c, k) \/ HandlerDone(c, k)

LEMMA NextMove == [Next]_vars => ListenerMove
<1> SUFFICES ASSUME [Next]_vars PROVE ListenerMove
  OBVIOUS
<1>1. ASSUME NEW c \in Conn, Arrive(c) PROVE ListenerMove
  BY <1>1 DEF Arrive, ListenerMove, Idle, Late, poolVars
<1>2. ASSUME NEW c \in Conn, WSUpgrade(c) PROVE ListenerMove
  BY <1>2 DEF ListenerMove
<1>3. ASSUME NEW c \in Conn, HandleWSConnection(c) PROVE ListenerMove
  BY <1>3 DEF ListenerMove
<1>4. ASSUME AcceptCheck PROVE ListenerMove
  BY <1>4 DEF AcceptCheck, ListenerMove, AcceptExits, Idle, poolVars
<1>5. ASSUME AcceptFails PROVE ListenerMove
  BY <1>5 DEF AcceptFails, ListenerMove, AcceptExits, Idle, poolVars
<1>6. ASSUME AcceptSubmit PROVE ListenerMove
  BY <1>6 DEF ListenerMove
<1>7. ASSUME AcceptNext PROVE ListenerMove
  BY <1>7 DEF ListenerMove
<1>8. ASSUME NEW c \in Conn, Accept(c) PROVE ListenerMove
  BY <1>8 DEF ListenerMove
<1>9. ASSUME NEW w \in Worker, WorkerTakes(w) PROVE ListenerMove
  BY <1>9 DEF ListenerMove
<1>10. ASSUME NEW w \in Worker, WorkerReturns(w) PROVE ListenerMove
  BY <1>10 DEF WorkerReturns, Pool!JobReturns, ListenerMove, Idle, Late, poolVars
<1>11. ASSUME NEW w \in Worker, WorkerExits(w) PROVE ListenerMove
  BY <1>11 DEF WorkerExits, Pool!WorkerExit, ListenerMove, Idle, Late, poolVars
<1>12. ASSUME NEW c \in Conn, DirectReturns(c) PROVE ListenerMove
  BY <1>12 DEF DirectReturns, Pool!DirectReturns, ListenerMove, Idle, Late, poolVars
<1>13. ASSUME NEW c \in Conn, NEW k \in {1, 2}, HandshakeFails(c, k) PROVE ListenerMove
  BY <1>13 DEF ListenerMove
<1>14. ASSUME NEW c \in Conn, NEW k \in {1, 2}, Register(c, k) PROVE ListenerMove
  BY <1>14 DEF ListenerMove
<1>15. ASSUME NEW c \in Conn, NEW k \in {1, 2}, HandleReturns(c, k) PROVE ListenerMove
  BY <1>15 DEF ListenerMove
<1>16. ASSUME NEW c \in Conn, NEW k \in {1, 2}, HandlerDone(c, k) PROVE ListenerMove
  BY <1>16 DEF ListenerMove
<1>17. ASSUME StopBegin PROVE ListenerMove
  BY <1>17 DEF StopBegin, ListenerMove, Idle, Late, poolVars
<1>18. ASSUME StopHTTP PROVE ListenerMove
  BY <1>18 DEF StopHTTP, ListenerMove, Idle, Late, poolVars
<1>19. ASSUME StopListener PROVE ListenerMove
  BY <1>19 DEF StopListener, ListenerMove, Idle, Late, poolVars
<1>20. ASSUME StopSweep PROVE ListenerMove
  BY <1>20 DEF StopSweep, ListenerMove, Idle, Late, poolVars
<1>21. ASSUME StopWait PROVE ListenerMove
  BY <1>21 DEF StopWait, ListenerMove, Idle, Late, poolVars
<1>22. ASSUME StopPool PROVE ListenerMove
  BY <1>22 DEF StopPool, Pool!CloseFlag, Pool!CloseChan, ListenerMove, Idle, Late, poolVars
<1>23. ASSUME StopPoolDone PROVE ListenerMove
  BY <1>23 DEF StopPoolDone, Pool!CloseReturn, ListenerMove, Idle, Late, poolVars
<1>24. ASSUME StopGroups PROVE ListenerMove
  BY <1>24 DEF StopGroups, ListenerMove, Idle, Late, poolVars
<1>25. ASSUME ServeReturns PROVE ListenerMove
  BY <1>25 DEF ListenerMove
<1>26. ASSUME UNCHANGED vars PROVE ListenerMove
  BY <1>26 DEF vars, ListenerMove, Idle, Late, poolVars
<1> QED
  BY <1>1, <1>2, <1>3, <1>4, <1>5, <1>6, <1>7, <1>8, <1>9, <1>10, <1>11, <1>12, <1>13,
     <1>14, <1>15, <1>16, <1>17, <1>18, <1>19, <1>20, <1>21, <1>22, <1>23, <1>24, <1>25,
     <1>26 DEF Next, AcceptLoop, Workers, StopStep

LEMMA OverflowStays == ListenerTyped /\ Overflowed /\ ListenerMove => Overflowed'
<1> SUFFICES ASSUME ListenerTyped, Overflowed, ListenerMove PROVE Overflowed'
  OBVIOUS
<1> USE DEF Overflowed
<1>1. ASSUME Idle PROVE Overflowed'
  BY <1>1 DEF Idle, poolVars
<1>2. ASSUME AcceptExits PROVE Overflowed'
  BY <1>2 DEF AcceptExits, poolVars
<1>3. ASSUME ServeReturns PROVE Overflowed'
  BY <1>3 DEF ServeReturns, poolVars
<1>4. ASSUME AcceptSubmit PROVE Overflowed'
  <2>1. cur \in TCPConn
    BY <1>4 DEF AcceptSubmit, ListenerTyped
  <2>2. \E a : submit' = [submit EXCEPT ![cur] = a] /\ (submit[cur] = "overflow" => a = "overflow")
    BY <1>4 DEF AcceptSubmit, Pool!SubmitCheck, Pool!SubmitQueue, Pool!SubmitOverflow
  <2> QED
    BY <2>1, <2>2 DEF ListenerTyped, TCPConn
<1>5. ASSUME AcceptNext PROVE Overflowed'
  BY <1>5 DEF AcceptNext, poolVars
<1>6. ASSUME NEW c \in Conn, Accept(c) PROVE Overflowed'
  BY <1>6 DEF Accept, poolVars
<1>7. ASSUME NEW c \in Conn, WSUpgrade(c) PROVE Overflowed'
  BY <1>7 DEF WSUpgrade, poolVars
<1>8. ASSUME NEW c \in Conn, HandleWSConnection(c) PROVE Overflowed'
  BY <1>8 DEF HandleWSConnection, poolVars
<1>9. ASSUME NEW w \in Worker, WorkerTakes(w) PROVE Overflowed'
  BY <1>9 DEF WorkerTakes, Pool!Take
<1>10. ASSUME NEW c \in Conn, NEW k \in {1, 2}, HandshakeFails(c, k) PROVE Overflowed'
  BY <1>10 DEF HandshakeFails, poolVars
<1>11. ASSUME NEW c \in Conn, NEW k \in {1, 2}, Register(c, k) PROVE Overflowed'
  BY <1>11 DEF Register, poolVars
<1>12. ASSUME NEW c \in Conn, NEW k \in {1, 2}, HandleReturns(c, k) PROVE Overflowed'
  BY <1>12 DEF HandleReturns, poolVars
<1>13. ASSUME NEW c \in Conn, NEW k \in {1, 2}, HandlerDone(c, k) PROVE Overflowed'
  BY <1>13 DEF HandlerDone, poolVars
<1> QED
  BY <1>1, <1>2, <1>3, <1>4, <1>5, <1>6, <1>7, <1>8, <1>9, <1>10, <1>11, <1>12, <1>13 DEF ListenerMove

LEMMA NextOneHandler == ListenerTyped /\ ~Overflowed' /\ OneHandler /\ ListenerMove => OneHandler'
<1> SUFFICES ASSUME ListenerTyped, ~Overflowed', OneHandler, ListenerMove PROVE OneHandler'
  OBVIOUS
<1> USE DEF OneHandler
<1>1. ASSUME Idle PROVE OneHandler'
  BY <1>1 DEF Idle
<1>2. ASSUME AcceptExits PROVE OneHandler'
  BY <1>2 DEF AcceptExits
<1>3. ASSUME ServeReturns PROVE OneHandler'
  BY <1>3 DEF ServeReturns, poolVars
<1>4. ASSUME AcceptSubmit PROVE OneHandler'
  <2>1. CASE Pool!SubmitCheck(cur) /\ UNCHANGED run
    <3>1. submit[cur] = "no" /\ acc = "submit" /\ UNCHANGED <<queue, acc, cur, arrived>>
      BY <1>4, <2>1 DEF AcceptSubmit, Pool!SubmitCheck
    <3>2. \A c \in TCPConn : c # cur => submit'[c] = submit[c]
      BY <2>1 DEF Pool!SubmitCheck, ListenerTyped
    <3>3. cur \notin Held(queue) /\ run[cur][1] = "none" /\ run[cur][2] = "none"
      BY <3>1 DEF ListenerTyped
    <3>4. run' = run
      BY <2>1
    <3>5. \A c \in TCPConn : run[c][1] # "none" \/ run[c][2] # "none" => c # cur
      BY <3>3
    <3>6. \A c \in Held(queue) : c \in TCPConn /\ c # cur
      BY <3>3 DEF ListenerTyped, Held
    <3> QED
      BY <3>1, <3>2, <3>3, <3>4, <3>5, <3>6
  <2>2. CASE Pool!SubmitQueue(cur) /\ UNCHANGED run
    <3>1. /\ submit[cur] = "send" /\ submit' = [submit EXCEPT ![cur] = "queued"] /\ acc = "submit"
          /\ queue' = Append(queue, cur) /\ UNCHANGED <<acc, cur, arrived>>
      BY <1>4, <2>2 DEF AcceptSubmit, Pool!SubmitQueue
    <3>2. cur \in TCPConn /\ cur \notin Held(queue) /\ run[cur][1] = "none" /\ run[cur][2] = "none"
      BY <3>1 DEF ListenerTyped
    <3>3. Distinct(queue') /\ Held(queue') = Held(queue) \cup {cur}
      BY <3>1, <3>2, HeldAppend DEF ListenerTyped
    <3>4. submit'[cur] = "queued" /\ \A c \in TCPConn : c # cur => submit'[c] = submit[c]
      BY <3>1, <3>2 DEF ListenerTyped
    <3> QED
      BY <2>2, <3>1, <3>2, <3>3, <3>4
  <2>3. CASE Pool!SubmitOverflow(cur)
    <3>1. cur \in TCPConn /\ submit'[cur] = "overflow"
      BY <1>4, <2>3 DEF AcceptSubmit, Pool!SubmitOverflow, ListenerTyped
    <3> QED
      BY <3>1 DEF Overflowed, TCPConn
  <2> QED
    BY <1>4, <2>1, <2>2, <2>3 DEF AcceptSubmit
<1>5. ASSUME AcceptNext PROVE OneHandler'
  <2>1. /\ acc = "submit" /\ acc' = "check" /\ cur \in TCPConn /\ cur \in Conn
        /\ UNCHANGED <<queue, submit, arrived>>
    BY <1>5 DEF AcceptNext, poolVars, ListenerTyped, TCPConn
  <2>2. CASE submit[cur] = "queued"
    <3>1. run' = run
      BY <1>5, <2>2 DEF AcceptNext
    <3> QED
      BY <2>1, <3>1
  <2>3. CASE submit[cur] = "refused"
    <3>1. run' = [run EXCEPT ![cur][2] = "handshake"]
      BY <1>5, <2>3 DEF AcceptNext, Start
    <3>2. \A d \in Conn, j \in {1, 2} : run'[d][j] = IF d = cur /\ j = 2 THEN "handshake" ELSE run[d][j]
      BY <2>1, <3>1 DEF ListenerTyped
    <3>3. \A d \in TCPConn : d \in Conn /\ d \notin WS
      BY DEF TCPConn
    <3>4. \A d \in Held(queue) : d \in TCPConn
      BY <2>3 DEF ListenerTyped, Held
    <3> QED
      BY <2>1, <2>3, <3>2, <3>3, <3>4
  <2>4. CASE submit[cur] = "overflow"
    BY <2>1, <2>4 DEF Overflowed, TCPConn
  <2> QED
    BY <1>5, <2>2, <2>3, <2>4 DEF AcceptNext
<1>6. ASSUME NEW c \in Conn, Accept(c) PROVE OneHandler'
  <2>1. submit[c] = "no" /\ c \in TCPConn /\ acc' = "submit" /\ cur' = c /\ UNCHANGED <<queue, submit, run, arrived>>
    BY <1>6 DEF Accept, poolVars, TCPConn
  <2> QED
    BY <1>6, <2>1 DEF Accept
<1>7. ASSUME NEW c \in Conn, WSUpgrade(c) PROVE OneHandler'
  <2>1. /\ c \in WS /\ c \notin arrived /\ c \notin TCPConn /\ arrived' = arrived \cup {c}
        /\ UNCHANGED <<queue, submit, acc, cur>>
    BY <1>7 DEF WSUpgrade, poolVars, TCPConn
  <2>2. \A d \in Conn, j \in {1, 2} : run'[d][j] = IF d = c /\ j = 1 THEN "upgraded" ELSE run[d][j]
    BY <1>7 DEF WSUpgrade, ListenerTyped
  <2>3. (\A d \in Held(queue) : d \in TCPConn) /\ TCPConn \subseteq Conn /\ WS \subseteq Conn
    BY DEF ListenerTyped, Held, TCPConn
  <2> QED
    BY <2>1, <2>2, <2>3
<1>8. ASSUME NEW c \in Conn, HandleWSConnection(c) PROVE OneHandler'
  <2>1. run[c][1] = "upgraded" /\ UNCHANGED <<queue, submit, acc, cur, arrived>>
    BY <1>8 DEF HandleWSConnection, poolVars
  <2>2. \A d \in Conn, j \in {1, 2} : run'[d][j] = IF d = c /\ j = 1 THEN "handshake" ELSE run[d][j]
    BY <1>8 DEF HandleWSConnection, Start, ListenerTyped
  <2>3. (\A d \in Held(queue) : d \in TCPConn) /\ TCPConn \subseteq Conn /\ WS \subseteq Conn
    BY DEF ListenerTyped, Held, TCPConn
  <2>4. c \notin TCPConn
    BY <2>1
  <2> QED
    BY <2>1, <2>2, <2>3, <2>4
<1>9. ASSUME NEW w \in Worker, WorkerTakes(w) PROVE OneHandler'
  <2> DEFINE c == Head(queue)
  <2>1. queue # <<>> /\ queue' = Tail(queue) /\ UNCHANGED <<submit, acc, cur, arrived>>
    BY <1>9 DEF WorkerTakes, Pool!Take
  <2>2. /\ Distinct(queue') /\ c \in Held(queue) /\ c \in TCPConn /\ c \in Conn
        /\ Held(queue') = Held(queue) \ {c}
    BY <2>1, HeldTail DEF ListenerTyped, TCPConn
  <2>3. run' = [run EXCEPT ![c][1] = "handshake"]
    BY <1>9 DEF WorkerTakes, Start
  <2> HIDE DEF c
  <2>4. \A d \in Conn, j \in {1, 2} : run'[d][j] = IF d = c /\ j = 1 THEN "handshake" ELSE run[d][j]
    BY <2>2, <2>3 DEF ListenerTyped
  <2>5. (\A d \in Held(queue) : d \in TCPConn) /\ TCPConn \subseteq Conn /\ WS \subseteq Conn /\ c \notin WS
    BY <2>2 DEF ListenerTyped, Held, TCPConn
  <2> QED
    BY <2>1, <2>2, <2>4, <2>5
<1>10. ASSUME NEW c \in Conn, NEW k \in {1, 2}, HandshakeFails(c, k) PROVE OneHandler'
  <2>1. run[c][k] = "handshake" /\ UNCHANGED <<queue, submit, acc, cur, arrived>>
    BY <1>10 DEF HandshakeFails, poolVars
  <2>2. \A d \in Conn, j \in {1, 2} : run'[d][j] = IF d = c /\ j = k THEN "ended" ELSE run[d][j]
    BY <1>10 DEF HandshakeFails, ListenerTyped
  <2>3. (\A d \in Held(queue) : d \in TCPConn) /\ TCPConn \subseteq Conn /\ WS \subseteq Conn
    BY DEF ListenerTyped, Held, TCPConn
  <2> QED
    BY <2>1, <2>2, <2>3
<1>11. ASSUME NEW c \in Conn, NEW k \in {1, 2}, Register(c, k) PROVE OneHandler'
  <2>1. run[c][k] = "handshake" /\ UNCHANGED <<queue, submit, acc, cur, arrived>>
    BY <1>11 DEF Register, poolVars
  <2>2. \A d \in Conn, j \in {1, 2} : run'[d][j] = IF d = c /\ j = k THEN "active" ELSE run[d][j]
    BY <1>11 DEF Register, ListenerTyped
  <2>3. (\A d \in Held(queue) : d \in TCPConn) /\ TCPConn \subseteq Conn /\ WS \subseteq Conn
    BY DEF ListenerTyped, Held, TCPConn
  <2> QED
    BY <2>1, <2>2, <2>3
<1>12. ASSUME NEW c \in Conn, NEW k \in {1, 2}, HandleReturns(c, k) PROVE OneHandler'
  <2>1. run[c][k] = "active" /\ UNCHANGED <<queue, submit, acc, cur, arrived>>
    BY <1>12 DEF HandleReturns, poolVars
  <2>2. \A d \in Conn, j \in {1, 2} : run'[d][j] = IF d = c /\ j = k THEN "deferred" ELSE run[d][j]
    BY <1>12 DEF HandleReturns, ListenerTyped
  <2>3. (\A d \in Held(queue) : d \in TCPConn) /\ TCPConn \subseteq Conn /\ WS \subseteq Conn
    BY DEF ListenerTyped, Held, TCPConn
  <2> QED
    BY <2>1, <2>2, <2>3
<1>13. ASSUME NEW c \in Conn, NEW k \in {1, 2}, HandlerDone(c, k) PROVE OneHandler'
  <2>1. run[c][k] = "deferred" /\ UNCHANGED <<queue, submit, acc, cur, arrived>>
    BY <1>13 DEF HandlerDone, poolVars
  <2>2. \A d \in Conn, j \in {1, 2} : run'[d][j] = IF d = c /\ j = k THEN "ended" ELSE run[d][j]
    BY <1>13 DEF HandlerDone, ListenerTyped
  <2>3. (\A d \in Held(queue) : d \in TCPConn) /\ TCPConn \subseteq Conn /\ WS \subseteq Conn
    BY DEF ListenerTyped, Held, TCPConn
  <2> QED
    BY <2>1, <2>2, <2>3
<1> QED
  BY <1>1, <1>2, <1>3, <1>4, <1>5, <1>6, <1>7, <1>8, <1>9, <1>10, <1>11, <1>12, <1>13 DEF ListenerMove

-----------------------------------------------------------------------------
(* What wg counts                                                          *)

OwedStays == Account' = Account /\ \A c \in Conn : Owed(c)' <=> Owed(c)
OwesMore(c) ==
    /\ Account' = Account + 1 /\ ~Owed(c) /\ Owed(c)' /\ (c \in TCPConn => acc = "accept")
    /\ \A d \in Conn \ {c} : Owed(d)' <=> Owed(d)
OwesLess(c) ==
    /\ Account' = Account - 1 /\ Owed(c) /\ ~Owed(c)'
    /\ \A d \in Conn \ {c} : Owed(d)' <=> Owed(d)
AccountMove == OwedStays \/ \E c \in Conn : OwesMore(c) \/ OwesLess(c)

LEMMA NextAccount == ListenerTyped /\ OneHandler /\ ~Overflowed' /\ ListenerMove => AccountMove
<1> SUFFICES ASSUME ListenerTyped, OneHandler, ~Overflowed', ListenerMove PROVE AccountMove
  OBVIOUS
<1> USE DEF AccountMove
<1>1. ASSUME Idle PROVE AccountMove
  <2>1. Account' = Account
    BY <1>1 DEF Idle, Account
  <2>2. \A c \in Conn : Owed(c)' <=> Owed(c)
    BY <1>1 DEF Idle, Owed, Handling
  <2> QED
    BY <2>1, <2>2 DEF OwedStays
<1>2. ASSUME AcceptExits PROVE AccountMove
  <2>1. Account' = Account
    BY <1>2 DEF AcceptExits, Account, ListenerTyped
  <2>2. \A c \in Conn : Owed(c)' <=> Owed(c)
    BY <1>2 DEF AcceptExits, Owed, Handling
  <2> QED
    BY <2>1, <2>2 DEF OwedStays
<1>3. ASSUME ServeReturns PROVE AccountMove
  <2>1. Account' = Account
    <3>1. http = TRUE /\ http' = FALSE /\ wg' = wg - 1 /\ acc' = acc
      BY <1>3, Zenon DEF ServeReturns, ListenerTyped
    <3> QED
      BY <3>1 DEF Account, ListenerTyped
  <2>2. \A c \in Conn : Owed(c)' <=> Owed(c)
    BY <1>3 DEF ServeReturns, poolVars, Owed, Handling
  <2> QED
    BY <2>1, <2>2 DEF OwedStays
<1>4. ASSUME AcceptSubmit PROVE AccountMove
  <2>1. acc = "submit" /\ cur \in TCPConn /\ UNCHANGED <<acc, cur, wg, http>>
    BY <1>4 DEF AcceptSubmit, ListenerTyped
  <2>2. Account' = Account
    BY <2>1 DEF Account
  <2>3. ~Pool!SubmitOverflow(cur)
    BY <2>1 DEF Pool!SubmitOverflow, Overflowed, TCPConn, ListenerTyped
  <2>4. run' = run /\ \E a \in {"send", "queued", "refused"} : submit' = [submit EXCEPT ![cur] = a]
    BY <1>4, <2>3 DEF AcceptSubmit, Pool!SubmitCheck, Pool!SubmitQueue
  <2>5. submit[cur] \in {"no", "send"}
    BY <1>4, <2>3 DEF AcceptSubmit, Pool!SubmitCheck, Pool!SubmitQueue
  <2>6. \A c \in TCPConn : c # cur => submit'[c] = submit[c]
    BY <2>4 DEF ListenerTyped
  <2>7. run[cur][1] = "none"
    BY <2>1, <2>5 DEF OneHandler
  <2>8. Owed(cur) /\ Owed(cur)'
    BY <2>1, <2>4, <2>5, <2>7 DEF Owed
  <2>9. \A c \in Conn : Owed(c)' <=> Owed(c)
    BY <2>1, <2>4, <2>6, <2>8 DEF Owed, Handling
  <2> QED
    BY <2>2, <2>9 DEF OwedStays
<1>5. ASSUME AcceptNext PROVE AccountMove
  <2>1. acc = "submit" /\ acc' = "check" /\ cur \in TCPConn /\ cur \in Conn /\ UNCHANGED <<submit, wg, http>>
    BY <1>5 DEF AcceptNext, poolVars, ListenerTyped, TCPConn
  <2>2. Account' = Account
    BY <2>1 DEF Account
  <2>3. CASE submit[cur] = "queued"
    <3>1. run' = run
      BY <1>5, <2>3 DEF AcceptNext
    <3>2. \A c \in Conn : Owed(c)' <=> Owed(c)
      BY <2>1, <2>3, <3>1 DEF Owed, Handling
    <3> QED
      BY <2>2, <3>2 DEF OwedStays
  <2>4. CASE submit[cur] = "refused"
    <3>1. \A d \in Conn, j \in {1, 2} : run'[d][j] = IF d = cur /\ j = 2 THEN "handshake" ELSE run[d][j]
      BY <1>5, <2>1, <2>4 DEF AcceptNext, Start, ListenerTyped
    <3>2. PICK c \in Conn : c = cur
      BY <2>1
    <3>3. Owed(c) /\ Owed(c)'
      BY <2>1, <2>4, <3>1, <3>2 DEF Owed, Handling
    <3>4. \A d \in Conn \ {c} : Owed(d)' <=> Owed(d)
      BY <2>1, <2>4, <3>1, <3>2 DEF Owed, Handling
    <3> QED
      BY <2>2, <3>3, <3>4 DEF OwedStays
  <2>5. CASE submit[cur] = "overflow"
    BY <2>1, <2>5 DEF Overflowed, TCPConn
  <2> QED
    BY <1>5, <2>3, <2>4, <2>5 DEF AcceptNext
<1>6. ASSUME NEW c \in Conn, Accept(c) PROVE AccountMove
  <2>1. /\ submit[c] = "no" /\ c \in TCPConn /\ acc = "accept" /\ acc' = "submit" /\ cur' = c
        /\ wg' = wg + 1 /\ UNCHANGED <<submit, run, http>>
    BY <1>6 DEF Accept, poolVars, TCPConn
  <2>2. Account' = Account + 1
    BY <2>1 DEF Account, ListenerTyped
  <2>3. run[c][1] = "none" /\ run[c][2] = "none"
    BY <2>1 DEF OneHandler
  <2>4. ~Owed(c) /\ Owed(c)'
    BY <2>1, <2>3 DEF Owed, Handling
  <2>5. \A d \in Conn \ {c} : Owed(d)' <=> Owed(d)
    BY <2>1 DEF Owed, Handling
  <2> QED
    BY <2>1, <2>2, <2>4, <2>5 DEF OwesMore
<1>7. ASSUME NEW c \in Conn, WSUpgrade(c) PROVE AccountMove
  <2>1. c \in WS /\ c \notin TCPConn /\ run[c][1] = "none" /\ run[c][2] = "none" /\ UNCHANGED <<submit, acc, cur, wg, http>>
    BY <1>7 DEF WSUpgrade, poolVars, TCPConn, OneHandler
  <2>2. \A d \in Conn, j \in {1, 2} : run'[d][j] = IF d = c /\ j = 1 THEN "upgraded" ELSE run[d][j]
    BY <1>7 DEF WSUpgrade, ListenerTyped
  <2>3. Account' = Account
    BY <2>1 DEF Account
  <2>4. \A d \in Conn : Owed(d)' <=> Owed(d)
    BY <2>1, <2>2 DEF Owed, Handling
  <2> QED
    BY <2>3, <2>4 DEF OwedStays
<1>8. ASSUME NEW c \in Conn, HandleWSConnection(c) PROVE AccountMove
  <2>1. run[c][1] = "upgraded" /\ wg' = wg + 1 /\ UNCHANGED <<submit, acc, cur, http>>
    BY <1>8 DEF HandleWSConnection, poolVars
  <2>2. \A d \in Conn, j \in {1, 2} : run'[d][j] = IF d = c /\ j = 1 THEN "handshake" ELSE run[d][j]
    BY <1>8 DEF HandleWSConnection, Start, ListenerTyped
  <2>3. c \notin TCPConn /\ run[c][2] = "none"
    BY <2>1 DEF OneHandler, TCPConn
  <2>4. Account' = Account + 1
    BY <2>1 DEF Account, ListenerTyped
  <2>5. ~Owed(c) /\ Owed(c)'
    BY <2>1, <2>2, <2>3 DEF Owed, Handling
  <2>6. \A d \in Conn \ {c} : Owed(d)' <=> Owed(d)
    BY <2>1, <2>2 DEF Owed, Handling
  <2> QED
    BY <2>3, <2>4, <2>5, <2>6 DEF OwesMore
<1>9. ASSUME NEW w \in Worker, WorkerTakes(w) PROVE AccountMove
  <2>1. queue # <<>> /\ UNCHANGED <<submit, acc, cur, wg, http>>
    BY <1>9 DEF WorkerTakes, Pool!Take
  <2>2. Head(queue) \in Held(queue) /\ Head(queue) \in TCPConn
    BY <2>1, HeldTail DEF ListenerTyped, OneHandler
  <2>3. PICK c \in TCPConn : c = Head(queue)
    BY <2>2
  <2>4. c \in Conn /\ run' = [run EXCEPT ![c][1] = "handshake"]
    BY <1>9, <2>3 DEF WorkerTakes, Start, TCPConn
  <2>5. \A d \in Conn, j \in {1, 2} : run'[d][j] = IF d = c /\ j = 1 THEN "handshake" ELSE run[d][j]
    BY <2>4 DEF ListenerTyped
  <2>6. submit[c] = "queued" /\ run[c][1] = "none"
    BY <2>2, <2>3 DEF OneHandler
  <2>7. Account' = Account
    BY <2>1 DEF Account
  <2>8. Owed(c) /\ Owed(c)'
    BY <2>1, <2>4, <2>5, <2>6 DEF Owed, Handling
  <2>9. \A d \in Conn \ {c} : Owed(d)' <=> Owed(d)
    BY <2>1, <2>5 DEF Owed, Handling
  <2> QED
    BY <2>7, <2>8, <2>9 DEF OwedStays
<1>10. ASSUME NEW c \in Conn, NEW k \in {1, 2}, HandshakeFails(c, k) PROVE AccountMove
  <2>1. run[c][k] = "handshake" /\ wg' = wg - 1 /\ UNCHANGED <<submit, acc, cur, http>>
    BY <1>10 DEF HandshakeFails, poolVars
  <2>2. \A d \in Conn, j \in {1, 2} : run'[d][j] = IF d = c /\ j = k THEN "ended" ELSE run[d][j]
    BY <1>10 DEF HandshakeFails, ListenerTyped
  <2>3. Account' = Account - 1
    BY <2>1 DEF Account, ListenerTyped
  <2>4. Owed(c)
    BY <2>1 DEF Owed, Handling
  <2>5. ~Owed(c)'
    <3>1. CASE c \in WS
      <4>1. k = 1 /\ run[c][2] = "none" /\ c \notin TCPConn
        BY <2>1, <3>1 DEF OneHandler, TCPConn
      <4> QED
        BY <2>1, <2>2, <4>1 DEF Owed, Handling
    <3>2. CASE c \in TCPConn /\ k = 1
      <4>1. submit[c] = "queued" /\ run[c][2] = "none"
        BY <2>1, <3>2 DEF OneHandler
      <4> QED
        BY <2>1, <2>2, <3>2, <4>1 DEF Owed, Handling
    <3>3. CASE c \in TCPConn /\ k = 2
      <4>1. submit[c] = "refused" /\ run[c][1] = "none" /\ ~(acc = "submit" /\ cur = c)
        BY <2>1, <3>3 DEF OneHandler
      <4> QED
        BY <2>1, <2>2, <3>3, <4>1 DEF Owed, Handling
    <3> QED
      BY <3>1, <3>2, <3>3 DEF TCPConn
  <2>6. \A d \in Conn \ {c} : Owed(d)' <=> Owed(d)
    BY <2>1, <2>2 DEF Owed, Handling
  <2> QED
    BY <2>3, <2>4, <2>5, <2>6 DEF OwesLess
<1>11. ASSUME NEW c \in Conn, NEW k \in {1, 2}, Register(c, k) PROVE AccountMove
  <2>1. run[c][k] = "handshake" /\ UNCHANGED <<submit, acc, cur, wg, http>>
    BY <1>11 DEF Register, poolVars
  <2>2. \A d \in Conn, j \in {1, 2} : run'[d][j] = IF d = c /\ j = k THEN "active" ELSE run[d][j]
    BY <1>11 DEF Register, ListenerTyped
  <2>3. Account' = Account
    BY <2>1 DEF Account
  <2>4. \A d \in Conn, j \in {1, 2} : (Handling(d, j)' <=> Handling(d, j)) /\ (run'[d][j] = "none" <=> run[d][j] = "none")
    BY <2>1, <2>2 DEF Handling
  <2>5. \A d \in Conn : Owed(d)' <=> Owed(d)
    BY <2>1, <2>4 DEF Owed
  <2> QED
    BY <2>3, <2>5 DEF OwedStays
<1>12. ASSUME NEW c \in Conn, NEW k \in {1, 2}, HandleReturns(c, k) PROVE AccountMove
  <2>1. run[c][k] = "active" /\ UNCHANGED <<submit, acc, cur, wg, http>>
    BY <1>12 DEF HandleReturns, poolVars
  <2>2. \A d \in Conn, j \in {1, 2} : run'[d][j] = IF d = c /\ j = k THEN "deferred" ELSE run[d][j]
    BY <1>12 DEF HandleReturns, ListenerTyped
  <2>3. Account' = Account
    BY <2>1 DEF Account
  <2>4. \A d \in Conn, j \in {1, 2} : (Handling(d, j)' <=> Handling(d, j)) /\ (run'[d][j] = "none" <=> run[d][j] = "none")
    BY <2>1, <2>2 DEF Handling
  <2>5. \A d \in Conn : Owed(d)' <=> Owed(d)
    BY <2>1, <2>4 DEF Owed
  <2> QED
    BY <2>3, <2>5 DEF OwedStays
<1>13. ASSUME NEW c \in Conn, NEW k \in {1, 2}, HandlerDone(c, k) PROVE AccountMove
  <2>1. run[c][k] = "deferred" /\ wg' = wg - 1 /\ UNCHANGED <<submit, acc, cur, http>>
    BY <1>13 DEF HandlerDone, poolVars
  <2>2. \A d \in Conn, j \in {1, 2} : run'[d][j] = IF d = c /\ j = k THEN "ended" ELSE run[d][j]
    BY <1>13 DEF HandlerDone, ListenerTyped
  <2>3. Account' = Account - 1
    BY <2>1 DEF Account, ListenerTyped
  <2>4. Owed(c)
    BY <2>1 DEF Owed, Handling
  <2>5. ~Owed(c)'
    <3>1. CASE c \in WS
      <4>1. k = 1 /\ run[c][2] = "none" /\ c \notin TCPConn
        BY <2>1, <3>1 DEF OneHandler, TCPConn
      <4> QED
        BY <2>1, <2>2, <4>1 DEF Owed, Handling
    <3>2. CASE c \in TCPConn /\ k = 1
      <4>1. submit[c] = "queued" /\ run[c][2] = "none"
        BY <2>1, <3>2 DEF OneHandler
      <4> QED
        BY <2>1, <2>2, <3>2, <4>1 DEF Owed, Handling
    <3>3. CASE c \in TCPConn /\ k = 2
      <4>1. submit[c] = "refused" /\ run[c][1] = "none" /\ ~(acc = "submit" /\ cur = c)
        BY <2>1, <3>3 DEF OneHandler
      <4> QED
        BY <2>1, <2>2, <3>3, <4>1 DEF Owed, Handling
    <3> QED
      BY <3>1, <3>2, <3>3 DEF TCPConn
  <2>6. \A d \in Conn \ {c} : Owed(d)' <=> Owed(d)
    BY <2>1, <2>2 DEF Owed, Handling
  <2> QED
    BY <2>3, <2>4, <2>5, <2>6 DEF OwesLess
<1> QED
  BY <1>1, <1>2, <1>3, <1>4, <1>5, <1>6, <1>7, <1>8, <1>9, <1>10, <1>11, <1>12, <1>13 DEF ListenerMove

\* So the account of wg stays exact, and nothing comes back once it is empty.
LEMMA NextWgExact == ListenerTyped' /\ ListenerTyped /\ AccountMove /\ WgExact => WgExact'
<1> SUFFICES ASSUME ListenerTyped, ListenerTyped', AccountMove, WgExact PROVE WgExact'
  OBVIOUS
<1>1. IsFiniteSet(Owing)
  BY FS_Subset DEF Owing
<1>2. CASE OwedStays
  <2>1. Owing' = Owing
    BY <1>2 DEF OwedStays, Owing
  <2> QED
    BY <1>2, <2>1 DEF OwedStays, WgExact
<1>3. ASSUME NEW c \in Conn, OwesMore(c) PROVE WgExact'
  <2>1. c \notin Owing /\ Owing' = Owing \cup {c}
    BY <1>3 DEF OwesMore, Owing
  <2>2. Cardinality(Owing \cup {c}) = Cardinality(Owing) + 1
    BY <1>1, <2>1, FS_AddElement
  <2> QED
    BY <1>3, <2>1, <2>2 DEF OwesMore, WgExact
<1>4. ASSUME NEW c \in Conn, OwesLess(c) PROVE WgExact'
  <2>1. c \in Owing /\ Owing' = Owing \ {c}
    BY <1>4 DEF OwesLess, Owing
  <2>2. Cardinality(Owing \ {c}) = Cardinality(Owing) - 1
    BY <1>1, <2>1, FS_RemoveElement
  <2> QED
    BY <1>4, <2>1, <2>2 DEF OwesLess, WgExact
<1> QED
  BY <1>2, <1>3, <1>4 DEF AccountMove

\* The order of Stop, and that an accept loop or server that has ended is gone.
Onward ==
    /\ http' => http
    /\ acc = "exit" => acc' = "exit"
    /\ stop' = stop \/ stop' \notin Late \/ stop \in Late \/ wg = 0

LEMMA NextOnward == ListenerMove => Onward
<1> SUFFICES ASSUME ListenerMove PROVE Onward
  OBVIOUS
<1>1. ASSUME Idle PROVE Onward
  <2>1. acc = "exit" => acc' = acc
    BY <1>1 DEF Idle
  <2>2. (http' <=> http) /\ (stop' = stop \/ stop' \notin Late \/ stop \in Late \/ wg = 0)
    BY <1>1 DEF Idle
  <2> QED
    BY <2>1, <2>2 DEF Onward
<1>2. ASSUME AcceptExits PROVE Onward
  BY <1>2 DEF AcceptExits, Onward
<1>3. ASSUME ServeReturns PROVE Onward
  BY <1>3 DEF ServeReturns, Onward
<1>4. ASSUME AcceptSubmit PROVE Onward
  BY <1>4 DEF AcceptSubmit, Onward
<1>5. ASSUME AcceptNext PROVE Onward
  BY <1>5 DEF AcceptNext, Onward
<1>6. ASSUME NEW c \in Conn, Accept(c) PROVE Onward
  BY <1>6 DEF Accept, Onward
<1>7. ASSUME NEW c \in Conn, WSUpgrade(c) PROVE Onward
  BY <1>7 DEF WSUpgrade, Onward
<1>8. ASSUME NEW c \in Conn, HandleWSConnection(c) PROVE Onward
  BY <1>8 DEF HandleWSConnection, Onward
<1>9. ASSUME NEW w \in Worker, WorkerTakes(w) PROVE Onward
  BY <1>9 DEF WorkerTakes, Onward
<1>10. ASSUME NEW c \in Conn, NEW k \in {1, 2}, HandshakeFails(c, k) PROVE Onward
  BY <1>10 DEF HandshakeFails, Onward
<1>11. ASSUME NEW c \in Conn, NEW k \in {1, 2}, Register(c, k) PROVE Onward
  BY <1>11 DEF Register, Onward
<1>12. ASSUME NEW c \in Conn, NEW k \in {1, 2}, HandleReturns(c, k) PROVE Onward
  BY <1>12 DEF HandleReturns, Onward
<1>13. ASSUME NEW c \in Conn, NEW k \in {1, 2}, HandlerDone(c, k) PROVE Onward
  BY <1>13 DEF HandlerDone, Onward
<1> QED
  BY <1>1, <1>2, <1>3, <1>4, <1>5, <1>6, <1>7, <1>8, <1>9, <1>10, <1>11, <1>12, <1>13 DEF ListenerMove

LEMMA NextAllGone ==
    ListenerTyped /\ WgExact /\ AllGone /\ AccountMove /\ Onward => AllGone'
<1> SUFFICES ASSUME ListenerTyped, WgExact, AllGone, AccountMove, Onward, stop' \in Late PROVE AllGone'
  BY DEF AllGone, Late
<1>1. acc = "exit" /\ ~http /\ \A c \in TCPConn : ~Owed(c)
  <2>1. CASE stop \in Late
    BY <2>1 DEF AllGone, Late
  <2>2. CASE wg = 0
    <3>1. IsFiniteSet(Owing)
      BY FS_Subset DEF Owing
    <3>2. Cardinality(Owing) \in Nat
      BY <3>1, FS_CardinalityType
    <3>3. acc = "exit" /\ ~http /\ Cardinality(Owing) = 0
      BY <2>2, <3>2 DEF WgExact, Account
    <3>4. Owing = {}
      BY <3>1, <3>3, FS_EmptySet
    <3> QED
      BY <3>3, <3>4 DEF Owing, TCPConn
  <2> QED
    BY <2>1, <2>2 DEF Onward
<1>2. acc' = "exit" /\ ~http'
  BY <1>1 DEF Onward
<1>3. \A c \in TCPConn : ~Owed(c)'
  <2>1. CASE OwedStays
    BY <1>1, <2>1 DEF OwedStays, TCPConn
  <2>2. ASSUME NEW c \in Conn, OwesMore(c) PROVE \A d \in TCPConn : ~Owed(d)'
    <3>1. c \notin TCPConn
      BY <1>1, <2>2 DEF OwesMore
    <3> QED
      BY <1>1, <2>2, <3>1 DEF OwesMore, TCPConn
  <2>3. ASSUME NEW c \in Conn, OwesLess(c) PROVE \A d \in TCPConn : ~Owed(d)'
    BY <1>1, <2>3 DEF OwesLess, TCPConn
  <2> QED
    BY <2>1, <2>2, <2>3 DEF AccountMove
<1> QED
  BY <1>2, <1>3 DEF AllGone

-----------------------------------------------------------------------------
(* The table                                                               *)

LEMMA TableStays ==
    ASSUME InTable, UNCHANGED table,
           \A d \in Conn, j \in {1, 2} : run'[d][j] = "active" <=> run[d][j] = "active"
    PROVE  InTable'
BY DEF InTable, Alone

LEMMA NextInTable == ListenerTyped /\ OneHandler /\ ~Overflowed' /\ InTable /\ ListenerMove => InTable'
<1> SUFFICES ASSUME ListenerTyped, OneHandler, ~Overflowed', InTable, ListenerMove PROVE InTable'
  OBVIOUS
<1>1. ASSUME Idle PROVE InTable'
  BY <1>1, TableStays DEF Idle
<1>2. ASSUME AcceptExits PROVE InTable'
  BY <1>2, TableStays DEF AcceptExits
<1>3. ASSUME ServeReturns PROVE InTable'
  BY <1>3, TableStays DEF ServeReturns
<1>4. ASSUME AcceptSubmit PROVE InTable'
  <2>1. ~Pool!SubmitOverflow(cur)
    BY <1>4 DEF AcceptSubmit, Pool!SubmitOverflow, Overflowed, TCPConn, ListenerTyped
  <2>2. UNCHANGED <<run, table>>
    BY <1>4, <2>1 DEF AcceptSubmit
  <2> QED
    BY <2>2, TableStays
<1>5. ASSUME AcceptNext PROVE InTable'
  <2>1. UNCHANGED table /\ cur \in TCPConn /\ cur \in Conn
    BY <1>5 DEF AcceptNext, ListenerTyped, TCPConn
  <2>2. CASE run' = run
    BY <2>1, <2>2, TableStays
  <2>3. CASE submit[cur] # "queued" /\ run' = [run EXCEPT ![cur][2] = "handshake"]
    <3>1. submit[cur] = "refused"
      BY <1>5, <2>1, <2>3 DEF AcceptNext, Overflowed, TCPConn, poolVars
    <3>2. run[cur][2] = "none"
      BY <1>5, <2>1 DEF AcceptNext, OneHandler
    <3>3. \A d \in Conn, j \in {1, 2} : run'[d][j] = IF d = cur /\ j = 2 THEN "handshake" ELSE run[d][j]
      BY <2>1, <2>3 DEF ListenerTyped
    <3>4. \A d \in Conn, j \in {1, 2} : run'[d][j] = "active" <=> run[d][j] = "active"
      BY <3>2, <3>3
    <3> QED
      BY <2>1, <3>4, TableStays
  <2> QED
    BY <1>5, <2>2, <2>3 DEF AcceptNext, Start
<1>6. ASSUME NEW c \in Conn, Accept(c) PROVE InTable'
  BY <1>6, TableStays DEF Accept
<1>7. ASSUME NEW c \in Conn, WSUpgrade(c) PROVE InTable'
  <2>1. UNCHANGED table /\ run[c][1] \in {"none", "upgraded"}
    BY <1>7 DEF WSUpgrade, OneHandler
  <2>2. \A d \in Conn, j \in {1, 2} : run'[d][j] = IF d = c /\ j = 1 THEN "upgraded" ELSE run[d][j]
    BY <1>7 DEF WSUpgrade, ListenerTyped
  <2>3. \A d \in Conn, j \in {1, 2} : run'[d][j] = "active" <=> run[d][j] = "active"
    BY <2>1, <2>2
  <2> QED
    BY <2>1, <2>3, TableStays
<1>8. ASSUME NEW c \in Conn, HandleWSConnection(c) PROVE InTable'
  <2>1. UNCHANGED table /\ run[c][1] \in {"none", "upgraded"}
    BY <1>8 DEF HandleWSConnection, Start, OneHandler
  <2>2. \A d \in Conn, j \in {1, 2} : run'[d][j] = IF d = c /\ j = 1 THEN "handshake" ELSE run[d][j]
    BY <1>8 DEF HandleWSConnection, Start, ListenerTyped
  <2>3. \A d \in Conn, j \in {1, 2} : run'[d][j] = "active" <=> run[d][j] = "active"
    BY <2>1, <2>2
  <2> QED
    BY <2>1, <2>3, TableStays
<1>9. ASSUME NEW w \in Worker, WorkerTakes(w) PROVE InTable'
  <2>1. queue # <<>> /\ UNCHANGED table
    BY <1>9 DEF WorkerTakes, Pool!Take
  <2>2. Head(queue) \in Held(queue) /\ Head(queue) \in TCPConn
    BY <2>1, HeldTail DEF ListenerTyped, OneHandler
  <2>3. PICK c \in TCPConn : c = Head(queue)
    BY <2>2
  <2>4. c \in Conn /\ run' = [run EXCEPT ![c][1] = "handshake"]
    BY <1>9, <2>3 DEF WorkerTakes, Start, TCPConn
  <2>5. \A d \in Conn, j \in {1, 2} : run'[d][j] = IF d = c /\ j = 1 THEN "handshake" ELSE run[d][j]
    BY <2>4 DEF ListenerTyped
  <2>6. run[c][1] = "none"
    BY <2>2, <2>3 DEF OneHandler
  <2>7. \A d \in Conn, j \in {1, 2} : run'[d][j] = "active" <=> run[d][j] = "active"
    BY <2>5, <2>6
  <2> QED
    BY <2>1, <2>7, TableStays
<1>10. ASSUME NEW c \in Conn, NEW k \in {1, 2}, HandshakeFails(c, k) PROVE InTable'
  <2>1. run[c][k] = "handshake" /\ UNCHANGED table
    BY <1>10 DEF HandshakeFails
  <2>2. \A d \in Conn, j \in {1, 2} : run'[d][j] = IF d = c /\ j = k THEN "ended" ELSE run[d][j]
    BY <1>10 DEF HandshakeFails, ListenerTyped
  <2>3. \A d \in Conn, j \in {1, 2} : run'[d][j] = "active" <=> run[d][j] = "active"
    BY <2>1, <2>2
  <2> QED
    BY <2>1, <2>3, TableStays
<1>11. ASSUME NEW c \in Conn, NEW k \in {1, 2}, Register(c, k) PROVE InTable'
  <2>1. run[c][k] = "handshake"
    BY <1>11 DEF Register
  <2>2. \A d \in Conn, j \in {1, 2} : run'[d][j] = IF d = c /\ j = k THEN "active" ELSE run[d][j]
    BY <1>11 DEF Register, ListenerTyped
  <2>3. \A x \in Keys : table'[x] = IF x = Key[c] THEN c ELSE table[x]
    BY <1>11 DEF Register, ListenerTyped
  <2>4. \A d \in Conn : Key[d] \in Keys /\ (d # c /\ Alone(d) => Key[d] # Key[c])
    BY DEF Keys, Alone
  <2>5. run'[c][1] = "active" \/ run'[c][2] = "active"
    BY <2>2
  <2> QED
    BY <2>2, <2>3, <2>4, <2>5 DEF InTable, Alone
<1>12. ASSUME NEW c \in Conn, NEW k \in {1, 2}, HandleReturns(c, k) PROVE InTable'
  <2>1. run[c][k] = "active"
    BY <1>12 DEF HandleReturns
  <2>2. \A d \in Conn, j \in {1, 2} : run'[d][j] = IF d = c /\ j = k THEN "deferred" ELSE run[d][j]
    BY <1>12 DEF HandleReturns, ListenerTyped
  <2>3. \A x \in Keys : table'[x] = IF x = Key[c] THEN None ELSE table[x]
    BY <1>12 DEF HandleReturns, ListenerTyped
  <2>4. \A d \in Conn : Key[d] \in Keys /\ (d # c /\ Alone(d) => Key[d] # Key[c])
    BY DEF Keys, Alone
  <2>5. run'[c][1] # "active" /\ run'[c][2] # "active" /\ c # None
    <3>1. run[c][1] = "active" => run[c][2] = "none"
      BY DEF OneHandler, TCPConn
    <3> QED
      BY <2>1, <2>2, <3>1
  <2> QED
    BY <2>2, <2>3, <2>4, <2>5 DEF InTable, Alone
<1>13. ASSUME NEW c \in Conn, NEW k \in {1, 2}, HandlerDone(c, k) PROVE InTable'
  <2>1. run[c][k] = "deferred" /\ UNCHANGED table
    BY <1>13 DEF HandlerDone
  <2>2. \A d \in Conn, j \in {1, 2} : run'[d][j] = IF d = c /\ j = k THEN "ended" ELSE run[d][j]
    BY <1>13 DEF HandlerDone, ListenerTyped
  <2>3. \A d \in Conn, j \in {1, 2} : run'[d][j] = "active" <=> run[d][j] = "active"
    BY <2>1, <2>2
  <2> QED
    BY <2>1, <2>3, TableStays
<1> QED
  BY <1>1, <1>2, <1>3, <1>4, <1>5, <1>6, <1>7, <1>8, <1>9, <1>10, <1>11, <1>12, <1>13 DEF ListenerMove

-----------------------------------------------------------------------------
(* Theorems                                                                *)

LEMMA InitListener == Init => ListenerInv
<1> SUFFICES ASSUME Init PROVE ListenerInv
  OBVIOUS
<1>1. ListenerTyped
  BY InitListenerTyped
<1>2. OneHandler
  <2>1. queue = <<>> /\ run = [c \in Conn |-> [k \in {1, 2} |-> "none"]]
    BY DEF Init
  <2>2. Distinct(queue) /\ Held(queue) = {}
    BY <2>1 DEF Distinct, Held
  <2> QED
    BY <2>1, <2>2 DEF OneHandler, TCPConn
<1>3. \A c \in Conn : ~Owed(c)
  BY DEF Init, Owed, Handling, TCPConn
<1>4. WgExact
  <2>1. Owing = {} /\ Cardinality({}) = 0
    BY <1>3, FS_EmptySet DEF Owing
  <2>2. wg = 2 /\ http = TRUE /\ acc = "check"
    BY DEF Init
  <2> QED
    BY <2>1, <2>2 DEF WgExact, Account
<1>5. AllGone
  BY DEF Init, AllGone
<1>6. InTable
  <2>1. \A c \in Conn : table[Key[c]] # c /\ run[c][1] # "active" /\ run[c][2] # "active"
    BY DEF Init, Keys
  <2> QED
    BY <2>1 DEF InTable
<1> QED
  BY <1>1, <1>2, <1>4, <1>5, <1>6 DEF ListenerInv, Steady

LEMMA NextListener == ListenerInv /\ [Next]_vars => ListenerInv'
<1> SUFFICES ASSUME ListenerInv, [Next]_vars PROVE ListenerInv'
  OBVIOUS
<1>1. ListenerTyped /\ ListenerTyped' /\ ListenerMove
  BY NextListenerTyped, NextMove DEF ListenerInv
<1>2. ASSUME ~Overflowed' PROVE Steady'
  <2>1. ~Overflowed
    BY <1>1, <1>2, OverflowStays
  <2>2. OneHandler /\ WgExact /\ AllGone /\ InTable
    BY <2>1 DEF ListenerInv, Steady
  <2>3. AccountMove /\ Onward
    BY <1>1, <1>2, <2>2, NextAccount, NextOnward
  <2>4. OneHandler'
    BY <1>1, <1>2, <2>2, NextOneHandler
  <2>5. WgExact' /\ AllGone'
    BY <1>1, <2>2, <2>3, NextWgExact, NextAllGone
  <2>6. InTable'
    BY <1>1, <1>2, <2>2, NextInTable
  <2> QED
    BY <2>4, <2>5, <2>6 DEF Steady
<1> QED
  BY <1>1, <1>2 DEF ListenerInv

LEMMA AlwaysListener == FairSpec => []ListenerInv
BY InitListener, NextListener, PTL DEF FairSpec

\* Unless the queue ever filled up: wg is exactly the HTTP server, the accept
\* loop, the connections accepted or queued whose handler has not ended, and
\* the WebSocket tunnels served.
THEOREM WaitGroupExact == FairSpec => [](~Overflowed => WgExact)
<1>1. ListenerInv => (~Overflowed => WgExact)
  BY DEF ListenerInv, Steady
<1> QED
  BY <1>1, AlwaysListener, PTL

\* Once Stop has waited, the accept loop and every handler of an accepted
\* connection are gone, those of connections that were queued included, for
\* any number of connections and workers.
THEOREM StopWaits == FairSpec => []StopWaitsForHandlers
<1>1. ListenerInv => StopWaitsForHandlers
  <2> SUFFICES ASSUME ListenerInv, stop \in {"pool", "groups", "done"}, ~Overflowed
               PROVE  /\ acc = "exit" /\ ~http /\ queue = <<>>
                      /\ \A c \in Conn \ WS : ~Handling(c, 1) /\ ~Handling(c, 2)
    BY DEF StopWaitsForHandlers
  <2>1. ListenerTyped /\ OneHandler /\ AllGone
    BY DEF ListenerInv, Steady
  <2>2. acc = "exit" /\ ~http /\ \A c \in TCPConn : ~Owed(c)
    BY <2>1 DEF AllGone
  <2>3. ASSUME queue # <<>> PROVE FALSE
    <3>1. Head(queue) \in Held(queue) /\ Head(queue) \in TCPConn
      BY <2>1, <2>3, HeldTail DEF ListenerTyped, OneHandler
    <3>2. Owed(Head(queue))
      BY <2>1, <3>1 DEF OneHandler, Owed
    <3> QED
      BY <2>2, <3>1, <3>2
  <2> QED
    BY <2>2, <2>3 DEF Owed, TCPConn
<1> QED
  BY <1>1, AlwaysListener, PTL

\* A connection whose key no other one has is in the table just while it is
\* served.
THEOREM TableIsExact == FairSpec => []TableExact
<1>1. ListenerInv => TableExact
  BY DEF ListenerInv, Steady, InTable, TableExact
<1> QED
  BY <1>1, AlwaysListener, PTL

================================================================================
