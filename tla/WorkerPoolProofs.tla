--------------------------- MODULE WorkerPoolProofs ---------------------------
(***************************************************************************)
(* Theorems about WorkerPool for every set of jobs, every number of workers *)
(* and every capacity of the queue.                                        *)
(***************************************************************************)
EXTENDS WorkerPool, SequenceTheorems, TLAPS

\* The jobs in the queue.
Held == {queue[i] : i \in 1..Len(queue)}
Distinct == \A i, k \in 1..Len(queue) : queue[i] = queue[k] => i = k

\* A job the queue took is in one place: in the queue, with one worker, or
\* finished, once.  No other job is in any of them.
InOnePlace ==
    /\ Distinct
    /\ \A w, v \in Worker : busy[w] # None /\ busy[w] = busy[v] => w = v
    /\ \A w \in Worker : busy[w] # None =>
        busy[w] \notin Held /\ submit[busy[w]] = "queued" /\ finished[busy[w]] = 0
    /\ \A j \in Held : submit[j] = "queued" /\ finished[j] = 0
    /\ \A j \in Job :
        /\ submit[j] = "queued" => j \in Held \/ finished[j] = 1 \/ \E w \in Worker : busy[w] = j
        /\ submit[j] \in {"no", "send"} => finished[j] = 0

\* Only jobs Submit did not queue are run elsewhere.
OthersElsewhere ==
    /\ \A j \in direct : submit[j] = "overflow"
    /\ \A j \in Job : fallback[j] # "no" => submit[j] \in {"refused", "overflow"}

\* A worker leaves when nothing is left for it, and Close when they all have.
LeaveLast ==
    /\ exited # {} => queue = <<>> /\ closing \in {"chan", "done"}
    /\ \A w \in exited : busy[w] = None
    /\ closing = "done" => exited = Worker

PoolInv == TypeOK /\ InOnePlace /\ OthersElsewhere /\ LeaveLast

USE PoolAssumption

LEMMA InitPool == Init => PoolInv
BY DEF Init, PoolInv, TypeOK, InOnePlace, Held, Distinct, OthersElsewhere, LeaveLast

\* What Submit and a worker do to the queue.
LEMMA QueueAppend ==
    ASSUME TypeOK, Distinct, NEW j \in Job, j \notin Held, queue' = Append(queue, j)
    PROVE  Distinct' /\ Held' = Held \cup {j}
<1>1. /\ Len(queue) \in Nat /\ Len(queue') = Len(queue) + 1 /\ queue'[Len(queue) + 1] = j
      /\ \A i \in 1..Len(queue) : queue'[i] = queue[i]
  BY AppendProperties, LenProperties DEF TypeOK
<1>2. \A i \in 1..Len(queue') : i \in 1..Len(queue) \/ i = Len(queue) + 1
  BY <1>1
<1>3. 1..Len(queue) \subseteq 1..Len(queue') /\ Len(queue) + 1 \in 1..Len(queue')
  BY <1>1
<1> QED
  BY <1>1, <1>2, <1>3 DEF Held, Distinct

LEMMA QueueTail ==
    ASSUME TypeOK, Distinct, queue # <<>>, queue' = Tail(queue)
    PROVE  Distinct' /\ Head(queue) \in Held /\ Held' = Held \ {Head(queue)}
<1>1. /\ Len(queue) \in Nat \ {0} /\ Len(queue') = Len(queue) - 1
      /\ Head(queue) = queue[1]
      /\ \A i \in 1..Len(queue') : queue'[i] = queue[i + 1]
  BY HeadTailProperties, EmptySeq DEF TypeOK
<1>2. \A i \in 1..Len(queue') : i + 1 \in 1..Len(queue) /\ i + 1 # 1
  BY <1>1
<1>3. \A i \in 1..Len(queue) : i = 1 \/ (i - 1 \in 1..Len(queue') /\ queue'[i - 1] = queue[i])
  BY <1>1
<1>4. 1 \in 1..Len(queue)
  BY <1>1
<1>5. Distinct'
  BY <1>1, <1>2 DEF Distinct
<1>6. Head(queue) \in Held /\ Head(queue) \notin Held'
  BY <1>1, <1>2, <1>4 DEF Held, Distinct
<1>7. Held' \subseteq Held /\ Held \subseteq Held' \cup {Head(queue)}
  BY <1>1, <1>2, <1>3 DEF Held
<1> QED
  BY <1>5, <1>6, <1>7

LEMMA NextType == TypeOK /\ [Next]_vars => TypeOK'
<1> SUFFICES ASSUME TypeOK, [Next]_vars PROVE TypeOK'
  OBVIOUS
<1> USE DEF TypeOK, pool
<1>1. ASSUME NEW j \in Job, SubmitStep(j), UNCHANGED <<fallback, finished>> PROVE TypeOK'
  <2>1. CASE SubmitQueue(j)
    BY <1>1, <2>1, AppendProperties, LenProperties DEF SubmitQueue
  <2>2. CASE SubmitCheck(j)
    BY <1>1, <2>2 DEF SubmitCheck
  <2>3. CASE SubmitOverflow(j)
    BY <1>1, <2>3 DEF SubmitOverflow
  <2>4. CASE SubmitPanic(j)
    BY <1>1, <2>4 DEF SubmitPanic
  <2> QED
    BY <1>1, <2>1, <2>2, <2>3, <2>4 DEF SubmitStep
<1>2. ASSUME NEW w \in Worker, Take(w), UNCHANGED <<fallback, finished>> PROVE TypeOK'
  <2>1. Head(queue) \in Job /\ Tail(queue) \in Seq(Job) /\ Len(Tail(queue)) = Len(queue) - 1
    BY <1>2, HeadTailProperties DEF Take
  <2> QED
    BY <1>2, <2>1 DEF Take
<1>3. ASSUME NEW w \in Worker, WorkerExit(w), UNCHANGED <<fallback, finished>> PROVE TypeOK'
  BY <1>3 DEF WorkerExit
<1>4. ASSUME NEW w \in Worker, JobReturns(w), Finish(busy[w]), UNCHANGED fallback PROVE TypeOK'
  BY <1>4 DEF JobReturns, Finish
<1>5. ASSUME NEW j \in Job, DirectReturns(j), Finish(j), UNCHANGED fallback PROVE TypeOK'
  BY <1>5 DEF DirectReturns, Finish
<1>6. ASSUME NEW j \in Job, CallerRuns(j) PROVE TypeOK'
  BY <1>6 DEF CallerRuns
<1>7. ASSUME NEW j \in Job, CallerReturns(j) PROVE TypeOK'
  BY <1>7 DEF CallerReturns
<1>8. ASSUME CloseFlag \/ CloseChan \/ CloseReturn, UNCHANGED <<fallback, finished>> PROVE TypeOK'
  BY <1>8 DEF CloseFlag, CloseChan, CloseReturn
<1>9. CASE UNCHANGED vars
  BY <1>9 DEF vars
<1> QED
  BY <1>1, <1>2, <1>3, <1>4, <1>5, <1>6, <1>7, <1>8, <1>9 DEF Next

LEMMA NextOthers == TypeOK /\ OthersElsewhere /\ [Next]_vars => OthersElsewhere'
<1> SUFFICES ASSUME TypeOK, OthersElsewhere, [Next]_vars PROVE OthersElsewhere'
  OBVIOUS
<1> USE DEF TypeOK, OthersElsewhere, pool
<1>1. ASSUME NEW j \in Job, SubmitCheck(j), UNCHANGED <<fallback, finished>> PROVE OthersElsewhere'
  BY <1>1 DEF SubmitCheck
<1>2. ASSUME NEW j \in Job, SubmitQueue(j), UNCHANGED <<fallback, finished>> PROVE OthersElsewhere'
  BY <1>2 DEF SubmitQueue
<1>3. ASSUME NEW j \in Job, SubmitOverflow(j), UNCHANGED <<fallback, finished>> PROVE OthersElsewhere'
  BY <1>3 DEF SubmitOverflow
<1>4. ASSUME NEW j \in Job, SubmitPanic(j), UNCHANGED <<fallback, finished>> PROVE OthersElsewhere'
  BY <1>4 DEF SubmitPanic
<1>5. ASSUME NEW w \in Worker, Take(w), UNCHANGED <<fallback, finished>> PROVE OthersElsewhere'
  BY <1>5 DEF Take
<1>6. ASSUME NEW w \in Worker, WorkerExit(w), UNCHANGED <<fallback, finished>> PROVE OthersElsewhere'
  BY <1>6 DEF WorkerExit
<1>7. ASSUME NEW w \in Worker, JobReturns(w), Finish(busy[w]), UNCHANGED fallback PROVE OthersElsewhere'
  BY <1>7 DEF JobReturns, Finish
<1>8. ASSUME NEW j \in Job, DirectReturns(j), Finish(j), UNCHANGED fallback PROVE OthersElsewhere'
  BY <1>8 DEF DirectReturns, Finish
<1>9. ASSUME NEW j \in Job, CallerRuns(j) PROVE OthersElsewhere'
  BY <1>9 DEF CallerRuns
<1>10. ASSUME NEW j \in Job, CallerReturns(j) PROVE OthersElsewhere'
  BY <1>10 DEF CallerReturns
<1>11. ASSUME CloseFlag \/ CloseChan \/ CloseReturn, UNCHANGED <<fallback, finished>> PROVE OthersElsewhere'
  BY <1>11 DEF CloseFlag, CloseChan, CloseReturn
<1>12. ASSUME UNCHANGED vars PROVE OthersElsewhere'
  BY <1>12 DEF vars
<1> QED
  BY <1>1, <1>2, <1>3, <1>4, <1>5, <1>6, <1>7, <1>8, <1>9, <1>10, <1>11, <1>12 DEF Next, SubmitStep

LEMMA NextLeave == TypeOK /\ LeaveLast /\ [Next]_vars => LeaveLast'
<1> SUFFICES ASSUME TypeOK, LeaveLast, [Next]_vars PROVE LeaveLast'
  OBVIOUS
<1> USE DEF TypeOK, LeaveLast, pool
<1>1. ASSUME NEW j \in Job, SubmitCheck(j), UNCHANGED <<fallback, finished>> PROVE LeaveLast'
  BY <1>1 DEF SubmitCheck
<1>2. ASSUME NEW j \in Job, SubmitQueue(j), UNCHANGED <<fallback, finished>> PROVE LeaveLast'
  BY <1>2 DEF SubmitQueue
<1>3. ASSUME NEW j \in Job, SubmitOverflow(j), UNCHANGED <<fallback, finished>> PROVE LeaveLast'
  BY <1>3 DEF SubmitOverflow
<1>4. ASSUME NEW j \in Job, SubmitPanic(j), UNCHANGED <<fallback, finished>> PROVE LeaveLast'
  BY <1>4 DEF SubmitPanic
<1>5. ASSUME NEW w \in Worker, Take(w), UNCHANGED <<fallback, finished>> PROVE LeaveLast'
  BY <1>5 DEF Take
<1>6. ASSUME NEW w \in Worker, WorkerExit(w), UNCHANGED <<fallback, finished>> PROVE LeaveLast'
  BY <1>6 DEF WorkerExit
<1>7. ASSUME NEW w \in Worker, JobReturns(w), Finish(busy[w]), UNCHANGED fallback PROVE LeaveLast'
  BY <1>7 DEF JobReturns, Finish
<1>8. ASSUME NEW j \in Job, DirectReturns(j), Finish(j), UNCHANGED fallback PROVE LeaveLast'
  BY <1>8 DEF DirectReturns, Finish
<1>9. ASSUME NEW j \in Job, CallerRuns(j) PROVE LeaveLast'
  BY <1>9 DEF CallerRuns
<1>10. ASSUME NEW j \in Job, CallerReturns(j) PROVE LeaveLast'
  BY <1>10 DEF CallerReturns
<1>11. ASSUME CloseFlag \/ CloseChan \/ CloseReturn, UNCHANGED <<fallback, finished>> PROVE LeaveLast'
  BY <1>11 DEF CloseFlag, CloseChan, CloseReturn
<1>12. ASSUME UNCHANGED vars PROVE LeaveLast'
  BY <1>12 DEF vars
<1> QED
  BY <1>1, <1>2, <1>3, <1>4, <1>5, <1>6, <1>7, <1>8, <1>9, <1>10, <1>11, <1>12 DEF Next, SubmitStep

LEMMA NextPlace == TypeOK /\ OthersElsewhere /\ InOnePlace /\ [Next]_vars => InOnePlace'
<1> SUFFICES ASSUME TypeOK, OthersElsewhere, InOnePlace, [Next]_vars PROVE InOnePlace'
  OBVIOUS
<1> USE DEF TypeOK, OthersElsewhere, InOnePlace, pool
<1>1. ASSUME NEW j \in Job, SubmitCheck(j), UNCHANGED <<fallback, finished>> PROVE InOnePlace'
  <2>1. Held' = Held /\ Distinct' = Distinct
    BY <1>1 DEF SubmitCheck, Held, Distinct
  <2> QED
    BY <1>1, <2>1 DEF SubmitCheck
<1>2. ASSUME NEW j \in Job, SubmitQueue(j), UNCHANGED <<fallback, finished>> PROVE InOnePlace'
  <2>1. j \notin Held
    BY <1>2 DEF SubmitQueue
  <2>2. Distinct' /\ Held' = Held \cup {j}
    BY <1>2, <2>1, QueueAppend DEF SubmitQueue
  <2> QED
    BY <1>2, <2>1, <2>2 DEF SubmitQueue
<1>3. ASSUME NEW j \in Job, SubmitOverflow(j), UNCHANGED <<fallback, finished>> PROVE InOnePlace'
  <2>1. Held' = Held /\ Distinct' = Distinct
    BY <1>3 DEF SubmitOverflow, Held, Distinct
  <2> QED
    BY <1>3, <2>1 DEF SubmitOverflow
<1>4. ASSUME NEW j \in Job, SubmitPanic(j), UNCHANGED <<fallback, finished>> PROVE InOnePlace'
  <2>1. Held' = Held /\ Distinct' = Distinct
    BY <1>4 DEF SubmitPanic, Held, Distinct
  <2> QED
    BY <1>4, <2>1 DEF SubmitPanic
<1>5. ASSUME NEW w \in Worker, Take(w), UNCHANGED <<fallback, finished>> PROVE InOnePlace'
  <2>1. Distinct' /\ Head(queue) \in Held /\ Held' = Held \ {Head(queue)}
    BY <1>5, QueueTail DEF Take
  <2> QED
    BY <1>5, <2>1 DEF Take
<1>6. ASSUME NEW w \in Worker, WorkerExit(w), UNCHANGED <<fallback, finished>> PROVE InOnePlace'
  <2>1. Held' = Held /\ Distinct' = Distinct
    BY <1>6 DEF WorkerExit, Held, Distinct
  <2> QED
    BY <1>6, <2>1 DEF WorkerExit
<1>7. ASSUME NEW w \in Worker, JobReturns(w), Finish(busy[w]), UNCHANGED fallback PROVE InOnePlace'
  <2>1. Held' = Held /\ Distinct' = Distinct
    BY <1>7 DEF JobReturns, Finish, Held, Distinct
  <2> QED
    BY <1>7, <2>1 DEF JobReturns, Finish
<1>8. ASSUME NEW j \in Job, DirectReturns(j), Finish(j), UNCHANGED fallback PROVE InOnePlace'
  <2>1. Held' = Held /\ Distinct' = Distinct
    BY <1>8 DEF DirectReturns, Finish, Held, Distinct
  <2> QED
    BY <1>8, <2>1 DEF DirectReturns, Finish
<1>9. ASSUME NEW j \in Job, CallerRuns(j) PROVE InOnePlace'
  <2>1. Held' = Held /\ Distinct' = Distinct
    BY <1>9 DEF CallerRuns, Held, Distinct
  <2> QED
    BY <1>9, <2>1 DEF CallerRuns
<1>10. ASSUME NEW j \in Job, CallerReturns(j) PROVE InOnePlace'
  <2>1. Held' = Held /\ Distinct' = Distinct
    BY <1>10 DEF CallerReturns, Held, Distinct
  <2> QED
    <3>1. submit[j] \in {"refused", "overflow"} /\ j \notin Held /\ \A w \in Worker : busy[w] # j
      BY <1>10 DEF CallerReturns
    <3> QED
      BY <1>10, <2>1, <3>1 DEF CallerReturns
<1>11. ASSUME CloseFlag \/ CloseChan \/ CloseReturn, UNCHANGED <<fallback, finished>> PROVE InOnePlace'
  <2>1. Held' = Held /\ Distinct' = Distinct
    BY <1>11 DEF CloseFlag, CloseChan, CloseReturn, Held, Distinct
  <2> QED
    BY <1>11, <2>1 DEF CloseFlag, CloseChan, CloseReturn
<1>12. ASSUME UNCHANGED vars PROVE InOnePlace'
  <2>1. Held' = Held /\ Distinct' = Distinct
    BY <1>12 DEF vars, Held, Distinct
  <2> QED
    BY <1>12, <2>1 DEF vars
<1> QED
  BY <1>1, <1>2, <1>3, <1>4, <1>5, <1>6, <1>7, <1>8, <1>9, <1>10, <1>11, <1>12 DEF Next, SubmitStep

LEMMA NextPool == PoolInv /\ [Next]_vars => PoolInv'
BY NextType, NextOthers, NextLeave, NextPlace DEF PoolInv

\* A job is never in two places at a time, so that the pool runs it once.
THEOREM JobsInOnePlace == FairSpec => []PoolInv
BY InitPool, NextPool, PTL DEF FairSpec

\* Close of the pool waits for every job the queue took, for any number of
\* workers and callers.
THEOREM CloseWaits == FairSpec => []CloseWaitsForQueued
<1>1. PoolInv => CloseWaitsForQueued
  <2> SUFFICES ASSUME PoolInv, closing = "done" PROVE CloseWaitsForQueued
    BY DEF CloseWaitsForQueued
  <2>1. Len(queue) = 0 /\ \A w \in Worker : busy[w] = None
    BY EmptySeq DEF PoolInv, LeaveLast
  <2>2. Held = {}
    BY <2>1 DEF Held
  <2> QED
    BY <2>1, <2>2 DEF PoolInv, TypeOK, InOnePlace, CloseWaitsForQueued
<1> QED
  BY <1>1, JobsInOnePlace, PTL
=============================================================================
