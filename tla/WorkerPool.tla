------------------------------ MODULE WorkerPool ------------------------------
(***************************************************************************)
(* The fixed pool of goroutines of internal/shared/pool/worker_pool.go:    *)
(* a bounded job channel, workers that range over it, Submit that never    *)
(* blocks and Close.  The actions on the pool's own state (SubmitCheck to  *)
(* CloseReturn) are also those Listener composes with its accept loop.     *)
(***************************************************************************)
EXTENDS Integers, Sequences, FiniteSets

CONSTANTS
    Job,         \* one call of Submit each
    Worker,
    QueueSize,   \* capacity of jobQueue
    None         \* no job

ASSUME PoolAssumption ==
    /\ IsFiniteSet(Job) /\ IsFiniteSet(Worker)
    /\ Worker # {} /\ QueueSize \in Nat \ {0}
    /\ None \notin Job

VARIABLES
    queue,       \* jobQueue
    busy,        \* the job each worker runs
    exited,      \* workers whose range loop has ended
    direct,      \* jobs run by the goroutines Submit starts on a full queue
    submit,      \* where each call of Submit is: "no", "send" (closed was
                 \* read as false), then what it returned, or its panic
    closing,     \* Close: "open", "flag" (closed = true), "chan" (channel
                 \* closed, waiting), "done"
    started,     \* times each job was started by the pool
    fallback,    \* what the caller of Submit does with a job it was refused
    finished     \* runs of each job that have ended

pool == <<queue, busy, exited, direct, submit, closing, started>>
vars == <<pool, fallback, finished>>

Init ==
    /\ queue = <<>>
    /\ busy = [w \in Worker |-> None]
    /\ exited = {}
    /\ direct = {}
    /\ submit = [j \in Job |-> "no"]
    /\ closing = "open"
    /\ started = [j \in Job |-> 0]
    /\ fallback = [j \in Job |-> "no"]
    /\ finished = [j \in Job |-> 0]

-----------------------------------------------------------------------------
(* Submit: `closed` is read under a read lock that is released before the  *)
(* send, so Close may come between the two.                                *)

SubmitCheck(j) ==
    /\ submit[j] = "no"
    /\ submit' = [submit EXCEPT ![j] = IF closing = "open" THEN "send" ELSE "refused"]
    /\ UNCHANGED <<queue, busy, exited, direct, closing, started>>

SubmitQueue(j) ==
    /\ submit[j] = "send" /\ closing \in {"open", "flag"}
    /\ Len(queue) < QueueSize
    /\ queue' = Append(queue, j)
    /\ submit' = [submit EXCEPT ![j] = "queued"]
    /\ UNCHANGED <<busy, exited, direct, closing, started>>

\* The queue is full: `go job()`, and Submit returns false all the same.
SubmitOverflow(j) ==
    /\ submit[j] = "send" /\ closing \in {"open", "flag"}
    /\ Len(queue) = QueueSize
    /\ direct' = direct \cup {j}
    /\ started' = [started EXCEPT ![j] = @ + 1]
    /\ submit' = [submit EXCEPT ![j] = "overflow"]
    /\ UNCHANGED <<queue, busy, exited, closing>>

\* A send on the channel Close has closed.
SubmitPanic(j) ==
    /\ submit[j] = "send" /\ closing \in {"chan", "done"}
    /\ submit' = [submit EXCEPT ![j] = "panic"]
    /\ UNCHANGED <<queue, busy, exited, direct, closing, started>>

-----------------------------------------------------------------------------
(* worker                                                                  *)

Take(w) ==
    /\ w \notin exited /\ busy[w] = None /\ queue # <<>>
    /\ busy' = [busy EXCEPT ![w] = Head(queue)]
    /\ started' = [started EXCEPT ![Head(queue)] = @ + 1]
    /\ queue' = Tail(queue)
    /\ UNCHANGED <<exited, direct, submit, closing>>

JobReturns(w) ==
    /\ busy[w] # None
    /\ busy' = [busy EXCEPT ![w] = None]
    /\ UNCHANGED <<queue, exited, direct, submit, closing, started>>

DirectReturns(j) ==
    /\ j \in direct
    /\ direct' = direct \ {j}
    /\ UNCHANGED <<queue, busy, exited, submit, closing, started>>

\* Wrong variant: a worker leaves as soon as the channel is closed.
Mut_WorkerExit(w) ==
    /\ w \notin exited /\ busy[w] = None
    /\ closing \in {"chan", "done"}
    /\ exited' = exited \cup {w}
    /\ UNCHANGED <<queue, busy, direct, submit, closing, started>>

\* The range over a closed channel ends when the channel is empty.
WorkerExit(w) ==
    /\ w \notin exited /\ busy[w] = None /\ queue = <<>>
    /\ closing \in {"chan", "done"}
    /\ exited' = exited \cup {w}
    /\ UNCHANGED <<queue, busy, direct, submit, closing, started>>

-----------------------------------------------------------------------------
(* Close                                                                   *)

CloseFlag ==
    /\ closing = "open" /\ closing' = "flag"
    /\ UNCHANGED <<queue, busy, exited, direct, submit, started>>

CloseChan ==
    /\ closing = "flag" /\ closing' = "chan"
    /\ UNCHANGED <<queue, busy, exited, direct, submit, started>>

\* Wrong variant: Close does not wait for the workers.
Mut_CloseReturn ==
    /\ closing = "chan" /\ closing' = "done"
    /\ UNCHANGED <<queue, busy, exited, direct, submit, started>>

\* p.wg.Wait()
CloseReturn ==
    /\ closing = "chan" /\ exited = Worker /\ closing' = "done"
    /\ UNCHANGED <<queue, busy, exited, direct, submit, started>>

-----------------------------------------------------------------------------
(* Callers: SubmitWait and the accept loop of the listener run a job       *)
(* themselves when Submit returns false.                                   *)

CallerRuns(j) ==
    /\ submit[j] \in {"refused", "overflow"} /\ fallback[j] = "no"
    /\ fallback' = [fallback EXCEPT ![j] = "running"]
    /\ UNCHANGED <<pool, finished>>

CallerReturns(j) ==
    /\ fallback[j] = "running"
    /\ fallback' = [fallback EXCEPT ![j] = "ended"]
    /\ finished' = [finished EXCEPT ![j] = @ + 1]
    /\ UNCHANGED pool

Finish(j) == finished' = [finished EXCEPT ![j] = @ + 1]

SubmitStep(j) ==
    SubmitCheck(j) \/ SubmitQueue(j) \/ SubmitOverflow(j) \/ SubmitPanic(j)

Next ==
    \/ \E j \in Job : SubmitStep(j) /\ UNCHANGED <<fallback, finished>>
    \/ \E w \in Worker :
        \/ (Take(w) \/ WorkerExit(w)) /\ UNCHANGED <<fallback, finished>>
        \/ JobReturns(w) /\ Finish(busy[w]) /\ UNCHANGED fallback
    \/ \E j \in Job : DirectReturns(j) /\ Finish(j) /\ UNCHANGED fallback
    \/ \E j \in Job : CallerRuns(j) \/ CallerReturns(j)
    \/ (CloseFlag \/ CloseChan \/ CloseReturn) /\ UNCHANGED <<fallback, finished>>

(***************************************************************************)
(* Go schedules every runnable goroutine and the jobs of these callers     *)
(* return.  Nobody has to call Submit or Close.                            *)
(***************************************************************************)
Fairness ==
    /\ \A j \in Job :
        /\ WF_vars((SubmitQueue(j) \/ SubmitOverflow(j) \/ SubmitPanic(j))
                     /\ UNCHANGED <<fallback, finished>>)
        /\ WF_vars(CallerRuns(j) \/ CallerReturns(j))
        /\ WF_vars(DirectReturns(j) /\ Finish(j) /\ UNCHANGED fallback)
    /\ \A w \in Worker :
        WF_vars(\/ (Take(w) \/ WorkerExit(w)) /\ UNCHANGED <<fallback, finished>>
                \/ JobReturns(w) /\ Finish(busy[w]) /\ UNCHANGED fallback)
    /\ WF_vars((CloseChan \/ CloseReturn) /\ UNCHANGED <<fallback, finished>>)

FairSpec == Init /\ [][Next]_vars /\ Fairness

-----------------------------------------------------------------------------
(* Properties                                                              *)

\* The values the variables may take.
TypeOK ==
    /\ queue \in Seq(Job) /\ Len(queue) <= QueueSize
    /\ busy \in [Worker -> Job \cup {None}]
    /\ exited \subseteq Worker /\ direct \subseteq Job
    /\ submit \in [Job -> {"no", "send", "queued", "refused", "overflow", "panic"}]
    /\ closing \in {"open", "flag", "chan", "done"}
    /\ started \in [Job -> Nat] /\ finished \in [Job -> Nat]
    /\ fallback \in [Job -> {"no", "running", "ended"}]

\* When Close has returned, no job the queue took is waiting or running.
CloseWaitsForQueued ==
    closing = "done" => \A j \in Job : submit[j] = "queued" => finished[j] = 1

\* Whatever Submit answers, and however Close interleaves, the job of a caller
\* that runs what was refused is run in the end, unless the send panicked.
EveryJobRuns ==
    \A j \in Job : submit[j] \in {"send", "queued", "refused", "overflow"}
                     ~> finished[j] >= 1 \/ submit[j] = "panic"

\* "Pool is closed or full, execute directly" (worker_pool.go:98): a job that
\* Submit answered false for is run by its caller only.
RefusedRunsOnce ==
    \A j \in Job : fallback[j] # "no" => started[j] = 0
=============================================================================
