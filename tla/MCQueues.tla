------------------------------- MODULE MCQueues -------------------------------
(* The two queues of the shared packages in four scenes, chosen at the start: *)
(* the worker pool; the frame writer with callers and Flush; with heartbeats  *)
(* switched on and off; and in the hands of a connection.                     *)
EXTENDS WorkerPool, FrameLoop

CONSTANTS f1, f2, c1   \* frames

ASSUME MCQueuesAssumption == {f1, f2, c1} \subseteq Frame

VARIABLE scene

MCInit == Init /\ FLInit /\ scene \in {"pool", "writer", "beats", "frames"}

MCNext ==
    /\ \/ scene = "pool" /\ Next /\ UNCHANGED loopvars
       \/ /\ scene \notin {"pool", "frames"} /\ UNCHANGED <<vars, connvars>>
          /\ \/ LoopRuns \/ Tick \/ CloseCheck \/ Closes \/ WriteOk
             \/ ~failed /\ WriteFails
             \/ \E f \in IF scene = "beats" THEN {f1} ELSE {f1, f2, c1} : CallCheck(f) \/ Calling(f)
             \/ scene = "writer" /\ (FlushCheck \/ Flushes)
             \/ scene = "beats" /\ (HeartbeatTick \/ ToggleFlag \/ ToggleSignal)
       \/ scene = "frames" /\ FLStep /\ UNCHANGED vars
    /\ scene' = scene

\* In the scene of the pool the writer's loop has not been started.
MCSpec ==
    /\ MCInit /\ [][MCNext]_<<vars, loopvars, scene>>
    /\ \/ scene = "pool" /\ Fairness
       \/ scene # "pool" /\ FLFairness
=============================================================================
