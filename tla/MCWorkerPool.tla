----------------------------- MODULE MCWorkerPool -----------------------------
(* Instances of WorkerPool for TLC: more jobs than workers and queue slots. *)
EXTENDS WorkerPool
=============================================================================
