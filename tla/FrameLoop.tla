------------------------------ MODULE FrameLoop ------------------------------
(***************************************************************************)
(* A tunnel connection of a type that is neither TCP nor HTTP, once it is  *)
(* registered (internal/server/tcp/connection.go 253-276, 317-371,         *)
(* frame_handler.go, heartbeatChecker and lifecycle_manager.go): the loop  *)
(* that reads frames and answers heartbeats through the frame writer, the  *)
(* heartbeat checker, the write-error handler, and Connection.Close.       *)
(***************************************************************************)
EXTENDS FrameWriter

VARIABLES
    peer,     \* the client: "here", "silent" (neither reads nor writes), "gone"
    reader,   \* HandleFrames: "read", "ack", "return" (its deferred Close), "over"
    ack,      \* the answer it is sending
    lc,       \* Connection.Close: "no", "stop", "writer", "conn", "done"
    timedOut  \* the deadline of the connection is now

loopvars == <<fwvars, peer, reader, ack, lc, timedOut>>
connvars == <<peer, reader, ack, lc, timedOut>>

FLInit ==
    /\ FWInit /\ peer = "here" /\ reader = "read" /\ ack = NoFrame
    /\ lc = "no" /\ timedOut = FALSE

-----------------------------------------------------------------------------
(* The peer and the connection                                             *)

PeerChanges ==
    /\ peer # "gone" /\ peer' \in {"silent", "gone"} \ {peer}
    /\ UNCHANGED <<fwvars, reader, ack, lc, timedOut>>

\* The buffers of a silent peer take some frames.
Broken == timedOut \/ peer = "gone" \/ lc \in {"conn", "done"}
ConnTakes == ~Broken /\ WriteOk /\ UNCHANGED connvars
ConnFails == Broken /\ WriteFails /\ UNCHANGED connvars

-----------------------------------------------------------------------------
(* HandleFrames                                                            *)

\* A heartbeat comes in; its answer is a control frame.
ReadHeartbeat(f) ==
    /\ reader = "read" /\ peer = "here" /\ ~Broken /\ call[f] = "no" /\ f \in Control
    /\ reader' = "ack" /\ ack' = f
    /\ UNCHANGED <<fwvars, peer, lc, timedOut>>

SendAck == reader = "ack" /\ (CallCheck(ack) \/ Calling(ack)) /\ UNCHANGED connvars

\* An error is logged only; a panic unwinds to the deferred Close.
Acked ==
    /\ reader = "ack" /\ call[ack] \notin {"no", "send"} /\ ack' = NoFrame
    /\ reader' = IF call[ack] = "panic" THEN "return" ELSE "read"
    /\ UNCHANGED <<fwvars, peer, lc, timedOut>>

\* stopCh, a close frame, a bad one, thirty silent seconds, the connection's end.
ReadEnds ==
    /\ reader = "read" /\ reader' = "return"
    /\ UNCHANGED <<fwvars, peer, ack, lc, timedOut>>

ReaderOver ==
    /\ reader = "return" /\ lc = "done" /\ reader' = "over"
    /\ UNCHANGED <<fwvars, peer, ack, lc, timedOut>>

-----------------------------------------------------------------------------
(* Connection.Close                                                        *)

\* It is called, once, by the reader, the heartbeat checker (whenever six
\* seconds pass without a heartbeat), the write-error handler or Stop.
CloseBegins ==
    /\ lc = "no" /\ lc' = "stop"
    /\ UNCHANGED <<fwvars, peer, reader, ack, timedOut>>

\* Wrong variant: the deadline is left.
Mut_SetDeadline ==
    /\ lc = "stop" /\ lc' = "writer"
    /\ UNCHANGED <<fwvars, peer, reader, ack, timedOut>>

\* A write under way fails, and gives back the lock Close is about to want.
SetDeadline ==
    /\ lc = "stop" /\ lc' = "writer" /\ timedOut' = TRUE
    /\ UNCHANGED <<fwvars, peer, reader, ack>>

CloseWriter == lc = "writer" /\ CloseCheck /\ UNCHANGED connvars

CloseConn ==
    /\ \/ lc = "writer" /\ wclose \in {"done", "skip"} /\ lc' = "conn"
       \/ lc = "conn" /\ lc' = "done"
    /\ UNCHANGED <<fwvars, peer, reader, ack, timedOut>>

-----------------------------------------------------------------------------
WriterRuns == (LoopRuns \/ Tick \/ Closes) /\ UNCHANGED connvars
CloseGoesOn == SetDeadline \/ CloseWriter \/ CloseConn

FLStep ==
    \/ PeerChanges \/ ConnTakes \/ ConnFails \/ SendAck \/ Acked \/ ReadEnds \/ ReaderOver
    \/ CloseBegins \/ CloseGoesOn \/ WriterRuns \/ \E f \in Control : ReadHeartbeat(f)

\* A lost heartbeat, a write error or the reader's return ends the connection.
Losing == peer # "here" \/ failed \/ reader = "return"

(***************************************************************************)
(* Goroutines run, a select takes each of its ready cases at last, and the *)
(* lock goes to whoever waits for it (sync.Mutex does not starve).  A peer *)
(* that is here reads; one that is silent need not.                        *)
(***************************************************************************)
FLFairness ==
    /\ WF_loopvars(LoopRuns /\ UNCHANGED connvars) /\ WF_loopvars(CloseGoesOn)
    /\ \A f \in Data : WF_loopvars(Calling(f) /\ UNCHANGED connvars)
    /\ WF_loopvars(Flushes /\ UNCHANGED connvars)
    /\ SF_loopvars(TakeData /\ UNCHANGED connvars) /\ SF_loopvars(LoopLeaves /\ UNCHANGED connvars)
    /\ SF_loopvars(Tick /\ UNCHANGED connvars)
    /\ WF_loopvars(Closes /\ UNCHANGED connvars) /\ WF_loopvars(ConnFails)
    /\ WF_loopvars(peer = "here" /\ ConnTakes)
    /\ WF_loopvars(SendAck) /\ WF_loopvars(Acked) /\ WF_loopvars(ReaderOver)
    /\ WF_loopvars(lc # "no" /\ ReadEnds) /\ WF_loopvars(Losing /\ CloseBegins)

-----------------------------------------------------------------------------
(* Properties                                                              *)

FrameTypeOK ==
    /\ call \in [Frame -> {"no", "send", "ok", "refused", "late", "panic"}]
    /\ Len(dataq) <= DataCap /\ Len(ctlq) <= ControlCap /\ Len(batch) < MaxBatch + DataCap
    /\ mu \in {"free", "loop", "flush"} /\ (mu = "free" => todo = <<>>)
    /\ at \in {"start", "top", "select", "data", "control", "signal", "write", "last", "final", "ended"}
    /\ got \in Frame \cup {NoFrame} /\ shut \in BOOLEAN /\ (failed => shut)
    /\ wclose \in {"no", "flag", "data", "control", "drain", "done", "skip"}
    /\ flush \in {"no", "take", "write", "done"}
    /\ peer \in {"here", "silent", "gone"} /\ reader \in {"read", "ack", "return", "over"}
    /\ ack \in Control \cup {NoFrame} /\ lc \in {"no", "stop", "writer", "conn", "done"}

\* A client that falls silent or goes, a write error, and any end of the reader
\* end the connection, also when the loop or a heartbeat's answer hangs on the
\* lock that a blocked write holds.
ConnectionEnds == Losing ~> reader = "over"

\* A frame that was queued is written or given back: no batch waits for ever,
\* none is forgotten by Close, and a broken connection holds none.
FrameSettles == \A f \in Frame : (call[f] = "ok") ~> (released[f] = 1)
=============================================================================
