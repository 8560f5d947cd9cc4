----------------------------- MODULE FrameWriter -----------------------------
(***************************************************************************)
(* The frame writer of internal/shared/protocol/writer.go: calls that put  *)
(* data and control frames into two queues, the loop that writes them to   *)
(* the connection one at a time or in batches, Flush, Close, and the       *)
(* heartbeat the loop may send on its own.                                 *)
(*                                                                         *)
(* The lock w.mu is held over every write to the connection, so a peer     *)
(* that does not read holds up whoever wants the lock.  Which peer takes a *)
(* frame and when a write fails is left to the module that has the         *)
(* connection (FrameLoop).                                                 *)
(***************************************************************************)
EXTENDS Integers, Sequences, FiniteSets

CONSTANTS
    Data,        \* data frames, one call of WriteFrame each
    Control,     \* control frames, one call of WriteControl each
    DataCap,     \* capacity of queue (4096)
    ControlCap,  \* capacity of controlQueue (256)
    MaxBatch,    \* maxBatch (256)
    LowDepth,    \* lowConcurrencyThreshold (16)
    Beat,        \* the frame of the heartbeat callback
    NoFrame,
    MaxToggles   \* bound: calls of EnableHeartbeat and DisableHeartbeat

Frame == Data \cup Control

ASSUME FrameWriterAssumption ==
    /\ IsFiniteSet(Frame) /\ Data \cap Control = {} /\ Beat \notin Frame /\ NoFrame \notin Frame
    /\ DataCap \in Nat \ {0} /\ ControlCap \in Nat \ {0}
    /\ MaxBatch \in Nat \ {0} /\ LowDepth \in Nat /\ MaxToggles \in Nat

VARIABLES
    call,      \* each call: "no", "send" (closed was read as false), "ok",
               \*   "refused", "late" (it timed out or was cancelled), "panic"
    dataq,     \* w.queue
    ctlq,      \* w.controlQueue
    batch,     \* w.batch
    mu,        \* who holds w.mu over more than one step: "free", "loop", "flush"
    todo,      \* the frames its holder has yet to write
    at,        \* the loop: "start", "top", "select", "data" and "control" (it
               \*   received a frame and wants the lock), "signal", "write"
               \*   (it has the lock), "last", "final" (the last write), "ended"
    got,       \* the frame it received
    shut,      \* w.closed
    failed,    \* w.writeErr is set
    wclose,    \* Close: "no", "flag", "data" and "control" (this queue is
               \*   closed), "drain", "done"; "skip" if it found closed set
    flush,     \* Flush: "no", "take", "write", "done"
    beat,      \* <<heartbeatEnabled, the ticker runs, a signal is in heartbeatControl>>
    toggle,    \* EnableHeartbeat or DisableHeartbeat has set the flag only
    toggles,
    backlog,   \* queuedFrames
    marked,    \* frames whose queuedBytes is set
    released,  \* how often each frame was given back to the buffer pool
    sent,      \* history: data frames in the order they were queued
    wire,      \* history: frames written, in order
    raced      \* history: Flush took frames while the loop had an older one

calls   == <<call, backlog, marked>>
queues  == <<dataq, ctlq, sent>>
locked  == <<mu, todo, batch>>
beating == <<beat, toggle, toggles>>
ends    == <<shut, failed, wclose, flush, raced>>
fwvars  == <<calls, queues, locked, at, got, ends, beating, released, wire>>

FWInit ==
    /\ call = [f \in Frame |-> "no"] /\ backlog = 0 /\ marked = {}
    /\ dataq = <<>> /\ ctlq = <<>> /\ sent = <<>> /\ batch = <<>>
    /\ mu = "free" /\ todo = <<>> /\ at = "start" /\ got = NoFrame
    /\ shut = FALSE /\ failed = FALSE /\ wclose = "no" /\ flush = "no" /\ raced = FALSE
    /\ beat = [on |-> FALSE, ticks |-> FALSE, signal |-> FALSE] /\ toggle = FALSE /\ toggles = 0
    /\ released = [f \in Frame |-> 0] /\ wire = <<>>

DataClosed    == wclose \in {"data", "control", "drain", "done"}
ControlClosed == wclose \in {"control", "drain", "done"}
Done          == wclose = "done"            \* w.done is closed

\* unmarkQueued: the counter goes down once for each mark.
Unmark(f) == marked' = marked \ {f} /\ backlog' = IF f \in marked THEN backlog - 1 ELSE backlog
Release(f) == released' = IF f = Beat THEN released ELSE [released EXCEPT ![f] = @ + 1]

-----------------------------------------------------------------------------
(* WriteFrame, WriteFrameWithCancel, WriteControl                          *)

CallCheck(f) ==
    /\ call[f] = "no" /\ mu = "free"
    /\ IF shut THEN call' = [call EXCEPT ![f] = "refused"] /\ UNCHANGED <<backlog, marked>>
       ELSE /\ call' = [call EXCEPT ![f] = "send"]
            /\ backlog' = backlog + 1 /\ marked' = marked \cup {f}
    /\ UNCHANGED <<queues, locked, at, got, ends, beating, released, wire>>

Enter(f) ==
    /\ call[f] = "send"
    /\ \/ /\ f \in Data /\ ~DataClosed /\ Len(dataq) < DataCap
          /\ dataq' = Append(dataq, f) /\ sent' = Append(sent, f) /\ UNCHANGED ctlq
       \/ /\ f \in Control /\ ~ControlClosed /\ Len(ctlq) < ControlCap
          /\ ctlq' = Append(ctlq, f) /\ UNCHANGED <<dataq, sent>>
    /\ call' = [call EXCEPT ![f] = "ok"]
    /\ UNCHANGED <<backlog, marked, locked, at, got, ends, beating, released, wire>>

\* A send on a closed channel panics; its mark stays.
SendPanics(f) ==
    /\ call[f] = "send" /\ (IF f \in Data THEN DataClosed ELSE ControlClosed)
    /\ call' = [call EXCEPT ![f] = "panic"]
    /\ UNCHANGED <<backlog, marked, queues, locked, at, got, ends, beating, released, wire>>

\* Wrong variant: a call that times out keeps its mark.
Mut_GivesUp(f) ==
    /\ call[f] = "send"
    /\ \/ Done /\ call' = [call EXCEPT ![f] = "refused"] /\ Unmark(f)
       \/ /\ ~Done /\ (IF f \in Data THEN Len(dataq) = DataCap ELSE Len(ctlq) = ControlCap)
          /\ call' = [call EXCEPT ![f] = "late"] /\ UNCHANGED <<backlog, marked>>
    /\ UNCHANGED <<queues, locked, at, got, ends, beating, released, wire>>

\* w.done; or the queue stays full for thirty seconds (a control frame: fifty
\* milliseconds), or the caller's cancel comes.
GivesUp(f) ==
    /\ call[f] = "send"
    /\ \/ Done /\ call' = [call EXCEPT ![f] = "refused"]
       \/ /\ ~Done /\ (IF f \in Data THEN Len(dataq) = DataCap ELSE Len(ctlq) = ControlCap)
          /\ call' = [call EXCEPT ![f] = "late"]
    /\ Unmark(f)
    /\ UNCHANGED <<queues, locked, at, got, ends, beating, released, wire>>

-----------------------------------------------------------------------------
(* writeLoop                                                               *)

LoopTo(step) == at' = step

LoopStart ==
    /\ at = "start" /\ mu = "free" /\ LoopTo("top") /\ beat' = [beat EXCEPT !.ticks = beat.on]
    /\ UNCHANGED <<calls, queues, locked, got, ends, toggle, toggles, released, wire>>

\* Control frames are looked at first, without waiting.
ControlFirst ==
    /\ at = "top"
    /\ IF ctlq # <<>> THEN LoopTo("control") /\ got' = Head(ctlq) /\ ctlq' = Tail(ctlq)
       ELSE LoopTo(IF ControlClosed THEN "last" ELSE "select") /\ UNCHANGED <<got, ctlq>>
    /\ UNCHANGED <<calls, dataq, sent, locked, ends, beating, released, wire>>

TakeData ==
    /\ at = "select" /\ dataq # <<>>
    /\ LoopTo("data") /\ got' = Head(dataq) /\ dataq' = Tail(dataq)
    /\ UNCHANGED <<calls, ctlq, sent, locked, ends, beating, released, wire>>

\* The queue, or w.done, is closed.
LoopLeaves ==
    /\ at = "select" /\ ((dataq = <<>> /\ DataClosed) \/ Done) /\ LoopTo("last")
    /\ UNCHANGED <<calls, queues, locked, got, ends, beating, released, wire>>

Full(b) == Len(b) >= MaxBatch \/ Len(dataq) <= LowDepth

\* The lock is taken for one write or a batch, or for a look.
LockWith(frames, rest, next) ==
    /\ mu = "free" /\ batch' = rest
    /\ IF frames = <<>> THEN UNCHANGED <<mu, todo>> /\ LoopTo(next)
       ELSE mu' = "loop" /\ todo' = frames /\ LoopTo(IF next = "ended" THEN "final" ELSE "write")

LoopLocks ==
    /\ \/ at = "data" /\ LET b == Append(batch, got) IN
                         IF Full(b) THEN LockWith(b, <<>>, "top") ELSE LockWith(<<>>, b, "top")
       \/ at = "control" /\ LockWith(<<got>>, batch, "top")
       \/ at = "last" /\ LockWith(batch, <<>>, "ended")
    /\ got' = NoFrame
    /\ UNCHANGED <<calls, queues, ends, beating, released, wire>>

\* The batch ticker, two milliseconds.
Tick ==
    /\ at = "select" /\ LockWith(batch, <<>>, "top")
    /\ UNCHANGED <<calls, queues, got, ends, beating, released, wire>>

HeartbeatTick ==
    /\ at = "select" /\ beat.ticks /\ LockWith(<<Beat>>, batch, "top")
    /\ UNCHANGED <<calls, queues, got, ends, beating, released, wire>>

TakeSignal ==
    /\ at = "select" /\ beat.signal /\ LoopTo("signal") /\ beat' = [beat EXCEPT !.signal = FALSE]
    /\ UNCHANGED <<calls, queues, locked, got, ends, toggle, toggles, released, wire>>

ApplySignal ==
    /\ at = "signal" /\ mu = "free" /\ LoopTo("top") /\ beat' = [beat EXCEPT !.ticks = beat.on]
    /\ UNCHANGED <<calls, queues, locked, got, ends, toggle, toggles, released, wire>>

\* flushFrameLocked.
Written(f, ok) ==
    /\ wire' = IF ok /\ f # Beat THEN Append(wire, f) ELSE wire
    /\ Unmark(f) /\ Release(f) /\ todo' = Tail(todo)
    /\ UNCHANGED <<call, queues, mu, batch, at, got, wclose, flush, raced, beating>>

WriteOk == todo # <<>> /\ Written(Head(todo), TRUE) /\ UNCHANGED <<shut, failed>>

\* The first error closes the writer for callers; the handler it starts is the
\* owner's.
WriteFails == todo # <<>> /\ Written(Head(todo), FALSE) /\ shut' = TRUE /\ failed' = TRUE

LoopUnlocks ==
    /\ mu = "loop" /\ todo = <<>> /\ mu' = "free"
    /\ LoopTo(IF at = "final" THEN "ended" ELSE "top")
    /\ UNCHANGED <<calls, queues, todo, batch, got, ends, beating, released, wire>>

-----------------------------------------------------------------------------
(* Close                                                                   *)

\* After a write error it returns at once: the queues, w.done and the loop
\* stay as they are.
CloseCheck ==
    /\ wclose = "no" /\ mu = "free" /\ shut' = TRUE /\ wclose' = (IF shut THEN "skip" ELSE "flag")
    /\ UNCHANGED <<calls, queues, locked, at, got, failed, flush, raced, beating, released, wire>>

CloseQueues ==
    /\ \/ wclose = "flag" /\ wclose' = "data"
       \/ wclose = "data" /\ wclose' = "control"
    /\ UNCHANGED <<calls, queues, locked, at, got, shut, failed, flush, raced, beating, released, wire>>

\* Wrong variant: the control queue is forgotten.
Mut_CloseDrains ==
    /\ \/ /\ wclose = "control" /\ dataq # <<>> /\ dataq' = Tail(dataq)
          /\ Unmark(Head(dataq)) /\ Release(Head(dataq)) /\ UNCHANGED wclose
       \/ /\ wclose = "control" /\ dataq = <<>> /\ wclose' = "done"
          /\ UNCHANGED <<marked, backlog, released, dataq>>
    /\ UNCHANGED <<call, ctlq, sent, locked, at, got, shut, failed, flush, raced, beating, wire>>

\* What is queued is thrown away, frame by frame, while the loop takes too.
CloseDrains ==
    /\ \/ /\ wclose = "control" /\ dataq # <<>> /\ dataq' = Tail(dataq)
          /\ Unmark(Head(dataq)) /\ Release(Head(dataq)) /\ UNCHANGED <<ctlq, wclose>>
       \/ /\ wclose = "control" /\ dataq = <<>> /\ wclose' = "drain"
          /\ UNCHANGED <<marked, backlog, released, dataq, ctlq>>
       \/ /\ wclose = "drain" /\ ctlq # <<>> /\ ctlq' = Tail(ctlq)
          /\ Unmark(Head(ctlq)) /\ Release(Head(ctlq)) /\ UNCHANGED <<dataq, wclose>>
       \/ /\ wclose = "drain" /\ ctlq = <<>> /\ wclose' = "done"
          /\ UNCHANGED <<marked, backlog, released, dataq, ctlq>>
    /\ UNCHANGED <<call, sent, locked, at, got, shut, failed, flush, raced, beating, wire>>

-----------------------------------------------------------------------------
(* Flush: the lock is held from the check to the last write.  (A closed    *)
(* queue would keep its loop spinning: the break leaves the select only.)  *)

FlushCheck ==
    /\ flush = "no" /\ mu = "free"
    /\ IF shut THEN flush' = "done" /\ UNCHANGED mu ELSE flush' = "take" /\ mu' = "flush"
    /\ UNCHANGED <<calls, queues, todo, batch, at, got, shut, failed, wclose, raced, beating, released, wire>>

\* Wrong variant: what is queued goes before what is in the batch.
Mut_FlushTakes ==
    /\ flush = "take" /\ ~DataClosed
    /\ flush' = "write" /\ todo' = dataq \o batch /\ batch' = <<>> /\ dataq' = <<>>
    /\ raced' = (raced \/ (at = "data" /\ dataq # <<>>))
    /\ UNCHANGED <<calls, ctlq, sent, mu, at, got, shut, failed, wclose, beating, released, wire>>

FlushTakes ==
    /\ flush = "take"
    /\ IF dataq # <<>>
       THEN /\ batch' = Append(batch, Head(dataq)) /\ dataq' = Tail(dataq)
            /\ raced' = (raced \/ at = "data") /\ UNCHANGED <<flush, todo>>
       ELSE /\ ~DataClosed /\ flush' = "write" /\ todo' = batch /\ batch' = <<>>
            /\ UNCHANGED <<raced, dataq>>
    /\ UNCHANGED <<calls, ctlq, sent, mu, at, got, shut, failed, wclose, beating, released, wire>>

FlushUnlocks ==
    /\ flush = "write" /\ todo = <<>> /\ mu' = "free" /\ flush' = "done"
    /\ UNCHANGED <<calls, queues, todo, batch, at, got, shut, failed, wclose, raced, beating, released, wire>>

-----------------------------------------------------------------------------
(* EnableHeartbeat, DisableHeartbeat                                       *)

ToggleFlag ==
    /\ ~toggle /\ toggles < MaxToggles /\ mu = "free"
    /\ toggle' = TRUE /\ toggles' = toggles + 1 /\ beat' = [beat EXCEPT !.on = ~@]
    /\ UNCHANGED <<calls, queues, locked, at, got, ends, released, wire>>

\* A signal that is already there will do.
ToggleSignal ==
    /\ toggle /\ toggle' = FALSE /\ beat' = [beat EXCEPT !.signal = TRUE]
    /\ UNCHANGED <<calls, queues, locked, at, got, ends, toggles, released, wire>>

-----------------------------------------------------------------------------
Calling(f) == Enter(f) \/ SendPanics(f) \/ GivesUp(f)
LoopRuns   == LoopStart \/ ControlFirst \/ TakeData \/ LoopLeaves \/ LoopLocks \/ LoopUnlocks
                \/ TakeSignal \/ ApplySignal
Closes     == CloseQueues \/ CloseDrains
Flushes    == FlushTakes \/ FlushUnlocks

-----------------------------------------------------------------------------
(* Properties                                                              *)

InQueues(f) ==
    LET all == dataq \o ctlq \o batch \o todo \o <<got>> IN
    Cardinality({i \in DOMAIN all : all[i] = f})

\* A frame that was queued is in one place, or was given back once; the counter
\* counts those and the calls under way, and a panic's for ever.
CountedOnce ==
    /\ \A f \in Frame : call[f] = "ok" => InQueues(f) + released[f] = 1
    /\ \A f \in Frame : call[f] # "ok" => InQueues(f) + released[f] = 0
    /\ backlog = Cardinality(marked)
    /\ \A f \in Frame : f \in marked <=> (call[f] \in {"send", "panic"} \/ InQueues(f) = 1)

Before(s, e, f) == \E i, j \in DOMAIN s : i < j /\ s[i] = e /\ s[j] = f

\* Data frames reach the connection in the order they were queued, through the
\* loop, its batches and Flush, unless Flush ran while the loop had a frame in
\* hand and no lock yet.
InOrder == ~raced => \A e, f \in Data : Before(wire, e, f) => Before(sent, e, f)

=============================================================================
