-------------------------------- MODULE Pipe --------------------------------
(***************************************************************************)
(* PipeWithCallbacksAndBufferSize (internal/shared/netutil/pipe.go): two   *)
(* goroutines copy the two directions between end a, a TCP connection, and *)
(* end b, a yamux stream; a third one closes both ends when the context is *)
(* cancelled.  There is one pipe per connection c.                         *)
(*                                                                         *)
(* The direction "up" reads a and writes b, "down" the other way round.    *)
(* What is copied is counted in chunks.  A yamux stream that was closed on *)
(* this side can still be read, until its peer closes it or a deadline     *)
(* passes; a TCP connection that was closed cannot.  That yamux gives up a *)
(* half-closed stream after five minutes is not used.                      *)
(***************************************************************************)
EXTENDS Integers

CONSTANTS
    Conn,      \* connections
    Chunks     \* chunks each peer of a connection may send

VARIABLES
    way,       \* way[c][d]: where the goroutine of direction d is
    sent,      \* chunks the peer at the source has sent
    taken,     \* chunks read from the source
    moved,     \* chunks written to the destination
    last,      \* what the source's peer did last: "open", "end", "reset"
    how,       \* result of copyBuffer: "none", "eof", "error"
    due,       \* the source of this direction has a read deadline
    halt,      \* closeAll was called: stopCh closed, a and b closed
    cancelled, \* the context is done (not changed here)
    gone       \* connections whose stream is lost (not changed here)

pvars == <<way, sent, taken, moved, last, how, due, halt>>

Dir == {"up", "down"}
Other(d) == IF d = "up" THEN "down" ELSE "up"

PipeInit ==
    /\ way = [c \in Conn |-> [d \in Dir |-> "off"]]
    /\ sent = [c \in Conn |-> [d \in Dir |-> 0]]
    /\ taken = [c \in Conn |-> [d \in Dir |-> 0]]
    /\ moved = [c \in Conn |-> [d \in Dir |-> 0]]
    /\ last = [c \in Conn |-> [d \in Dir |-> "open"]]
    /\ how = [c \in Conn |-> [d \in Dir |-> "none"]]
    /\ due = [c \in Conn |-> [d \in Dir |-> FALSE]]
    /\ halt = [c \in Conn |-> FALSE]

\* The handler calls Pipe: both goroutines start.  stopCh is open.
PipeStart(c) ==
    /\ way' = [way EXCEPT ![c] = [d \in Dir |-> "read"]]
    /\ UNCHANGED <<sent, taken, moved, last, how, due, halt>>

PipeRuns(c) == \E d \in Dir : way[c][d] # "off"
PipeDone(c) == \A d \in Dir : way[c][d] = "done"

-----------------------------------------------------------------------------
(* The peers                                                               *)

PeerSends(c, d) ==
    /\ PipeRuns(c) /\ last[c][d] = "open" /\ sent[c][d] < Chunks[c]
    /\ sent' = [sent EXCEPT ![c][d] = @ + 1]
    /\ UNCHANGED <<way, taken, moved, last, how, due, halt>>

\* It closes its side in order, or resets the connection.
PeerEnds(c, d) ==
    /\ PipeRuns(c) /\ last[c][d] = "open"
    /\ \E l \in {"end", "reset"} : last' = [last EXCEPT ![c][d] = l]
    /\ UNCHANGED <<way, sent, taken, moved, how, due, halt>>

-----------------------------------------------------------------------------
(* copyBuffer                                                              *)

Lost(c, d) == last[c][d] = "reset" \/ (d = "down" /\ c \in gone)

\* Wrong variant: the half-closed end gets no read deadline.
Mut_HalfClose(c, d) == UNCHANGED due

\* pipeBuffer half-closes when copyBuffer returns: CloseRead on the source,
\* CloseWrite (or Close) on the destination, which from now on has ten
\* seconds to be read.
HalfClose(c, d) == due' = [due EXCEPT ![c][Other(d)] = TRUE]

Ends(c, d, r) ==
    /\ way' = [way EXCEPT ![c][d] = "close"]
    /\ how' = [how EXCEPT ![c][d] = r]
    /\ HalfClose(c, d)

Check(c, d) ==
    /\ way[c][d] = "check"
    /\ IF halt[c] THEN Ends(c, d, "error")
       ELSE way' = [way EXCEPT ![c][d] = "read"] /\ UNCHANGED <<how, due>>
    /\ UNCHANGED <<sent, taken, moved, last, halt>>

\* A source still readable: not a closed TCP connection, not a lost one.
Readable(c, d) == ~Lost(c, d) /\ ~(d = "up" /\ halt[c])

Read(c, d) ==
    /\ way[c][d] = "read" /\ Readable(c, d) /\ taken[c][d] < sent[c][d]
    /\ taken' = [taken EXCEPT ![c][d] = @ + 1]
    /\ way' = [way EXCEPT ![c][d] = "write"]
    /\ UNCHANGED <<sent, moved, last, how, due, halt>>

ReadEnds(c, d) ==
    /\ way[c][d] = "read" /\ Readable(c, d)
    /\ last[c][d] = "end" /\ taken[c][d] = sent[c][d]
    /\ Ends(c, d, "eof")
    /\ UNCHANGED <<sent, taken, moved, last, halt>>

\* The source is lost, closed, or its deadline has passed.
ReadFails(c, d) ==
    /\ way[c][d] = "read"
    /\ ~Readable(c, d) \/ due[c][d]
    /\ Ends(c, d, "error")
    /\ UNCHANGED <<sent, taken, moved, last, halt>>

\* The destination takes the chunk; it may take its time.
Write(c, d) ==
    /\ way[c][d] = "write" /\ ~halt[c] /\ ~Lost(c, Other(d))
    /\ moved' = [moved EXCEPT ![c][d] = @ + 1]
    /\ way' = [way EXCEPT ![c][d] = "check"]
    /\ UNCHANGED <<sent, taken, last, how, due, halt>>

WriteFailing(c, d) == way[c][d] = "write" /\ (halt[c] \/ Lost(c, Other(d)))

\* Wrong variant: the error of the write is not looked at.
Mut_WriteFails(c, d) ==
    /\ WriteFailing(c, d)
    /\ way' = [way EXCEPT ![c][d] = "read"]
    /\ UNCHANGED <<sent, taken, moved, last, how, due, halt>>

WriteFails(c, d) ==
    /\ WriteFailing(c, d) /\ Ends(c, d, "error")
    /\ UNCHANGED <<sent, taken, moved, last, halt>>

-----------------------------------------------------------------------------
(* closeAll                                                                *)

CloseAll(c, d) ==
    /\ way[c][d] = "close" /\ way' = [way EXCEPT ![c][d] = "done"]
    /\ halt' = [halt EXCEPT ![c] = TRUE]
    /\ UNCHANGED <<sent, taken, moved, last, how, due>>

CtxDone(c) ==
    /\ PipeRuns(c) /\ cancelled /\ ~halt[c]
    /\ halt' = [halt EXCEPT ![c] = TRUE]
    /\ UNCHANGED <<way, sent, taken, moved, last, how, due>>

-----------------------------------------------------------------------------
Peers(c) == \E d \in Dir : PeerSends(c, d) \/ PeerEnds(c, d)

\* What happens without a peer's help.
Runs(c, d) == Check(c, d) \/ Read(c, d) \/ ReadEnds(c, d) \/ ReadFails(c, d)
                \/ WriteFails(c, d) \/ CloseAll(c, d)

PipeStep(c) == Peers(c) \/ CtxDone(c) \/ \E d \in Dir : Runs(c, d) \/ Write(c, d)

\* A direction that ended with EOF has moved every chunk.  One that failed
\* was cut by the other's end, by the context or by a peer.
WholeUnlessCut(c) ==
    \A d \in Dir :
        /\ how[c][d] = "eof" => moved[c][d] = sent[c][d]
        /\ how[c][d] = "error" =>
               \/ how[c][Other(d)] # "none" \/ cancelled \/ c \in gone
               \/ "reset" \in {last[c]["up"], last[c]["down"]}
=============================================================================
