--------------------------- MODULE ConnectionGroup ---------------------------
(***************************************************************************)
(* The group of mux sessions of one tunnel (internal/server/tcp/           *)
(* connection_group.go, and the stale sweep of connection_group_manager.go)*)
(*                                                                         *)
(* OpenStream is called by many connections at a time.  It takes a         *)
(* snapshot of the sessions, the least loaded first, the primary only when *)
(* no data session is open, and tries them one after another, three times  *)
(* over.  The heartbeat loop pings a snapshot of the sessions one by one   *)
(* and takes out what failed three times in a row; a group of which no     *)
(* session has answered for five minutes is swept away.                    *)
(*                                                                         *)
(* A session is named by its connection ID, which a client never uses for  *)
(* two sessions.  NumStreams counts the streams the server has opened.     *)
(***************************************************************************)
EXTENDS Integers, FiniteSets

CONSTANTS
    Data,         \* data sessions, by connection ID
    Primary,      \* the ID "primary"
    Opener,       \* callers of OpenStream; each calls once
    StreamCap,    \* maxStreamsPerSession (256 in the code)
    MaxRetries,   \* maxRetries (3)
    MaxFailures,  \* maxConsecutiveFailures (3)
    StaleRounds,  \* heartbeat rounds that surely fit into staleTimeout
    None

Session == Data \cup {Primary}

ASSUME ConnectionGroupAssumption ==
    /\ IsFiniteSet(Data) /\ Primary \notin Data /\ None \notin Session
    /\ StreamCap \in Nat \ {0} /\ MaxRetries \in Nat \ {0}
    /\ MaxFailures \in Nat \ {0} /\ StaleRounds \in Nat
    /\ MaxFailures < StaleRounds   \* a round takes seconds, staleTimeout is five minutes

VARIABLES
    members,   \* keys of g.Sessions
    yam,       \* each yamux session: "none", "open", "closed"
    joined,    \* sessions AddSession was called for
    stopped,   \* g.stopCh is closed
    toClose,   \* sessions Close has taken and has yet to close
    swept,     \* the manager has dropped the group as stale
    beat,      \* heartbeat loop: "off", "wait", "ping", "end"
    snap,      \* sessions of its snapshot it has yet to ping
    fails,     \* failureCount
    quiet,     \* whole rounds since LastActivity, up to StaleRounds
    op,        \* OpenStream of each caller
    tries,     \* attempt
    heap,      \* its heap: sessions with the stream counts they had
    cur,       \* the session popped last
    stream     \* the session of the stream a caller has opened and nobody closed

group  == <<members, yam, joined, stopped, toClose, swept>>
pulse  == <<beat, snap, fails, quiet>>
opens  == <<op, tries, heap, cur>>
gvars  == <<group, pulse, opens, stream>>

\* What a dead session carried is gone with it.
NumStreams(s) == Cardinality({o \in Opener : stream[o] = s})
Usable(S) == {s \in S : yam[s] = "open"}

Init ==
    /\ members = {} /\ yam = [s \in Session |-> "none"] /\ joined = {}
    /\ stopped = FALSE /\ toClose = {} /\ swept = FALSE
    /\ beat = "off" /\ snap = {} /\ fails = [s \in Session |-> 0] /\ quiet = 0
    /\ op = [o \in Opener |-> "idle"] /\ tries = [o \in Opener |-> 0]
    /\ heap = [o \in Opener |-> {}] /\ cur = [o \in Opener |-> None]
    /\ stream = [o \in Opener |-> None]

-----------------------------------------------------------------------------
(* Sessions come and go                                                    *)

\* Wrong variant: LastActivity is left as it was.
Mut_AddSession(s) ==
    /\ s \notin joined
    /\ joined' = joined \cup {s} /\ members' = members \cup {s}
    /\ yam' = [yam EXCEPT ![s] = "open"]
    /\ beat' = IF beat = "off" THEN "wait" ELSE beat
    /\ UNCHANGED <<stopped, toClose, swept, snap, fails, quiet, opens, stream>>

AddSession(s) ==
    /\ s \notin joined
    /\ joined' = joined \cup {s} /\ members' = members \cup {s}
    /\ yam' = [yam EXCEPT ![s] = "open"]
    /\ beat' = IF beat = "off" THEN "wait" ELSE beat
    /\ quiet' = 0
    /\ UNCHANGED <<stopped, toClose, swept, snap, fails, opens, stream>>

\* A closed session's streams fail at both ends.
Shut(S) ==
    /\ yam' = [s \in Session |-> IF s \in S THEN "closed" ELSE yam[s]]
    /\ stream' = [o \in Opener |-> IF stream[o] \in S THEN None ELSE stream[o]]

\* The client, the network or yamux's own keep-alive.
SessionDies(s) ==
    /\ yam[s] = "open" /\ Shut({s})
    /\ UNCHANGED <<members, joined, stopped, toClose, swept, pulse, opens>>

\* RemoveSession closes what it takes out.
RemoveSession(s) ==
    /\ members' = members \ {s}
    /\ Shut(IF s \in members THEN {s} ELSE {})
    /\ UNCHANGED <<joined, stopped, toClose, swept>>

\* The deferred call of a data connection whose session is closed.
HandlerLeaves(s) ==
    /\ s \in Data \cap members /\ yam[s] = "closed"
    /\ RemoveSession(s)
    /\ UNCHANGED <<pulse, opens>>

CloseGroup ==
    /\ ~stopped /\ stopped' = TRUE
    /\ toClose' = members /\ members' = {}
    /\ UNCHANGED <<yam, joined, opens, stream>>

\* RemoveGroup, at the end of the primary's connection.
RemoveGroup == CloseGroup /\ UNCHANGED <<swept, pulse>>

\* cleanupStaleGroups
Sweep ==
    /\ beat # "off" /\ quiet = StaleRounds
    /\ CloseGroup /\ swept' = TRUE
    /\ UNCHANGED pulse

CloseSession ==
    /\ toClose # {}
    /\ \E s \in toClose : toClose' = toClose \ {s} /\ Shut({s})
    /\ UNCHANGED <<members, joined, stopped, swept, pulse, opens>>

-----------------------------------------------------------------------------
(* heartbeatLoop                                                           *)

BeatStart ==
    /\ beat = "wait" /\ beat' = "ping" /\ snap' = members
    /\ UNCHANGED <<group, fails, quiet, opens, stream>>

\* Found closed, or failing for the third time in a row.
BeatRemoves(s) ==
    /\ beat = "ping" /\ s \in snap
    /\ yam[s] = "closed" \/ fails[s] + 1 >= MaxFailures
    /\ snap' = snap \ {s} /\ fails' = [fails EXCEPT ![s] = 0]
    /\ RemoveSession(s)
    /\ UNCHANGED <<beat, quiet, opens>>

\* An error of Ping, or none of its answer within HeartbeatTimeout.
PingFails(s) ==
    /\ beat = "ping" /\ s \in snap /\ fails[s] + 1 < MaxFailures
    /\ snap' = snap \ {s} /\ fails' = [fails EXCEPT ![s] = @ + 1]
    /\ UNCHANGED <<group, beat, quiet, opens, stream>>

PingAnswered(s) ==
    /\ beat = "ping" /\ s \in snap /\ yam[s] = "open"
    /\ snap' = snap \ {s} /\ fails' = [fails EXCEPT ![s] = 0]
    /\ quiet' = 0
    /\ UNCHANGED <<group, beat, opens, stream>>

BeatRound ==
    /\ beat = "ping" /\ snap = {} /\ beat' = "wait"
    /\ quiet' = IF quiet < StaleRounds THEN quiet + 1 ELSE quiet
    /\ UNCHANGED <<group, snap, fails, opens, stream>>

BeatEnds ==
    /\ beat \in {"wait", "ping"} /\ stopped
    /\ beat' = "end" /\ snap' = {}
    /\ UNCHANGED <<group, fails, quiet, opens, stream>>

-----------------------------------------------------------------------------
(* OpenStream                                                              *)

To(o, step) == op' = [op EXCEPT ![o] = step]

\* buildSessionHeap over the sessions S, under the read lock.
BuildHeap(o, S) ==
    heap' = [heap EXCEPT ![o] = {[id |-> s, streams |-> NumStreams(s)] : s \in Usable(S)}]

Call(o) ==
    /\ op[o] = "idle" /\ To(o, "data")
    /\ UNCHANGED <<group, pulse, tries, heap, cur, stream>>

\* A closed group ends the call; without data sessions the primary serves.
TryData(o) ==
    /\ op[o] = "data"
    /\ IF stopped THEN To(o, "failed") /\ UNCHANGED heap
       ELSE /\ BuildHeap(o, members \ {Primary})
            /\ To(o, IF Usable(members \ {Primary}) = {} THEN "all" ELSE "pop")
    /\ UNCHANGED <<group, pulse, tries, cur, stream>>

TryAll(o) ==
    /\ op[o] = "all" /\ BuildHeap(o, members)
    /\ To(o, IF Usable(members) = {} THEN "failed" ELSE "pop")
    /\ UNCHANGED <<group, pulse, tries, cur, stream>>

\* The session that had the fewest streams; passed over if it is closed or
\* full by now.
Pop(o) ==
    /\ op[o] = "pop"
    /\ \E e \in heap[o] :
        /\ \A f \in heap[o] : e.streams <= f.streams
        /\ heap' = [heap EXCEPT ![o] = @ \ {e}]
        /\ IF yam[e.id] = "open" /\ NumStreams(e.id) < StreamCap
           THEN To(o, "open") /\ cur' = [cur EXCEPT ![o] = e.id]
           ELSE UNCHANGED <<op, cur>>
    /\ UNCHANGED <<group, pulse, tries, stream>>

\* session.Open, which does not look at the count again.
Opened(o) ==
    /\ op[o] = "open" /\ yam[cur[o]] = "open"
    /\ stream' = [stream EXCEPT ![o] = cur[o]]
    /\ heap' = [heap EXCEPT ![o] = {}] /\ cur' = [cur EXCEPT ![o] = None]
    /\ To(o, "got")
    /\ UNCHANGED <<group, pulse, tries>>

\* Wrong variant: the first error ends the call.
Mut_OpenFails(o) ==
    /\ op[o] = "open" /\ To(o, "failed")
    /\ cur' = [cur EXCEPT ![o] = None]
    /\ UNCHANGED <<group, pulse, tries, heap, stream>>

\* It fails, as a closed session's must; then the closed ones leave the group.
OpenFails(o) ==
    /\ op[o] = "open" /\ To(o, "pop")
    /\ cur' = [cur EXCEPT ![o] = None]
    /\ members' = IF yam[cur[o]] = "closed" THEN Usable(members) ELSE members
    /\ UNCHANGED <<yam, joined, stopped, toClose, swept, pulse, tries, heap, stream>>

\* The heap is used up: back off, or give up after the last attempt.
Exhausted(o) ==
    /\ op[o] = "pop" /\ heap[o] = {}
    /\ To(o, IF tries[o] < MaxRetries - 1 THEN "wait" ELSE "failed")
    /\ UNCHANGED <<group, pulse, tries, heap, cur, stream>>

Retry(o) ==
    /\ op[o] = "wait" /\ tries' = [tries EXCEPT ![o] = @ + 1]
    /\ To(o, "data")
    /\ UNCHANGED <<group, pulse, heap, cur, stream>>

StopsWaiting(o) ==
    /\ op[o] = "wait" /\ stopped /\ To(o, "failed")
    /\ UNCHANGED <<group, pulse, tries, heap, cur, stream>>

\* Its caller closes the stream.
StreamEnds(o) ==
    /\ op[o] = "got" /\ stream[o] # None
    /\ stream' = [stream EXCEPT ![o] = None]
    /\ UNCHANGED <<group, pulse, opens>>

-----------------------------------------------------------------------------
Beats == BeatStart \/ BeatRound \/ BeatEnds
            \/ \E s \in Session : BeatRemoves(s) \/ PingFails(s) \/ PingAnswered(s)

Opening(o) == TryData(o) \/ TryAll(o) \/ Pop(o) \/ Opened(o) \/ OpenFails(o)
                \/ Exhausted(o) \/ Retry(o) \/ StopsWaiting(o)

Sessions == CloseSession
            \/ \E s \in Session : AddSession(s) \/ SessionDies(s) \/ HandlerLeaves(s)
-----------------------------------------------------------------------------
GroupTypeOK ==
    /\ members \subseteq joined /\ joined \subseteq Session
    /\ yam \in [Session -> {"none", "open", "closed"}]
    /\ stopped \in BOOLEAN /\ toClose \subseteq Session /\ swept \in BOOLEAN
    /\ beat \in {"off", "wait", "ping", "end"} /\ snap \subseteq Session
    /\ fails \in [Session -> 0..(MaxFailures - 1)] /\ quiet \in 0..StaleRounds
    /\ op \in [Opener -> {"idle", "data", "all", "pop", "open", "wait", "got", "failed", "over"}]
    /\ tries \in [Opener -> 0..(MaxRetries - 1)]
    /\ \A o \in Opener :
        /\ cur[o] \in Session \cup {None} /\ stream[o] \in Session \cup {None}
        /\ \A e \in heap[o] : e.id \in Session /\ e.streams \in 0..Cardinality(Opener)

\* The stale sweep closes no session: a session that answers no ping is taken
\* out after MaxFailures rounds, long before its group counts as stale, and
\* one that joins or answers starts the time anew.
NoLiveSwept == [][swept' # swept => members = {}]_gvars
=============================================================================
