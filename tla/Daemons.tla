------------------------------- MODULE Daemons -------------------------------
(***************************************************************************)
(* The client's commands (internal/client/cli): the reconnect loop of a    *)
(* daemon (tunnel_runner.go), the file that names it (daemon.go,           *)
(* daemon_unix.go), and the commands stop, list and attach that read,      *)
(* check and remove that file (stop.go, list.go, attach.go).               *)
(*                                                                         *)
(* A file is named by tunnel type and local port.  The model has one such  *)
(* name; daemons of other names have other files.  What a file says is     *)
(* told by the process that wrote it.  Writing it never fails (the code    *)
(* goes on without it).                                                    *)
(***************************************************************************)
EXTENDS Integers, FiniteSets

CONSTANTS
    Proc,         \* daemon processes
    PID,          \* process numbers, used again and again
    Reused,       \* those that other programs may get
    Command,      \* calls of stop, list and attach
    MaxAttempts,  \* maxReconnectAttempts (5)
    NoFile, Torn  \* no file, and one that cannot be parsed

ASSUME DaemonsAssumption ==
    MaxAttempts \in Nat \ {0, 1} /\ NoFile # Torn /\ {NoFile, Torn} \cap Proc = {} /\ Reused \subseteq PID

VARIABLES
    run,       \* "none", "boot", "connect", "wait", "save", "write", "up",
               \*   "close", "remove", "exit"
    pid,       \* of each process, also after its end
    starters,  \* processes whose starter still polls: their end leaves a zombie
    attempts,  \* reconnectAttempts
    sig,       \* processes that were sent SIGTERM
    file,      \* NoFile, Torn, or the process that wrote it
    foreign,   \* PIDs of the user's other programs
    cmd,       \* "idle", "check", "kill", "remove", "end"
    stops,     \* calls of stop; the others only clean up
    read,      \* what a call read
    shared,    \* history: processes that ran while another one did
    robbed,    \* history: those whose file went with that of an older one
    untidy     \* history: those that ended by a crash, or while not connected,
               \*   and did not remove the file

procvars == <<run, pid, starters, attempts, sig, shared, untidy>>
cmdvars  == <<cmd, stops, read>>
dvars    == <<procvars, cmdvars, file, foreign, robbed>>

DInit ==
    /\ run = [p \in Proc |-> "none"] /\ pid \in [Proc -> PID] /\ starters = {}
    /\ attempts = [p \in Proc |-> 0] /\ sig = {} /\ shared = {} /\ untidy = {}
    /\ file = NoFile /\ foreign = {} /\ robbed = {}
    /\ cmd = [c \in Command |-> "idle"] /\ stops \in SUBSET Command
    /\ read = [c \in Command |-> NoFile]

Alive(p) == run[p] \notin {"none", "exit"}
Holders(id) == {p \in Proc : pid[p] = id /\ (Alive(p) \/ p \in starters)}

\* Signal 0 reaches whoever has the number, a zombie included.
IsProcessRunning(id) == id \in foreign \/ Holders(id) # {}

RTo(p, step) == run' = [run EXCEPT ![p] = step]
RunsOn == <<pid, starters, sig, shared, cmdvars, foreign, robbed>>
Leaves(p) == untidy' = IF run'[p] = "exit" THEN untidy \cup {p} ELSE untidy

-----------------------------------------------------------------------------
(* Processes                                                               *)

\* StartDaemon; the starter polls the file until it names the new process, for
\* thirty seconds at most.
StartDaemon(p) ==
    /\ run[p] = "none" /\ ~IsProcessRunning(pid[p])
    /\ RTo(p, "boot") /\ starters' = starters \cup {p}
    /\ shared' = shared \cup (IF \E q \in Proc : Alive(q) THEN {p} \cup {q \in Proc : Alive(q)} ELSE {})
    /\ UNCHANGED <<pid, attempts, sig, untidy, cmdvars, file, foreign, robbed>>

StarterEnds(p) ==
    /\ p \in starters /\ starters' = starters \ {p}
    /\ UNCHANGED <<run, pid, attempts, sig, shared, untidy, cmdvars, file, foreign, robbed>>

OthersChange(id) ==
    /\ foreign' = IF id \in foreign THEN foreign \ {id} ELSE foreign \cup {id}
    /\ id \in foreign \/ ~IsProcessRunning(id)
    /\ UNCHANGED <<procvars, cmdvars, file, robbed>>

Crash(p) ==
    /\ Alive(p) /\ RTo(p, "exit") /\ untidy' = untidy \cup {p}
    /\ UNCHANGED <<pid, starters, attempts, sig, shared, cmdvars, file, foreign, robbed>>

-----------------------------------------------------------------------------
(* runTunnelWithUI                                                         *)

Boot(p) ==
    /\ run[p] = "boot" /\ RTo(p, "connect")
    /\ UNCHANGED <<RunsOn, untidy, attempts, file>>

\* An error that a new attempt would not mend, or the last attempt, ends it.
AttemptFails(p) ==
    /\ run[p] = "connect"
    /\ \/ RTo(p, "exit") /\ UNCHANGED attempts
       \/ /\ attempts' = [attempts EXCEPT ![p] = @ + 1]
          /\ RTo(p, IF attempts[p] + 1 >= MaxAttempts THEN "exit" ELSE "wait")
    /\ Leaves(p) /\ UNCHANGED <<RunsOn, file>>

Connected(p) ==
    /\ run[p] = "connect" /\ RTo(p, "save") /\ attempts' = [attempts EXCEPT ![p] = 0]
    /\ UNCHANGED <<RunsOn, untidy, file>>

\* SaveDaemonInfo: os.WriteFile truncates, or creates, and then writes.
SaveOpens(p) ==
    /\ run[p] = "save" /\ RTo(p, "write") /\ file' = Torn
    /\ UNCHANGED <<RunsOn, untidy, attempts>>

\* A file removed since stays away; one that another process wrote since is
\* overwritten, perhaps in part.
SaveWrites(p) ==
    /\ run[p] = "write" /\ RTo(p, "up")
    /\ file' \in (IF file = NoFile THEN {NoFile} ELSE IF file = Torn THEN {p} ELSE {p, Torn})
    /\ UNCHANGED <<RunsOn, untidy, attempts>>

\* A loss counts as the first attempt: Connected has set the count to zero.
Breaks(p) ==
    /\ run[p] = "up" /\ attempts' = [attempts EXCEPT ![p] = @ + 1]
    /\ RTo(p, IF attempts[p] + 1 >= MaxAttempts THEN "exit" ELSE "wait")
    /\ Leaves(p) /\ UNCHANGED <<RunsOn, file>>

\* The signal waits in a channel for one of the two selects.  While it waits to
\* reconnect the process ends and leaves its file.
Quit(p) ==
    /\ p \in sig
    /\ \/ run[p] = "up" /\ RTo(p, "close")
       \/ run[p] = "wait" /\ RTo(p, "exit")
    /\ Leaves(p) /\ UNCHANGED <<RunsOn, attempts, file>>

Retry(p) ==
    /\ run[p] = "wait" /\ RTo(p, "connect")
    /\ UNCHANGED <<RunsOn, untidy, attempts, file>>

\* connector.Close, two seconds at most.
Closed(p) ==
    /\ run[p] = "close" /\ RTo(p, "remove")
    /\ UNCHANGED <<RunsOn, untidy, attempts, file>>

\* Wrong variant: its file is left to the command.
Mut_RemoveOwn(p) ==
    /\ run[p] = "remove" /\ RTo(p, "exit")
    /\ UNCHANGED <<RunsOn, untidy, attempts, file>>

\* RemoveDaemonInfo goes by the name, whoever wrote the file.
RemoveOwn(p) ==
    /\ run[p] = "remove" /\ RTo(p, "exit") /\ file' = NoFile
    /\ UNCHANGED <<RunsOn, untidy, attempts>>

-----------------------------------------------------------------------------
(* stop, and the clean-up of list, attach and stop all                     *)

CTo(c, step) == cmd' = [cmd EXCEPT ![c] = step]

Load(c) ==
    /\ cmd[c] = "idle" /\ read' = [read EXCEPT ![c] = file]
    /\ CTo(c, IF file \in {NoFile, Torn} THEN "end" ELSE "check")
    /\ UNCHANGED <<procvars, stops, file, foreign, robbed>>

StopChecks(c) ==
    /\ c \in stops /\ cmd[c] = "check"
    /\ CTo(c, IF IsProcessRunning(pid[read[c]]) THEN "kill" ELSE "remove")
    /\ UNCHANGED <<procvars, stops, read, file, foreign, robbed>>

\* Wrong variant: what was listed is taken for dead.
Mut_Cleans(c) ==
    /\ c \notin stops /\ cmd[c] = "check" /\ CTo(c, "remove")
    /\ UNCHANGED <<procvars, stops, read, file, foreign, robbed>>

\* CleanupStaleDaemons, and what list, attach and stop all do once more.
Cleans(c) ==
    /\ c \notin stops /\ cmd[c] = "check"
    /\ CTo(c, IF IsProcessRunning(pid[read[c]]) THEN "end" ELSE "remove")
    /\ UNCHANGED <<procvars, stops, read, file, foreign, robbed>>

\* SIGTERM goes to whoever has the number now; a process that has not asked for
\* signals yet dies of it.  An error leaves the file.
Kill(c) ==
    LET hit == Holders(pid[read[c]]) IN
    /\ cmd[c] = "kill" /\ CTo(c, IF IsProcessRunning(pid[read[c]]) THEN "remove" ELSE "end")
    /\ sig' = sig \cup hit
    /\ run' = [p \in Proc |-> IF p \in hit /\ run[p] = "boot" THEN "exit" ELSE run[p]]
    /\ UNCHANGED <<pid, starters, attempts, shared, untidy, stops, read, file, foreign, robbed>>

RemoveSeen(c) ==
    /\ cmd[c] = "remove" /\ CTo(c, "end") /\ file' = NoFile
    /\ robbed' = robbed \cup {p \in Proc \ {read[c]} : file = p \/ (file = Torn /\ run[p] = "write")}
    /\ UNCHANGED <<procvars, stops, read, foreign>>

-----------------------------------------------------------------------------
Connects(p) == AttemptFails(p) \/ Connected(p)
Runs(p)     == Boot(p) \/ SaveOpens(p) \/ SaveWrites(p) \/ Closed(p) \/ RemoveOwn(p)
Answers(c)  == StopChecks(c) \/ Cleans(c) \/ Kill(c) \/ RemoveSeen(c)

DaemonStep ==
    \/ \E p \in Proc : StartDaemon(p) \/ StarterEnds(p) \/ Crash(p) \/ Connects(p) \/ Runs(p)
                    \/ Breaks(p) \/ Quit(p) \/ Retry(p)
    \/ \E c \in Command : Load(c) \/ Answers(c)
    \/ \E id \in Reused : OthersChange(id)

\* An attempt to connect ends by its timeouts, a command is not left half way,
\* and a select takes a signal that waits.
DaemonFairness ==
    /\ \A p \in Proc :
        /\ WF_dvars(Connects(p)) /\ WF_dvars(Runs(p)) /\ WF_dvars(Retry(p))
        /\ SF_dvars(Quit(p))
    /\ \A c \in Command : WF_dvars(Answers(c))

-----------------------------------------------------------------------------
(* Properties                                                              *)

\* A daemon that is connected can be found by its file, unless it was told to
\* stop, another one of its type and port ran beside it, or a command that had
\* read the file of a dead one removed what it found by then.
UpHasFile ==
    \A p \in Proc : run[p] = "up" => file = p \/ p \in sig \cup shared \cup robbed

\* A daemon that stop has signalled ends, in whatever state it was, and its file
\* is gone although it may write it again after stop has removed it.  Only one
\* that was not connected leaves it.
StopEnds ==
    \A p \in Proc : p \in sig /\ p \notin shared ~> run[p] = "exit" /\ (file # p \/ p \in untidy)

=============================================================================
