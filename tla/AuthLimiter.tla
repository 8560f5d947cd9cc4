----------------------------- MODULE AuthLimiter -----------------------------
(***************************************************************************)
(* What the login of a protected tunnel remembers between requests         *)
(* (internal/server/proxy/auth_handler.go): the failures of each address   *)
(* and the sessions of those who logged in.                                *)
(*                                                                         *)
(* Time is what the code asks of it: the window of an entry is open or     *)
(* over, its lock is none, on or over, a session is fresh or expired.  A   *)
(* lock, five minutes, outlasts the window it was set in, one minute.      *)
(* isRateLimited reads the fields of an entry after it has released the    *)
(* lock; here it reads them together.                                      *)
(***************************************************************************)
EXTENDS Integers, FiniteSets

CONSTANTS
    Addr,        \* client addresses
    Token,       \* session tokens, drawn at random and never twice
    MaxFailures, \* authRateLimitMax (10)
    Threshold,   \* authRateLimitLockoutThreshold (20)
    NoEntry

\* authRateLimitEntry; NoEntry is the nil of a missing one.
Entry == [failures : Nat, window : {"open", "over"}, lock : {"none", "on", "over"}]

ASSUME AuthLimiterAssumption ==
    /\ IsFiniteSet(Token) /\ NoEntry \notin Entry
    /\ MaxFailures \in Nat \ {0} /\ Threshold \in Nat \ {0}

VARIABLES
    entries,   \* authLimiter.entries
    sessions,  \* sessionStore.sessions: "none", "fresh", "expired"
    used       \* tokens drawn so far

authvars == <<entries, sessions, used>>

AuthInit ==
    /\ entries = [a \in Addr |-> NoEntry]
    /\ sessions = [t \in Token |-> "none"] /\ used = {}

IsRateLimited(a) ==
    LET e == entries[a] IN
    e # NoEntry /\ (e.lock = "on" \/ (e.window = "open" /\ e.failures >= MaxFailures))

NewWindow == [failures |-> 1, window |-> "open", lock |-> "none"]

Failed(e) ==
    [e EXCEPT !.failures = @ + 1,
              !.lock = IF e.failures + 1 >= Threshold THEN "on" ELSE @]

\* Wrong variant: a failure in an old window is added to the old count.
Mut_RecordFailure(a) ==
    LET e == entries[a] IN
    /\ entries' = [entries EXCEPT ![a] = IF e = NoEntry THEN NewWindow ELSE Failed(e)]
    /\ UNCHANGED <<sessions, used>>

RecordFailure(a) ==
    LET e == entries[a] IN
    /\ entries' = [entries EXCEPT ![a] =
           IF e = NoEntry \/ e.window = "over" THEN NewWindow ELSE Failed(e)]
    /\ UNCHANGED <<sessions, used>>

ResetFailures(a) == entries' = [entries EXCEPT ![a] = NoEntry]

CreateSession ==
    \E t \in Token \ used : used' = used \cup {t} /\ sessions' = [sessions EXCEPT ![t] = "fresh"]

-----------------------------------------------------------------------------
(* Time, and the two cleanup loops                                         *)

WindowPasses(a) ==
    /\ entries[a] # NoEntry /\ entries[a].window = "open"
    /\ entries' = [entries EXCEPT ![a].window = "over"]
    /\ UNCHANGED <<sessions, used>>

LockPasses(a) ==
    /\ entries[a] # NoEntry /\ entries[a].lock = "on" /\ entries[a].window = "over"
    /\ entries' = [entries EXCEPT ![a].lock = "over"]
    /\ UNCHANGED <<sessions, used>>

SessionExpires(t) ==
    /\ sessions[t] = "fresh" /\ sessions' = [sessions EXCEPT ![t] = "expired"]
    /\ UNCHANGED <<entries, used>>

\* Wrong variant: the lock is not looked at.
Mut_CleanupEntries ==
    /\ entries' = [a \in Addr |->
           IF entries[a] # NoEntry /\ entries[a].window = "over" THEN NoEntry ELSE entries[a]]
    /\ UNCHANGED <<sessions, used>>

CleanupEntries ==
    /\ entries' = [a \in Addr |->
           IF entries[a] # NoEntry /\ entries[a].window = "over" /\ entries[a].lock # "on"
           THEN NoEntry ELSE entries[a]]
    /\ UNCHANGED <<sessions, used>>

CleanupSessions ==
    /\ sessions' = [t \in Token |-> IF sessions[t] = "expired" THEN "none" ELSE sessions[t]]
    /\ UNCHANGED <<entries, used>>

Passing ==
    \/ CleanupEntries \/ CleanupSessions
    \/ \E a \in Addr : WindowPasses(a) \/ LockPasses(a)
    \/ \E t \in Token : SessionExpires(t)
=============================================================================
