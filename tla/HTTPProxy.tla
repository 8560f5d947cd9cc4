------------------------------ MODULE HTTPProxy ------------------------------
(***************************************************************************)
(* Requests to one HTTP tunnel: ServeHTTP (internal/server/proxy/          *)
(* handler.go, websocket_handler.go), the login (AuthLimiter), the address *)
(* rules (internal/shared/netutil/ip.go, ipaccess.go), and the connection  *)
(* object they read (internal/server/tunnel/connection.go) while the       *)
(* registration sets it up and the end of the tunnel takes it away.        *)
(*                                                                         *)
(* The paths of the server itself (/health, /stats, discovery) touch no    *)
(* tunnel and are left out.                                                *)
(***************************************************************************)
EXTENDS AuthLimiter

CONSTANTS
    Req,        \* requests
    Ask,        \* what a request may be, see AskType
    Setup,      \* what a tunnel may ask for, see SetupType
    Private,    \* addresses of private networks
    Malformed,  \* a rule ParseCIDR does not accept
    NoHeader

AskType == [remote : Addr, forwarded : Addr \cup {NoHeader}, real : Addr \cup {NoHeader},
            path : {"page", "login"}, cred : {"good", "bad"}, cookie : Token \cup {NoHeader},
            kind : {"plain", "ws", "connect"}]
\* A rule is a set of addresses, or Malformed.
SetupType == [allow : SUBSET (SUBSET Addr \cup {Malformed}), deny : SUBSET (SUBSET Addr \cup {Malformed}),
              auth : {"none", "bearer", "password"}, tcp : BOOLEAN]

ASSUME HTTPProxyAssumption ==
    IsFiniteSet(Req) /\ Ask \subseteq AskType /\ Setup \subseteq SetupType

VARIABLES
    setup,   \* the rules and the auth of the registration request
    stage,   \* registration: 0 absent, 1 in the registry, 2 type set,
             \*   3 address rules set, 4 proxy auth set, 5 openStream set
    life,    \* "up", "down" (mux session closed), "out" (unregistered), "closed"
    ask,     \* each request
    at,      \* where it is
    opener,  \* its goroutine in openStreamWithTimeout: "off", "calling", "sent"
    given,   \* the goroutine's result: "none", "stream", "error"
    strm,    \* its stream: "none", "open", "closed"
    active,  \* activeConnections of the connection object
    left     \* requests whose client is gone

reqvars   == <<ask, at, opener, given, strm, active, left>>
tunvars   == <<setup, stage, life>>
httpvars  == <<tunvars, reqvars, authvars>>

\* A tunnel about to be registered, or one that is set up.
HTTPInit ==
    /\ AuthInit /\ setup \in Setup /\ stage \in {0, 5} /\ life = "up"
    /\ ask \in [Req -> Ask] /\ at = [r \in Req |-> "new"]
    /\ opener = [r \in Req |-> "off"] /\ given = [r \in Req |-> "none"]
    /\ strm = [r \in Req |-> "none"] /\ active = 0 /\ left = {}

-----------------------------------------------------------------------------
(* Address rules                                                           *)

\* NewIPAccessChecker passes over what it cannot parse.
Parsed(rules) == rules \ {Malformed}
Allow == Parsed(setup.allow)
Deny  == Parsed(setup.deny)
HasRules == stage >= 3 /\ (Allow # {} \/ Deny # {})

IsAllowed(a) == a \notin UNION Deny /\ (Allow # {} => a \in UNION Allow)

\* ExtractClientIP: the headers count when they come from a private network.
ClientIP(r) ==
    LET q == ask[r] IN
    IF q.remote \in Private /\ q.forwarded # NoHeader THEN q.forwarded
    ELSE IF q.remote \in Private /\ q.real # NoHeader THEN q.real ELSE q.remote

-----------------------------------------------------------------------------
(* The tunnel                                                              *)

Configure ==
    /\ stage < 5 /\ stage' = stage + 1
    /\ UNCHANGED <<setup, life, reqvars, authvars>>

\* The session's end takes the streams with it; then Unregister removes the
\* entry and closes the connection object.
SessionEnds ==
    /\ life = "up" /\ stage > 0 /\ life' = "down"
    /\ strm' = [r \in Req |-> IF strm[r] = "open" THEN "closed" ELSE strm[r]]
    /\ UNCHANGED <<setup, stage, ask, at, opener, given, active, left, authvars>>

TunnelLeaves ==
    /\ \/ life = "down" /\ life' = "out"
       \/ life = "out" /\ life' = "closed"
    /\ UNCHANGED <<setup, stage, reqvars, authvars>>

-----------------------------------------------------------------------------
(* ServeHTTP, up to the tunnel                                             *)

Goes(r, step) == at' = [at EXCEPT ![r] = step]
Rest == <<ask, opener, given, strm, active, left>>

Lookup(r) ==
    /\ at[r] = "new"
    /\ Goes(r, IF stage = 0 \/ life \in {"out", "closed"} THEN "404" ELSE "found")
    /\ UNCHANGED <<tunvars, Rest, authvars>>

\* The connection object may have been closed since.
CheckClosed(r) ==
    /\ at[r] = "found" /\ Goes(r, IF life = "closed" THEN "502" ELSE "rules")
    /\ UNCHANGED <<tunvars, Rest, authvars>>

\* Wrong variant: an address that is allowed passes although it is denied.
Mut_CheckRules(r) ==
    /\ at[r] = "rules"
    /\ Goes(r, IF HasRules /\ ~IsAllowed(ClientIP(r)) /\ ClientIP(r) \notin UNION Allow
               THEN "403" ELSE "auth")
    /\ UNCHANGED <<tunvars, Rest, authvars>>

CheckRules(r) ==
    /\ at[r] = "rules"
    /\ Goes(r, IF HasRules /\ ~IsAllowed(ClientIP(r)) THEN "403" ELSE "auth")
    /\ UNCHANGED <<tunvars, Rest, authvars>>

\* The rate limit first; then the three ways to be known.
CheckAuth(r) ==
    /\ at[r] = "auth"
    /\ Goes(r, IF stage < 4 \/ setup.auth = "none" THEN "open"
               ELSE IF IsRateLimited(ClientIP(r)) THEN "429"
               ELSE IF setup.auth = "bearer" THEN "bearer"
               ELSE IF ask[r].path = "login" THEN "login" ELSE "cookie")
    /\ UNCHANGED <<tunvars, Rest, authvars>>

Bearer(r) ==
    /\ at[r] = "bearer"
    /\ IF ask[r].cred = "good"
       THEN Goes(r, "open") /\ ResetFailures(ClientIP(r)) /\ UNCHANGED <<sessions, used>>
       ELSE Goes(r, "401") /\ RecordFailure(ClientIP(r))
    /\ UNCHANGED <<tunvars, Rest>>

\* validate; an expired session is taken out.
Cookie(r) ==
    LET t == ask[r].cookie IN
    /\ at[r] = "cookie"
    /\ Goes(r, IF t # NoHeader /\ sessions[t] = "fresh" THEN "open" ELSE "401")
    /\ sessions' = IF t # NoHeader /\ sessions[t] = "expired"
                   THEN [sessions EXCEPT ![t] = "none"] ELSE sessions
    /\ UNCHANGED <<tunvars, Rest, entries, used>>

\* A POST of the login form looks at the rate limit again.
Login(r) ==
    /\ at[r] = "login"
    /\ Goes(r, IF IsRateLimited(ClientIP(r)) THEN "429" ELSE "password")
    /\ UNCHANGED <<tunvars, Rest, authvars>>

Password(r) ==
    /\ at[r] = "password"
    /\ IF ask[r].cred = "good"
       THEN Goes(r, "303") /\ ResetFailures(ClientIP(r)) /\ CreateSession
       ELSE Goes(r, "401") /\ RecordFailure(ClientIP(r))
    /\ UNCHANGED <<tunvars, Rest>>

-----------------------------------------------------------------------------
(* openStreamWithTimeout                                                   *)

\* The type is read from the connection object; none yet counts as HTTP.
WrongType == stage >= 2 /\ setup.tcp
RefuseKind(r) ==
    /\ at[r] = "open" /\ (WrongType \/ ask[r].kind = "connect")
    /\ Goes(r, IF WrongType THEN "502" ELSE "405")
    /\ UNCHANGED <<tunvars, Rest, authvars>>

StartOpen(r) ==
    /\ at[r] = "open" /\ ~WrongType /\ ask[r].kind # "connect" /\ Goes(r, "wait") /\ opener' = [opener EXCEPT ![r] = "calling"]
    /\ UNCHANGED <<tunvars, ask, given, strm, active, left, authvars>>

\* Connection.OpenStream: refused when closed or not set up; then the group
\* or the session opens one, or fails.
Opens(r) ==
    /\ opener[r] = "calling" /\ life = "up" /\ stage = 5
    /\ opener' = [opener EXCEPT ![r] = "sent"] /\ given' = [given EXCEPT ![r] = "stream"]
    /\ strm' = [strm EXCEPT ![r] = "open"]
    /\ UNCHANGED <<tunvars, ask, at, active, left, authvars>>

OpenFails(r) ==
    /\ opener[r] = "calling"
    /\ opener' = [opener EXCEPT ![r] = "sent"] /\ given' = [given EXCEPT ![r] = "error"]
    /\ UNCHANGED <<tunvars, ask, at, strm, active, left, authvars>>

\* The result is taken; the counter goes up with the stream.
Opened(r) ==
    /\ at[r] = "wait" /\ given[r] # "none"
    /\ IF given[r] = "error" THEN Goes(r, "502") /\ UNCHANGED active
       ELSE Goes(r, IF ask[r].kind = "ws" THEN "hijack" ELSE "write") /\ active' = active + 1
    /\ UNCHANGED <<tunvars, ask, opener, given, strm, left, authvars>>

OpenTimesOut(r) ==
    /\ at[r] = "wait" /\ Goes(r, "late")
    /\ UNCHANGED <<tunvars, Rest, authvars>>

\* The extra goroutine; the request itself was answered at the timeout.
CloseLate(r) ==
    /\ at[r] = "late" /\ given[r] # "none" /\ Goes(r, "502")
    /\ strm' = [strm EXCEPT ![r] = "closed"]
    /\ UNCHANGED <<tunvars, ask, opener, given, active, left, authvars>>

-----------------------------------------------------------------------------
(* The exchange                                                            *)

Works(r) == strm[r] = "open"

Exchanging == {"hijack", "write", "header", "body", "pipe"}

\* The deferred calls: the stream is closed and the counter goes down.
Finish(r, status) ==
    /\ Goes(r, status) /\ active' = active - 1
    /\ strm' = [strm EXCEPT ![r] = "closed"]
    /\ UNCHANGED <<tunvars, ask, opener, given, left, authvars>>

\* Wrong variant: an error after Hijack leaves the counter.
Mut_HijackFails(r) ==
    /\ at[r] = "hijack" /\ Goes(r, "500")
    /\ strm' = [strm EXCEPT ![r] = "closed"]
    /\ UNCHANGED <<tunvars, ask, opener, given, active, left, authvars>>

HijackFails(r) == at[r] = "hijack" /\ Finish(r, "500")

\* r.Write, of an upgrade or of a request.
Forward(r) ==
    /\ \/ at[r] = "hijack" /\ Goes(r, "pipe")
       \/ at[r] = "write" /\ Goes(r, "header")
    /\ Works(r)
    /\ UNCHANGED <<tunvars, Rest, authvars>>

ForwardFails(r) == at[r] \in {"hijack", "write"} /\ Finish(r, "502")

\* ReadResponse: the service answers, or answers badly.
Answered(r) ==
    /\ at[r] = "header" /\ Works(r) /\ Goes(r, "body")
    /\ UNCHANGED <<tunvars, Rest, authvars>>

\* To a HEAD, or a 204 or 304: there is no body to copy.
AnsweredEmpty(r) == at[r] = "header" /\ Works(r) /\ Finish(r, "200")

AnswerFails(r) == at[r] = "header" /\ Finish(r, "502")

\* The stream is gone: r.Write, ReadResponse, the copy or the pipe notices.
StreamFails(r) ==
    /\ at[r] \in Exchanging /\ ~Works(r)
    /\ Finish(r, IF at[r] \in {"body", "pipe"} THEN "200" ELSE "502")

\* The body, or what the pipe carries, ends.
Completes(r) == at[r] \in {"body", "pipe"} /\ Finish(r, "200")

ClientLeaves(r) ==
    /\ at[r] \in {"wait", "write", "header", "body", "pipe"} /\ r \notin left
    /\ left' = left \cup {r}
    /\ UNCHANGED <<tunvars, ask, at, opener, given, strm, active, authvars>>

\* Wrong variant: the context of the request is not watched.
Mut_ContextDone(r) == FALSE /\ UNCHANGED httpvars

\* The goroutine beside the copy closes the stream when the request's context
\* is done; the pipe of a WebSocket reads the end of its client.
ContextDone(r) ==
    /\ at[r] \in {"body", "pipe"} /\ r \in left /\ Works(r)
    /\ strm' = [strm EXCEPT ![r] = "closed"]
    /\ UNCHANGED <<tunvars, ask, at, opener, given, active, left, authvars>>

-----------------------------------------------------------------------------
Deciding(r) == Lookup(r) \/ CheckClosed(r) \/ CheckRules(r) \/ CheckAuth(r) \/ Bearer(r) \/ Cookie(r)
                 \/ Login(r) \/ Password(r) \/ RefuseKind(r) \/ StartOpen(r)

\* What the server does without help.
Serving(r) == Deciding(r) \/ Opened(r) \/ CloseLate(r) \/ StreamFails(r) \/ ContextDone(r)

Exchange(r) == Opens(r) \/ OpenFails(r) \/ OpenTimesOut(r) \/ HijackFails(r) \/ Forward(r)
                 \/ ForwardFails(r) \/ Answered(r) \/ AnsweredEmpty(r) \/ AnswerFails(r) \/ Completes(r)
                 \/ ClientLeaves(r)

HTTPStep == Configure \/ SessionEnds \/ TunnelLeaves
              \/ \E r \in Req : Serving(r) \/ Exchange(r)
-----------------------------------------------------------------------------
Final == {"200", "303", "401", "403", "404", "405", "429", "500", "502"}

HTTPTypeOK ==
    /\ setup \in Setup /\ stage \in 0..5 /\ life \in {"up", "down", "out", "closed"}
    /\ ask \in [Req -> Ask]
    /\ at \in [Req -> {"new", "found", "rules", "auth", "bearer", "login", "password", "cookie",
                       "open", "wait", "late"} \cup Exchanging \cup Final]
    /\ opener \in [Req -> {"off", "calling", "sent"}]
    /\ given \in [Req -> {"none", "stream", "error"}]
    /\ strm \in [Req -> {"none", "open", "closed"}]
    /\ active \in 0..Cardinality(Req) /\ left \subseteq Req
    /\ \A a \in Addr : entries[a] # NoEntry =>
           /\ entries[a].failures \in 1..Cardinality(Req)
           /\ entries[a].window \in {"open", "over"} /\ entries[a].lock \in {"none", "on", "over"}
    /\ sessions \in [Token -> {"none", "fresh", "expired"}] /\ used \subseteq Token

\* The counter of active connections is exact, and an open stream belongs to a
\* request that uses it or to a goroutine that will close it, on every path of
\* errors and timeouts.
NothingLeft ==
    /\ active = Cardinality({r \in Req : at[r] \in Exchanging})
    /\ \A r \in Req : strm[r] = "open" => at[r] \in Exchanging \cup {"wait", "late"}

\* When the tunnel ends, or the client of an answer under way leaves, the
\* request ends.  A client that leaves before the answer is not noticed: a
\* service that never answers holds its handler while the tunnel lasts.
RequestsEnd ==
    \A r \in Req :
        (at[r] \in Exchanging /\ (life # "up" \/ (r \in left /\ at[r] \in {"body", "pipe"})))
            ~> (at[r] \in Final)

HTTPFairness ==
    \A r \in Req : WF_httpvars(Opened(r) \/ CloseLate(r) \/ StreamFails(r) \/ ContextDone(r))
=============================================================================
