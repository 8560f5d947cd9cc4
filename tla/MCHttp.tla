-------------------------------- MODULE MCHttp --------------------------------
(* Four scenes, chosen at the start: the hand-off of connections, the login, *)
(* a registration that requests race with, and exchanges.                    *)
EXTENDS HTTPProxy, HandOff

CONSTANTS r1, r2, pub, priv   \* a public address and one of a reverse proxy

ASSUME MCHttpAssumption == {r1, r2} \subseteq Req

VARIABLES
    scene,
    racers,  \* history: connections in Enqueue when the queue was drained
    early,   \* history: requests that found no rules, or no auth, set yet
    past,    \* history: requests past the rate limit when the lock was set
    peak     \* history: most requests past the rate limit at a time

mcvars == <<httpvars, handvars, scene, racers, early, past, peak>>

Plain == [allow |-> {}, deny |-> {}, auth |-> "none", tcp |-> FALSE]
WithAuth(a) == [Plain EXCEPT !.auth = a]
Ruled == {[allow |-> x, deny |-> y, auth |-> z, tcp |-> t] :
            x \in {{}, {Malformed}, {{pub, priv}}}, y \in {{}, {{priv}}}, z \in {"none", "bearer"},
            t \in BOOLEAN}
Setups == Ruled \cup {WithAuth("password")}

Page == [remote |-> pub, forwarded |-> NoHeader, real |-> NoHeader, path |-> "page",
         cred |-> "bad", cookie |-> NoHeader, kind |-> "plain"]
FromProxy == [Page EXCEPT !.remote = priv, !.forwarded = pub]
Asks(sc) ==
    CASE sc = "login" -> {[Page EXCEPT !.cred = "bad", !.path = "login"], [Page EXCEPT !.cred = "good", !.path = "login"],
                          [Page EXCEPT !.cookie = "tk"]}
      [] sc = "setup" -> {Page, FromProxy, [FromProxy EXCEPT !.forwarded = NoHeader],
                          [FromProxy EXCEPT !.forwarded = NoHeader, !.real = pub, !.cred = "good"]}
      [] sc = "serve" -> {Page, [Page EXCEPT !.kind = "ws"], [Page EXCEPT !.kind = "connect"]}
      [] OTHER -> {Page}
AllAsks == UNION {Asks(sc) : sc \in {"login", "setup", "serve", "handoff"}}

MCInit ==
    /\ scene \in {"handoff", "login", "setup", "serve"}
    /\ HTTPInit /\ HandInit /\ stage = IF scene = "setup" THEN 0 ELSE 5
    /\ ask \in [Req -> Asks(scene)]
    /\ scene = "setup" => \A r \in Req \ {r1} : ask[r] = Page
    /\ setup \in CASE scene = "login" -> {WithAuth("password"), WithAuth("bearer")}
                   [] scene = "setup" -> Ruled [] OTHER -> {Plain}
    /\ racers = {} /\ early = {} /\ past = {} /\ peak = 0

Pending == {r \in Req : at[r] \in {"bearer", "login", "password"}}
Locked(a) == entries[a] # NoEntry /\ entries[a].lock = "on"
Larger(x, y) == IF x > y THEN x ELSE y

MCNext ==
    /\ \/ /\ scene = "handoff" /\ HandOffStep /\ UNCHANGED httpvars
       \/ /\ scene = "login" /\ UNCHANGED <<handvars, tunvars>>
          /\ \/ Passing /\ UNCHANGED reqvars
             \/ \E r \in Req : Deciding(r) /\ opener' = opener
       \/ /\ scene = "setup" /\ UNCHANGED handvars
          /\ \/ Configure
             \/ \E r \in {r1} : Deciding(r) \/ Opens(r) \/ OpenFails(r) \/ Opened(r)
       \/ /\ scene = "serve" /\ UNCHANGED handvars
          /\ \/ SessionEnds \/ TunnelLeaves
             \/ \E r \in {r1, r2} : Serving(r) \/ Exchange(r)
    /\ scene' = scene
    /\ racers' = IF drained' /\ ~drained THEN {c \in Http : hand[c] = "send"} ELSE racers
    /\ early' = early \cup {r \in Req :
                            \/ at[r] = "rules" /\ at'[r] = "auth" /\ stage < 3
                            \/ at[r] = "auth" /\ at'[r] = "open" /\ stage < 4
                            \/ at[r] = "open" /\ at'[r] = "wait" /\ stage < 2}
    /\ past' = IF \E a \in Addr : Locked(a)' /\ ~Locked(a) THEN Pending' ELSE past
    /\ peak' = Larger(peak, Cardinality(Pending'))

Spec == MCInit /\ [][MCNext]_mcvars /\ HTTPFairness

TypeOK == HTTPTypeOK /\ gauge \in 0..Cardinality(Http) /\ queue \subseteq Http

\* A connection whose handler is gone is closed, or the HTTP server's to
\* close.  Nobody's is only one that was on its way into the queue while the
\* queue was drained.
NobodyForgets ==
    /\ \A c \in Http : hand[c] = "done" /\ c \notin cut => http[c] # "no" \/ c \in queue
    /\ drained => queue \subseteq racers

\* Whoever is about to get a stream was let in by every rule of the tunnel, or
\* looked before the registration, which puts the tunnel into the registry
\* first, had set that rule.
AdmittedByRules ==
    \A r \in Req : at[r] \in {"open", "wait", "late"} \cup Exchanging /\ r \notin early =>
        /\ \A d \in Deny : ClientIP(r) \notin d
        /\ Allow # {} => \E n \in Allow : ClientIP(r) \in n
        /\ at[r] # "open" => ~setup.tcp
        /\ setup.auth = "bearer" => ask[r].cred = "good"
        /\ setup.auth = "password" => ask[r].cookie \in used

\* A lock needs many failures at a time: each request that was let past the
\* limit counts at most one, and an old window's count is never built upon.
LockNeedsBurst ==
    \A a \in Addr : entries[a] # NoEntry =>
        /\ entries[a].failures < MaxFailures + peak
        /\ Locked(a) => peak > Threshold - MaxFailures

\* A lock ends by its time, or by a request that was past the limit when the
\* lock was set: neither the cleanup nor a new window nor a later request
\* lifts it.
LockLasts ==
    [][\A a \in Addr : Locked(a) /\ ~Locked(a)' =>
          \/ entries'[a] # NoEntry /\ entries'[a].lock = "over"
          \/ \E r \in past : r \in Pending /\ r \notin Pending']_mcvars
=============================================================================
