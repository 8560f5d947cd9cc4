---------------------------- MODULE TunnelManager ----------------------------
(***************************************************************************)
(* The registry of live tunnels of the drip server                         *)
(* (internal/server/tunnel/manager.go, rate_limiter.go).                   *)
(*                                                                         *)
(* Every session is a goroutine that calls RegisterWithIP and, when its    *)
(* connection ends, Unregister.  The registry is not guarded by one lock:  *)
(* the global count is an atomic, the per-IP counts have ipMu, the rate    *)
(* limiter has its own mutex and the names are spread over shards with a   *)
(* mutex each.  A step of this module is one critical section or one       *)
(* atomic operation, so the steps of concurrent calls interleave exactly   *)
(* where the code lets them.                                               *)
(***************************************************************************)
EXTENDS Integers, FiniteSets

CONSTANTS
    Session,          \* goroutines that register tunnels
    Subdomain,        \* every name a client may ask for or the generator draw
    IP,               \* client addresses
    NoIP,             \* remoteIP = "" (what the drip server itself passes)
    RemoteIP,         \* the address of each session
    Request,          \* what clients ask for: subdomains and NoName
    NoName,           \* customSubdomain = "": the server draws a name
    ShortNames,       \* the names GenerateSubdomain(6) draws from
    LongNames,        \* the names GenerateSubdomain(8) draws from
    Invalid,          \* names ValidateSubdomain refuses
    Reserved,         \* names IsReserved refuses
    NumShards,        \* numShards (32 in the code)
    ShardOf,          \* getShard
    MaxTunnels, MaxTunnelsPerIP, RateLimit,
    MaxAttempts,      \* draws of generateUniqueSubdomain (10 in the code)
    CleanupTask,      \* whether StartCleanupTask was called
    MayShutdown,      \* whether Shutdown may be called
    None              \* no session

ASSUME ManagerAssumption ==
    /\ IsFiniteSet(Session) /\ IsFiniteSet(Subdomain)
    /\ None \notin Session /\ "janitor" \notin Session
    /\ NoIP \notin IP
    /\ RemoteIP \in [Session -> IP \cup {NoIP}]
    /\ NoName \notin Subdomain
    /\ Request \subseteq Subdomain \cup {NoName}
    /\ ShortNames \subseteq Subdomain /\ ShortNames # {}
    /\ LongNames \subseteq Subdomain /\ LongNames # {}
    /\ Invalid \subseteq Subdomain /\ Reserved \subseteq Subdomain
    /\ NumShards \in Nat \ {0}
    /\ ShardOf \in [Subdomain -> 1..NumShards]
    /\ MaxTunnels \in Nat \ {0} /\ MaxTunnelsPerIP \in Nat \ {0}
    /\ RateLimit \in Nat \ {0} /\ MaxAttempts \in Nat \ {0}
    /\ CleanupTask \in BOOLEAN /\ MayShutdown \in BOOLEAN

VARIABLES
    tunnels,      \* subdomain -> session whose Connection is registered;
                  \* `used` is written under the same locks and is its domain
    tunnelCount,  \* atomic global counter
    tunnelsByIP,  \* guarded by ipMu; an absent key is 0
    rateLimits,   \* IP -> registrations counted in the current window
    pc,           \* where each session is in RegisterWithIP / Unregister
    name,         \* the request, then the subdomain, of each session
    tries,        \* draws made by generateUniqueSubdomain
    victim,       \* the connection an Unregister or the cleanup has removed
                  \* and still has to take off the counters
    pumps,        \* StartWritePump goroutines on each session's Connection
    jpc, jshard, jstale,  \* the cleanup goroutine: place, shard, stale names
    down,         \* Shutdown: 0 not called, 1..NumShards shard to clear,
                  \* then the counter reset, then done
    upset         \* history: "clash" once a drawn name has replaced a tunnel,
                  \* "cleanup" once the cleanup has removed one

reg   == <<tunnels, tunnelCount, tunnelsByIP, rateLimits>>
procs == <<pc, name, tries, victim, pumps>>
jan   == <<jpc, jshard, jstale>>
vars  == <<reg, procs, jan, down, upset>>

Janitor == "janitor"   \* the cleanup goroutine's key in victim
Owner   == Session \cup {None}

Shard(k)  == {n \in Subdomain : ShardOf[n] = k}
Live      == {n \in Subdomain : tunnels[n] # None}
Used(n)   == tunnels[n] # None

\* CleanupStale holds a shard's mutex from its scan to its last deletion.
Locked(k) == jpc \in {"scan", "count", "ip"} /\ jshard = k

\* tc.Close(): the pump of a connection ends when its CloseCh is closed.
PumpsWithout(closed) == [s \in Session |-> IF s \in closed THEN 0 ELSE pumps[s]]

DecrementIP(ip) == tunnelsByIP' = [tunnelsByIP EXCEPT ![ip] = IF @ > 0 THEN @ - 1 ELSE 0]

Goto(s, l) == pc' = [pc EXCEPT ![s] = l]

-----------------------------------------------------------------------------
Init ==
    /\ tunnels = [n \in Subdomain |-> None]
    /\ tunnelCount = 0
    /\ tunnelsByIP = [i \in IP |-> 0]
    /\ rateLimits = [i \in IP |-> 0]
    /\ pc = [s \in Session |-> "idle"]
    /\ name = [s \in Session |-> NoName]
    /\ tries = [s \in Session |-> 0]
    /\ victim = [x \in Session \cup {Janitor} |-> None]
    /\ pumps = [s \in Session |-> 0]
    /\ jpc = "idle" /\ jshard = 0 /\ jstale = {}
    /\ down = 0 /\ upset = {}

-----------------------------------------------------------------------------
(* RegisterWithIP                                                          *)

\* Wrong variant: the limit is compared with > instead of >=.
Mut_Reserve(s) ==
    /\ pc[s] = "idle"
    /\ tunnelCount <= MaxTunnels
    /\ tunnelCount' = tunnelCount + 1
    /\ \E r \in Request : name' = [name EXCEPT ![s] = r]
    /\ Goto(s, IF RemoteIP[s] = NoIP THEN "name" ELSE "rate")
    /\ UNCHANGED <<tunnels, tunnelsByIP, rateLimits, tries, victim, pumps, jan, down, upset>>

\* The CAS loop: it leaves only by a refusal, which changes nothing, or by a
\* CAS that succeeded on the value compared with the limit.
Reserve(s) ==
    /\ pc[s] = "idle"
    /\ tunnelCount < MaxTunnels
    /\ tunnelCount' = tunnelCount + 1
    /\ \E r \in Request : name' = [name EXCEPT ![s] = r]
    /\ Goto(s, IF RemoteIP[s] = NoIP THEN "name" ELSE "rate")
    /\ UNCHANGED <<tunnels, tunnelsByIP, rateLimits, tries, victim, pumps, jan, down, upset>>

\* RateLimiter.CheckAndIncrement.  A window that ran out counts as absent.
CheckRate(s) ==
    LET ip == RemoteIP[s] IN
    /\ pc[s] = "rate"
    /\ \/ /\ rateLimits[ip] < RateLimit
          /\ rateLimits' = [rateLimits EXCEPT ![ip] = @ + 1]
          /\ Goto(s, "ip")
       \/ /\ rateLimits[ip] >= RateLimit
          /\ Goto(s, "rollbackGlobal")
          /\ UNCHANGED rateLimits
    /\ UNCHANGED <<tunnels, tunnelCount, tunnelsByIP, name, tries, victim, pumps, jan, down, upset>>

\* Check and reservation of the per-IP slot under ipMu.
ReserveIP(s) ==
    LET ip == RemoteIP[s] IN
    /\ pc[s] = "ip"
    /\ \/ /\ tunnelsByIP[ip] < MaxTunnelsPerIP
          /\ tunnelsByIP' = [tunnelsByIP EXCEPT ![ip] = @ + 1]
          /\ Goto(s, "name")
       \/ /\ tunnelsByIP[ip] >= MaxTunnelsPerIP
          /\ Goto(s, "rollbackGlobal")
          /\ UNCHANGED tunnelsByIP
    /\ UNCHANGED <<tunnels, tunnelCount, rateLimits, name, tries, victim, pumps, jan, down, upset>>

\* s.tunnels[subdomain] = NewConnection(...), s.used[subdomain] = true
Insert(s, n) ==
    /\ tunnels' = [tunnels EXCEPT ![n] = s]
    /\ name' = [name EXCEPT ![s] = n]
    /\ pumps' = [pumps EXCEPT ![s] = 0]
    /\ Goto(s, "pump")

\* Wrong variant: the name is not looked up under the lock that inserts it.
Mut_RegisterCustom(s) ==
    LET n == name[s] IN
    /\ pc[s] = "name" /\ n # NoName
    /\ n \notin Invalid \cup Reserved
    /\ ~Locked(ShardOf[n])
    /\ Insert(s, n)
    /\ UNCHANGED <<tunnelCount, tunnelsByIP, rateLimits, tries, victim, jan, down, upset>>

\* A custom name is checked and inserted under its shard's lock.
RegisterCustom(s) ==
    LET n == name[s] IN
    /\ pc[s] = "name" /\ n # NoName
    /\ n \notin Invalid \cup Reserved
    /\ ~Locked(ShardOf[n]) /\ ~Used(n)
    /\ Insert(s, n)
    /\ UNCHANGED <<tunnelCount, tunnelsByIP, rateLimits, tries, victim, jan, down, upset>>

\* Wrong variant: a refused name rolls back the global slot only.
Mut_RefuseCustom(s) ==
    LET n == name[s] IN
    /\ pc[s] = "name" /\ n # NoName
    /\ n \in Invalid \cup Reserved \/ (~Locked(ShardOf[n]) /\ Used(n))
    /\ Goto(s, "rollbackGlobal")
    /\ UNCHANGED <<reg, name, tries, victim, pumps, jan, down, upset>>

\* ErrInvalidSubdomain, ErrReservedSubdomain, ErrSubdomainTaken
RefuseCustom(s) ==
    LET n == name[s] IN
    /\ pc[s] = "name" /\ n # NoName
    /\ \/ n \in Invalid \cup Reserved
       \/ ~Locked(ShardOf[n]) /\ Used(n)
    /\ Goto(s, IF RemoteIP[s] = NoIP THEN "rollbackGlobal" ELSE "rollbackIP")
    /\ UNCHANGED <<reg, name, tries, victim, pumps, jan, down, upset>>

\* One draw of generateUniqueSubdomain, looked up under a read lock that is
\* released before the name is used.
DrawShort(s) ==
    /\ pc[s] = "name" /\ name[s] = NoName
    /\ tries[s] < MaxAttempts
    /\ \E n \in ShortNames :
        \/ /\ n \notin Reserved /\ ~Locked(ShardOf[n]) /\ ~Used(n)
           /\ name' = [name EXCEPT ![s] = n]
           /\ tries' = [tries EXCEPT ![s] = 0]
           /\ Goto(s, "insert")
        \/ /\ n \in Reserved \/ (~Locked(ShardOf[n]) /\ Used(n))
           /\ tries' = [tries EXCEPT ![s] = @ + 1]
           /\ UNCHANGED <<pc, name>>
    /\ UNCHANGED <<reg, victim, pumps, jan, down, upset>>

\* The fallback after MaxAttempts draws: a longer name, looked up nowhere.
DrawLong(s) ==
    /\ pc[s] = "name" /\ name[s] = NoName
    /\ tries[s] = MaxAttempts
    /\ \E n \in LongNames : name' = [name EXCEPT ![s] = n]
    /\ tries' = [tries EXCEPT ![s] = 0]
    /\ Goto(s, "insert")
    /\ UNCHANGED <<reg, victim, pumps, jan, down, upset>>

\* The drawn name is inserted under the lock without a second look at `used`.
RegisterRandom(s) ==
    /\ pc[s] = "insert"
    /\ ~Locked(ShardOf[name[s]])
    /\ Insert(s, name[s])
    /\ upset' = IF Used(name[s]) THEN upset \cup {"clash"} ELSE upset
    /\ UNCHANGED <<tunnelCount, tunnelsByIP, rateLimits, tries, victim, jan, down>>

\* The registered connection is looked up again, by name, to start its pump.
StartPump(s) ==
    /\ pc[s] = "pump"
    /\ ~Locked(ShardOf[name[s]])
    /\ LET tc == tunnels[name[s]] IN
        pumps' = IF tc = None THEN pumps ELSE [pumps EXCEPT ![tc] = @ + 1]
    /\ Goto(s, "live")
    /\ UNCHANGED <<reg, name, tries, victim, jan, down, upset>>

RollbackIP(s) ==
    /\ pc[s] = "rollbackIP"
    /\ DecrementIP(RemoteIP[s])
    /\ Goto(s, "rollbackGlobal")
    /\ UNCHANGED <<tunnels, tunnelCount, rateLimits, name, tries, victim, pumps, jan, down, upset>>

RollbackGlobal(s) ==
    /\ pc[s] = "rollbackGlobal"
    /\ tunnelCount' = tunnelCount - 1
    /\ Goto(s, "idle")
    /\ name' = [name EXCEPT ![s] = NoName]
    /\ UNCHANGED <<tunnels, tunnelsByIP, rateLimits, tries, victim, pumps, jan, down, upset>>

-----------------------------------------------------------------------------
(* Unregister: by name, whoever's connection is there.                     *)

UnregisterAbsent(s) ==
    /\ pc[s] = "live"
    /\ ~Locked(ShardOf[name[s]]) /\ ~Used(name[s])
    /\ Goto(s, "idle")
    /\ name' = [name EXCEPT ![s] = NoName]
    /\ UNCHANGED <<reg, tries, victim, pumps, jan, down, upset>>

\* Wrong variant: the connection is closed and counted off, its entry stays.
Mut_UnregisterKeep(s) ==
    /\ pc[s] = "live"
    /\ ~Locked(ShardOf[name[s]]) /\ Used(name[s])
    /\ victim' = [victim EXCEPT ![s] = tunnels[name[s]]]
    /\ pumps' = PumpsWithout({tunnels[name[s]]})
    /\ Goto(s, "count")
    /\ name' = [name EXCEPT ![s] = NoName]
    /\ UNCHANGED <<reg, tries, jan, down, upset>>

\* Wrong variant: the entry is deleted without closing its connection.
Mut_UnregisterOpen(s) ==
    /\ pc[s] = "live"
    /\ ~Locked(ShardOf[name[s]]) /\ Used(name[s])
    /\ victim' = [victim EXCEPT ![s] = tunnels[name[s]]]
    /\ tunnels' = [tunnels EXCEPT ![name[s]] = None]
    /\ Goto(s, "count")
    /\ name' = [name EXCEPT ![s] = NoName]
    /\ UNCHANGED <<tunnelCount, tunnelsByIP, rateLimits, tries, pumps, jan, down, upset>>

UnregisterDelete(s) ==
    /\ pc[s] = "live"
    /\ ~Locked(ShardOf[name[s]]) /\ Used(name[s])
    /\ victim' = [victim EXCEPT ![s] = tunnels[name[s]]]
    /\ tunnels' = [tunnels EXCEPT ![name[s]] = None]
    /\ pumps' = PumpsWithout({tunnels[name[s]]})
    /\ Goto(s, "count")
    /\ name' = [name EXCEPT ![s] = NoName]
    /\ UNCHANGED <<tunnelCount, tunnelsByIP, rateLimits, tries, jan, down, upset>>

UnregisterCount(s) ==
    /\ pc[s] = "count"
    /\ tunnelCount' = tunnelCount - 1
    /\ IF RemoteIP[victim[s]] = NoIP
       THEN /\ Goto(s, "idle") /\ victim' = [victim EXCEPT ![s] = None]
       ELSE /\ Goto(s, "decIP") /\ UNCHANGED victim
    /\ UNCHANGED <<tunnels, tunnelsByIP, rateLimits, name, tries, pumps, jan, down, upset>>

UnregisterIP(s) ==
    /\ pc[s] = "decIP"
    /\ DecrementIP(RemoteIP[victim[s]])
    /\ victim' = [victim EXCEPT ![s] = None]
    /\ Goto(s, "idle")
    /\ UNCHANGED <<tunnels, tunnelCount, rateLimits, name, tries, pumps, jan, down, upset>>

-----------------------------------------------------------------------------
(* CleanupStale, shard after shard, and the limiter's Cleanup at the end.  *)

CleanupStart ==
    /\ CleanupTask /\ down = 0
    /\ jpc = "idle"
    /\ jpc' = "lock" /\ jshard' = 1
    /\ UNCHANGED <<reg, procs, jstale, down, upset>>

\* Lock the shard and list its stale connections.  LastActive is never
\* refreshed by the server, so any registered connection may be stale.
CleanupScan ==
    /\ jpc = "lock" /\ jshard <= NumShards
    /\ jstale' \in SUBSET (Live \cap Shard(jshard))
    /\ jpc' = "scan"
    /\ UNCHANGED <<reg, procs, jshard, down, upset>>

CleanupDelete ==
    /\ jpc = "scan"
    /\ \E n \in jstale :
        /\ victim' = [victim EXCEPT ![Janitor] = tunnels[n]]
        /\ tunnels' = [tunnels EXCEPT ![n] = None]
        /\ pumps' = PumpsWithout({tunnels[n]})
        /\ jstale' = jstale \ {n}
    /\ jpc' = "count"
    /\ upset' = upset \cup {"cleanup"}
    /\ UNCHANGED <<tunnelCount, tunnelsByIP, rateLimits, pc, name, tries, jshard, down>>

CleanupCount ==
    /\ jpc = "count"
    /\ tunnelCount' = tunnelCount - 1
    /\ IF RemoteIP[victim[Janitor]] = NoIP
       THEN /\ jpc' = "scan" /\ victim' = [victim EXCEPT ![Janitor] = None]
       ELSE /\ jpc' = "ip" /\ UNCHANGED victim
    /\ UNCHANGED <<tunnels, tunnelsByIP, rateLimits, pc, name, tries, pumps, jshard, jstale, down, upset>>

CleanupIP ==
    /\ jpc = "ip"
    /\ DecrementIP(RemoteIP[victim[Janitor]])
    /\ victim' = [victim EXCEPT ![Janitor] = None]
    /\ jpc' = "scan"
    /\ UNCHANGED <<tunnels, tunnelCount, rateLimits, pc, name, tries, pumps, jshard, jstale, down, upset>>

CleanupUnlock ==
    /\ jpc = "scan" /\ jstale = {}
    /\ jpc' = "lock" /\ jshard' = jshard + 1
    /\ UNCHANGED <<reg, procs, jstale, down, upset>>

\* The limiter drops expired windows, which already count as absent.
CleanupEnd ==
    /\ jpc = "lock" /\ jshard = NumShards + 1
    /\ jpc' = "idle" /\ jshard' = 0
    /\ UNCHANGED <<reg, procs, jstale, down, upset>>

\* The clock passes windowEnd: the next CheckAndIncrement opens a new window.
WindowExpires(ip) ==
    /\ rateLimits[ip] > 0
    /\ rateLimits' = [rateLimits EXCEPT ![ip] = 0]
    /\ UNCHANGED <<tunnels, tunnelCount, tunnelsByIP, procs, jan, down, upset>>

-----------------------------------------------------------------------------
(* Shutdown: stop the cleanup task, clear the shards, reset the counter.   *)

ShutdownBegin ==
    /\ MayShutdown /\ down = 0
    /\ down' = 1
    /\ UNCHANGED <<reg, procs, jan, upset>>

ShutdownShard ==
    /\ down \in 1..NumShards /\ ~Locked(down)
    /\ tunnels' = [n \in Subdomain |-> IF ShardOf[n] = down THEN None ELSE tunnels[n]]
    /\ pumps' = PumpsWithout({tunnels[n] : n \in Shard(down)})
    /\ down' = down + 1
    /\ UNCHANGED <<tunnelCount, tunnelsByIP, rateLimits, pc, name, tries, victim, jan, upset>>

ShutdownReset ==
    /\ down = NumShards + 1
    /\ tunnelCount' = 0
    /\ down' = down + 1
    /\ UNCHANGED <<tunnels, tunnelsByIP, rateLimits, procs, jan, upset>>

-----------------------------------------------------------------------------
SessionStep(s) ==
    \/ CheckRate(s) \/ ReserveIP(s)
    \/ RegisterCustom(s) \/ RefuseCustom(s)
    \/ DrawShort(s) \/ DrawLong(s) \/ RegisterRandom(s) \/ StartPump(s)
    \/ RollbackIP(s) \/ RollbackGlobal(s)
    \/ UnregisterCount(s) \/ UnregisterIP(s)

Disconnect(s) == UnregisterAbsent(s) \/ UnregisterDelete(s)

Cleanup ==
    \/ CleanupScan \/ CleanupDelete \/ CleanupCount \/ CleanupIP
    \/ CleanupUnlock \/ CleanupEnd

Next ==
    \/ \E s \in Session : Reserve(s) \/ SessionStep(s) \/ Disconnect(s)
    \/ CleanupStart \/ Cleanup
    \/ \E ip \in IP : WindowExpires(ip)
    \/ ShutdownBegin \/ ShutdownShard \/ ShutdownReset

Spec == Init /\ [][Next]_vars

-----------------------------------------------------------------------------
(* Properties                                                              *)

Places == {"idle", "rate", "ip", "name", "insert", "pump", "live",
           "rollbackIP", "rollbackGlobal", "count", "decIP"}

\* The values the variables may take.
TypeOK ==
    /\ tunnels \in [Subdomain -> Owner]
    /\ tunnelCount \in Int
    /\ tunnelsByIP \in [IP -> Nat]
    /\ rateLimits \in [IP -> 0..RateLimit]
    /\ pc \in [Session -> Places]
    /\ name \in [Session -> Subdomain \cup {NoName}]
    /\ tries \in [Session -> 0..MaxAttempts]
    /\ victim \in [Session \cup {Janitor} -> Owner]
    /\ pumps \in [Session -> Nat]
    /\ jpc \in {"idle", "lock", "scan", "count", "ip"}
    /\ jshard \in 0..(NumShards + 1)
    /\ jstale \in SUBSET Subdomain
    /\ down \in 0..(NumShards + 2)
    /\ upset \subseteq {"clash", "cleanup"}

\* Sessions that hold a slot of tunnelCount outside the map: a reservation not
\* yet inserted or rolled back, a removed connection not yet counted off.
InFlight == {s \in Session : pc[s] \in {"rate", "ip", "name", "insert",
                                        "rollbackIP", "rollbackGlobal", "count"}}
CleanupHolds == IF jpc = "count" THEN 1 ELSE 0
Slots == Cardinality(Live) + Cardinality(InFlight) + CleanupHolds

LiveOf(ip) == {n \in Live : RemoteIP[tunnels[n]] = ip}
\* Sessions that hold a slot of tunnelsByIP[ip] outside the map.
InFlightOf(ip) ==
    {s \in Session :
        \/ /\ RemoteIP[s] = ip
           /\ pc[s] \in {"name", "insert", "rollbackIP"}
        \/ /\ pc[s] \in {"count", "decIP"}
           /\ victim[s] # None /\ RemoteIP[victim[s]] = ip}
CleanupHoldsOf(ip) ==
    IF /\ jpc \in {"count", "ip"}
       /\ victim[Janitor] # None /\ RemoteIP[victim[Janitor]] = ip THEN 1 ELSE 0
SlotsOf(ip) ==
    Cardinality(LiveOf(ip)) + Cardinality(InFlightOf(ip)) + CleanupHoldsOf(ip)

\* Until Shutdown resets the counter, tunnelCount covers every registered
\* tunnel and every call that is between its reservation and its insertion
\* (or between its deletion and its decrement), and never passes the limit:
\* concurrent calls cannot together exceed maxTunnels.
GlobalLimit ==
    /\ tunnelCount <= MaxTunnels
    /\ down < NumShards + 2 => Slots <= tunnelCount

\* No slot leaks: as long as no drawn name has replaced a tunnel the counters
\* are exact, whatever was refused, rolled back, unregistered by another session
\* or cleaned up, so the limits refuse nobody they should admit.
NoSlotLeak ==
    ("clash" \notin upset /\ down = 0) =>
        /\ tunnelCount = Slots
        /\ \A ip \in IP : tunnelsByIP[ip] = SlotsOf(ip)

\* A registered connection belongs to a session that is still registered
\* under that name: no entry outlives its session, though entries are removed
\* by name and may be removed by someone else.
EntryHasOwner ==
    \A n \in Subdomain : Used(n) =>
        /\ pc[tunnels[n]] \in {"pump", "live"}
        /\ name[tunnels[n]] = n

\* A live tunnel's name leads to that tunnel until its own session removes it,
\* unless something has taken a name away from a live session: a draw that
\* clashed, the cleanup or Shutdown.
LiveOwnsName ==
    (upset = {} /\ down = 0) =>
        \A s \in Session : pc[s] \in {"pump", "live"} => tunnels[name[s]] = s

\* Likewise each live connection has its one write pump (the websocket allows
\* one writer) and a connection that left the registry has none.
OneWritePump ==
    (upset = {} /\ down = 0) =>
        \A s \in Session : pumps[s] = IF pc[s] = "live" THEN 1 ELSE 0

\* Registration and removal, each spread over several locks, look to the callers
\* like single steps of the abstract registry: no name is taken twice, by a
\* session that has one, or beyond the limit.
R == INSTANCE Registry WITH Name <- Subdomain, Limit <- MaxTunnels, owner <- tunnels,
                            calm <- upset = {} /\ down = 0
RefinesRegistry == R!Spec

\* A registration under a custom name never replaces a registered connection.
CustomNeverDisplaces ==
    [][\A s \in Session : pc[s] = "name" /\ pc'[s] = "pump" => tunnels[name'[s]] = None]_vars

\* "generateUniqueSubdomain generates a unique random subdomain"
\* (manager.go:422): a drawn name is free when it is registered.
RandomSubdomainUnique ==
    [][\A s \in Session : pc[s] = "insert" /\ pc'[s] = "pump" => tunnels[name'[s]] = None]_vars
=============================================================================
