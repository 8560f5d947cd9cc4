------------------------------ MODULE HTTPProofs ------------------------------
(***************************************************************************)
(* Theorems about HTTPProxy, with AuthLimiter, and HandOff, for every set  *)
(* of requests, addresses, rules, tokens and connections, every limit and  *)
(* every interleaving: their scenes in MCHttp are cases of HTTPMove and of *)
(* HandMove.                                                               *)
(***************************************************************************)
EXTENDS MCHttp, FiniteSetTheorems, TLAPS

\* A step of a request, of the tunnel or of the limiter's time.
HTTPMove ==
    \/ HTTPStep
    \/ Passing /\ UNCHANGED <<tunvars, reqvars>>
    \/ UNCHANGED httpvars

\* The places of a request that has not asked for a stream.
Before == {"new", "found", "rules", "auth", "bearer", "login", "password", "cookie", "open"}

\* The types the proofs need.  How much the counters may count is not among them.
HTTPTyped ==
    /\ setup \in Setup /\ stage \in 0..5
    /\ ask \in [Req -> Ask]
    /\ at \in [Req -> Before \cup {"wait", "late"} \cup Exchanging \cup Final]
    /\ opener \in [Req -> {"off", "calling", "sent"}]
    /\ given \in [Req -> {"none", "stream", "error"}]
    /\ strm \in [Req -> {"none", "open", "closed"}]
    /\ active \in Int
    /\ DOMAIN entries = Addr
    /\ \A a \in Addr : entries[a] # NoEntry => entries[a] \in Entry
    /\ sessions \in [Token -> {"none", "fresh", "expired"}] /\ used \subseteq Token
    /\ \A t \in Token : sessions[t] # "none" => t \in used

\* Who holds a stream: the opener has one only while its request waits, and
\* hands over what it got once.
StreamHeld ==
    \A r \in Req :
        /\ at[r] \in Before => opener[r] = "off"
        /\ opener[r] = "calling" => at[r] \in {"wait", "late"}
        /\ opener[r] # "sent" => given[r] = "none" /\ strm[r] = "none"
        /\ at[r] \in Exchanging => opener[r] = "sent"
        /\ given[r] = "error" => strm[r] # "open"
        /\ strm[r] = "open" => at[r] \in Exchanging \cup {"wait", "late"}

\* Who counts as an active connection.
Users == {r \in Req : at[r] \in Exchanging}

ActiveExact == active = Cardinality(Users)

USE HTTPProxyAssumption, AuthLimiterAssumption

LEMMA ClientInAddr == HTTPTyped => \A r \in Req : ClientIP(r) \in Addr
BY DEF HTTPTyped, ClientIP, AskType

LEMMA InitHTTP == HTTPInit => HTTPTyped /\ StreamHeld /\ ActiveExact
<1> SUFFICES ASSUME HTTPInit PROVE HTTPTyped /\ StreamHeld /\ ActiveExact
  OBVIOUS
<1> USE DEF HTTPInit, AuthInit, Exchanging, Before
<1>1. HTTPTyped
  BY DEF HTTPTyped
<1>2. StreamHeld
  BY DEF StreamHeld
<1>3. Users = {}
  BY DEF Users
<1> QED
  <2>1. Cardinality({}) = 0
    BY FS_EmptySet
  <2> QED
    BY <1>1, <1>2, <1>3, <2>1 DEF ActiveExact

\* One failure more.
LEMMA FailedEntry ==
    ASSUME NEW e \in Entry
    PROVE  /\ Failed(e) \in Entry
           /\ Failed(e).failures = e.failures + 1
           /\ Failed(e).window = e.window
           /\ Failed(e).lock = "on" => e.lock = "on" \/ e.failures + 1 >= Threshold
<1> DEFINE n == e.failures + 1
           l == IF n >= Threshold THEN "on" ELSE e.lock
<1>1. n \in Nat /\ l \in {"none", "on", "over"} /\ (l = "on" => e.lock = "on" \/ n >= Threshold)
  BY DEF Entry
<1>2. Failed(e) = [e EXCEPT !.failures = n, !.lock = l]
  BY DEF Failed
<1> HIDE DEF n, l
<1>3. Failed(e) \in Entry /\ Failed(e).failures = n /\ Failed(e).window = e.window /\ Failed(e).lock = l
  BY <1>1, <1>2 DEF Entry
<1> QED
  BY <1>1, <1>3 DEF n

\* What a login does to the entry of its address.
LEMMA LimiterTyped ==
    ASSUME HTTPTyped, NEW a \in Addr, RecordFailure(a) \/ ResetFailures(a)
    PROVE  /\ DOMAIN entries' = Addr
           /\ \A b \in Addr : entries'[b] # NoEntry => entries'[b] \in Entry
<1>1. CASE RecordFailure(a)
  <2>1. NewWindow \in Entry
    BY DEF NewWindow, Entry
  <2>2. ASSUME NEW e \in Entry PROVE Failed(e) \in Entry
    BY <2>2, FailedEntry
  <2> QED
    BY <1>1, <2>1, <2>2 DEF RecordFailure, HTTPTyped
<1>2. CASE ResetFailures(a)
  BY <1>2 DEF ResetFailures, HTTPTyped
<1> QED
  BY <1>1, <1>2

LEMMA NextHTTPTyped == HTTPTyped /\ HTTPMove => HTTPTyped'
<1> SUFFICES ASSUME HTTPTyped, HTTPMove PROVE HTTPTyped'
  OBVIOUS
<1> USE DEF Goes, Rest, tunvars, reqvars, authvars, Exchanging, HTTPTyped, Before, Final, Entry
<1>1. ASSUME Configure PROVE HTTPTyped'
  BY <1>1 DEF Configure
<1>2. ASSUME SessionEnds PROVE HTTPTyped'
  BY <1>2 DEF SessionEnds
<1>3. ASSUME TunnelLeaves PROVE HTTPTyped'
  BY <1>3 DEF TunnelLeaves
<1>4. ASSUME NEW r \in Req, Lookup(r) PROVE HTTPTyped'
  BY <1>4 DEF Lookup
<1>5. ASSUME NEW r \in Req, CheckClosed(r) PROVE HTTPTyped'
  BY <1>5 DEF CheckClosed
<1>6. ASSUME NEW r \in Req, CheckRules(r) PROVE HTTPTyped'
  BY <1>6 DEF CheckRules
<1>7. ASSUME NEW r \in Req, CheckAuth(r) PROVE HTTPTyped'
  BY <1>7 DEF CheckAuth
<1>8. ASSUME NEW r \in Req, Bearer(r) PROVE HTTPTyped'
  <2>1. /\ DOMAIN entries' = Addr
        /\ \A b \in Addr : entries'[b] # NoEntry => entries'[b] \in Entry
    BY <1>8, ClientInAddr, LimiterTyped DEF Bearer
  <2>2. UNCHANGED <<sessions, used, setup, stage, ask, opener, given, strm, active>>
    BY <1>8 DEF Bearer, RecordFailure
  <2>3. at' \in [Req -> Before \cup {"wait", "late"} \cup Exchanging \cup Final]
    BY <1>8 DEF Bearer
  <2> QED
    BY <2>1, <2>2, <2>3
<1>9. ASSUME NEW r \in Req, Cookie(r) PROVE HTTPTyped'
  BY <1>9 DEF Cookie
<1>10. ASSUME NEW r \in Req, Login(r) PROVE HTTPTyped'
  BY <1>10 DEF Login
<1>11. ASSUME NEW r \in Req, Password(r) PROVE HTTPTyped'
  <2>1. /\ DOMAIN entries' = Addr
        /\ \A b \in Addr : entries'[b] # NoEntry => entries'[b] \in Entry
    BY <1>11, ClientInAddr, LimiterTyped DEF Password
  <2>2. UNCHANGED <<setup, stage, ask, opener, given, strm, active>>
    BY <1>11 DEF Password, RecordFailure
  <2>3. at' \in [Req -> Before \cup {"wait", "late"} \cup Exchanging \cup Final]
    BY <1>11 DEF Password
  <2>4. /\ sessions' \in [Token -> {"none", "fresh", "expired"}] /\ used' \subseteq Token
        /\ \A t \in Token : sessions'[t] # "none" => t \in used'
    BY <1>11 DEF Password, CreateSession, RecordFailure
  <2> QED
    BY <2>1, <2>2, <2>3, <2>4
<1>12. ASSUME NEW r \in Req, RefuseKind(r) PROVE HTTPTyped'
  BY <1>12 DEF RefuseKind
<1>13. ASSUME NEW r \in Req, StartOpen(r) PROVE HTTPTyped'
  BY <1>13 DEF StartOpen
<1>14. ASSUME NEW r \in Req, Opened(r) PROVE HTTPTyped'
  BY <1>14 DEF Opened
<1>15. ASSUME NEW r \in Req, CloseLate(r) PROVE HTTPTyped'
  BY <1>15 DEF CloseLate
<1>16. ASSUME NEW r \in Req, StreamFails(r) PROVE HTTPTyped'
  BY <1>16 DEF StreamFails, Finish
<1>17. ASSUME NEW r \in Req, ContextDone(r) PROVE HTTPTyped'
  BY <1>17 DEF ContextDone
<1>18. ASSUME NEW r \in Req, Opens(r) PROVE HTTPTyped'
  BY <1>18 DEF Opens
<1>19. ASSUME NEW r \in Req, OpenFails(r) PROVE HTTPTyped'
  BY <1>19 DEF OpenFails
<1>20. ASSUME NEW r \in Req, OpenTimesOut(r) PROVE HTTPTyped'
  BY <1>20 DEF OpenTimesOut
<1>21. ASSUME NEW r \in Req, HijackFails(r) PROVE HTTPTyped'
  BY <1>21 DEF HijackFails, Finish
<1>22. ASSUME NEW r \in Req, Forward(r) PROVE HTTPTyped'
  BY <1>22 DEF Forward
<1>23. ASSUME NEW r \in Req, ForwardFails(r) PROVE HTTPTyped'
  BY <1>23 DEF ForwardFails, Finish
<1>24. ASSUME NEW r \in Req, Answered(r) PROVE HTTPTyped'
  BY <1>24 DEF Answered
<1>25. ASSUME NEW r \in Req, AnsweredEmpty(r) PROVE HTTPTyped'
  BY <1>25 DEF AnsweredEmpty, Finish
<1>26. ASSUME NEW r \in Req, AnswerFails(r) PROVE HTTPTyped'
  BY <1>26 DEF AnswerFails, Finish
<1>27. ASSUME NEW r \in Req, Completes(r) PROVE HTTPTyped'
  BY <1>27 DEF Completes, Finish
<1>28. ASSUME NEW r \in Req, ClientLeaves(r) PROVE HTTPTyped'
  BY <1>28 DEF ClientLeaves
<1>29. ASSUME Passing, UNCHANGED <<tunvars, reqvars>> PROVE HTTPTyped'
  BY <1>29 DEF Passing, CleanupEntries, CleanupSessions, WindowPasses, LockPasses, SessionExpires
<1>30. ASSUME UNCHANGED httpvars PROVE HTTPTyped'
  BY <1>30 DEF httpvars
<1> QED
  BY <1>1, <1>2, <1>3, <1>4, <1>5, <1>6, <1>7, <1>8, <1>9, <1>10, <1>11, <1>12, <1>13,
     <1>14, <1>15, <1>16, <1>17, <1>18, <1>19, <1>20, <1>21, <1>22, <1>23, <1>24, <1>25,
     <1>26, <1>27, <1>28, <1>29, <1>30 DEF HTTPMove, HTTPStep, Serving, Deciding, Exchange

LEMMA NextStreams == HTTPTyped /\ StreamHeld /\ HTTPMove => StreamHeld'
<1> SUFFICES ASSUME HTTPTyped, StreamHeld, HTTPMove PROVE StreamHeld'
  OBVIOUS
<1> USE DEF Goes, Rest, tunvars, reqvars, authvars, Exchanging, HTTPTyped, StreamHeld, Before, Final
<1>1. ASSUME Configure PROVE StreamHeld'
  BY <1>1 DEF Configure
<1>2. ASSUME SessionEnds PROVE StreamHeld'
  BY <1>2 DEF SessionEnds
<1>3. ASSUME TunnelLeaves PROVE StreamHeld'
  BY <1>3 DEF TunnelLeaves
<1>4. ASSUME NEW r \in Req, Lookup(r) PROVE StreamHeld'
  BY <1>4 DEF Lookup
<1>5. ASSUME NEW r \in Req, CheckClosed(r) PROVE StreamHeld'
  BY <1>5 DEF CheckClosed
<1>6. ASSUME NEW r \in Req, CheckRules(r) PROVE StreamHeld'
  BY <1>6 DEF CheckRules
<1>7. ASSUME NEW r \in Req, CheckAuth(r) PROVE StreamHeld'
  BY <1>7 DEF CheckAuth
<1>8. ASSUME NEW r \in Req, Bearer(r) PROVE StreamHeld'
  BY <1>8 DEF Bearer
<1>9. ASSUME NEW r \in Req, Cookie(r) PROVE StreamHeld'
  BY <1>9 DEF Cookie
<1>10. ASSUME NEW r \in Req, Login(r) PROVE StreamHeld'
  BY <1>10 DEF Login
<1>11. ASSUME NEW r \in Req, Password(r) PROVE StreamHeld'
  BY <1>11 DEF Password
<1>12. ASSUME NEW r \in Req, RefuseKind(r) PROVE StreamHeld'
  BY <1>12 DEF RefuseKind
<1>13. ASSUME NEW r \in Req, StartOpen(r) PROVE StreamHeld'
  BY <1>13 DEF StartOpen
<1>14. ASSUME NEW r \in Req, Opened(r) PROVE StreamHeld'
  BY <1>14 DEF Opened
<1>15. ASSUME NEW r \in Req, CloseLate(r) PROVE StreamHeld'
  BY <1>15 DEF CloseLate
<1>16. ASSUME NEW r \in Req, StreamFails(r) PROVE StreamHeld'
  BY <1>16 DEF StreamFails, Finish
<1>17. ASSUME NEW r \in Req, ContextDone(r) PROVE StreamHeld'
  BY <1>17 DEF ContextDone
<1>18. ASSUME NEW r \in Req, Opens(r) PROVE StreamHeld'
  BY <1>18 DEF Opens
<1>19. ASSUME NEW r \in Req, OpenFails(r) PROVE StreamHeld'
  BY <1>19 DEF OpenFails
<1>20. ASSUME NEW r \in Req, OpenTimesOut(r) PROVE StreamHeld'
  BY <1>20 DEF OpenTimesOut
<1>21. ASSUME NEW r \in Req, HijackFails(r) PROVE StreamHeld'
  BY <1>21 DEF HijackFails, Finish
<1>22. ASSUME NEW r \in Req, Forward(r) PROVE StreamHeld'
  BY <1>22 DEF Forward
<1>23. ASSUME NEW r \in Req, ForwardFails(r) PROVE StreamHeld'
  BY <1>23 DEF ForwardFails, Finish
<1>24. ASSUME NEW r \in Req, Answered(r) PROVE StreamHeld'
  BY <1>24 DEF Answered
<1>25. ASSUME NEW r \in Req, AnsweredEmpty(r) PROVE StreamHeld'
  BY <1>25 DEF AnsweredEmpty, Finish
<1>26. ASSUME NEW r \in Req, AnswerFails(r) PROVE StreamHeld'
  BY <1>26 DEF AnswerFails, Finish
<1>27. ASSUME NEW r \in Req, Completes(r) PROVE StreamHeld'
  BY <1>27 DEF Completes, Finish
<1>28. ASSUME NEW r \in Req, ClientLeaves(r) PROVE StreamHeld'
  BY <1>28 DEF ClientLeaves
<1>29. ASSUME Passing, UNCHANGED <<tunvars, reqvars>> PROVE StreamHeld'
  BY <1>29 DEF Passing, CleanupEntries, CleanupSessions, WindowPasses, LockPasses, SessionExpires
<1>30. ASSUME UNCHANGED httpvars PROVE StreamHeld'
  BY <1>30 DEF httpvars
<1> QED
  BY <1>1, <1>2, <1>3, <1>4, <1>5, <1>6, <1>7, <1>8, <1>9, <1>10, <1>11, <1>12, <1>13,
     <1>14, <1>15, <1>16, <1>17, <1>18, <1>19, <1>20, <1>21, <1>22, <1>23, <1>24, <1>25,
     <1>26, <1>27, <1>28, <1>29, <1>30 DEF HTTPMove, HTTPStep, Serving, Deciding, Exchange

LEMMA UsersFinite == IsFiniteSet(Users) /\ Cardinality(Users) \in Nat
BY FS_Subset, FS_CardinalityType DEF Users

LEMMA NextActive == HTTPTyped /\ ActiveExact /\ HTTPMove => ActiveExact'
<1> SUFFICES ASSUME HTTPTyped, ActiveExact, HTTPMove PROVE ActiveExact'
  OBVIOUS
<1> USE DEF Goes, Rest, tunvars, reqvars, authvars, Exchanging, HTTPTyped, ActiveExact, Before, Final
<1>1. ASSUME Configure PROVE ActiveExact'
  <2>1. Users' = Users
    BY <1>1 DEF Configure, Users
  <2> QED
    BY <1>1, <2>1 DEF Configure
<1>2. ASSUME SessionEnds PROVE ActiveExact'
  <2>1. Users' = Users
    BY <1>2 DEF SessionEnds, Users
  <2> QED
    BY <1>2, <2>1 DEF SessionEnds
<1>3. ASSUME TunnelLeaves PROVE ActiveExact'
  <2>1. Users' = Users
    BY <1>3 DEF TunnelLeaves, Users
  <2> QED
    BY <1>3, <2>1 DEF TunnelLeaves
<1>4. ASSUME NEW r \in Req, Lookup(r) PROVE ActiveExact'
  <2>1. Users' = Users
    BY <1>4 DEF Lookup, Users
  <2> QED
    BY <1>4, <2>1 DEF Lookup
<1>5. ASSUME NEW r \in Req, CheckClosed(r) PROVE ActiveExact'
  <2>1. Users' = Users
    BY <1>5 DEF CheckClosed, Users
  <2> QED
    BY <1>5, <2>1 DEF CheckClosed
<1>6. ASSUME NEW r \in Req, CheckRules(r) PROVE ActiveExact'
  <2>1. Users' = Users
    BY <1>6 DEF CheckRules, Users
  <2> QED
    BY <1>6, <2>1 DEF CheckRules
<1>7. ASSUME NEW r \in Req, CheckAuth(r) PROVE ActiveExact'
  <2>1. Users' = Users
    BY <1>7 DEF CheckAuth, Users
  <2> QED
    BY <1>7, <2>1 DEF CheckAuth
<1>8. ASSUME NEW r \in Req, Bearer(r) PROVE ActiveExact'
  <2>1. Users' = Users
    BY <1>8 DEF Bearer, RecordFailure, Users
  <2> QED
    BY <1>8, <2>1 DEF Bearer, RecordFailure
<1>9. ASSUME NEW r \in Req, Cookie(r) PROVE ActiveExact'
  <2>1. Users' = Users
    BY <1>9 DEF Cookie, Users
  <2> QED
    BY <1>9, <2>1 DEF Cookie
<1>10. ASSUME NEW r \in Req, Login(r) PROVE ActiveExact'
  <2>1. Users' = Users
    BY <1>10 DEF Login, Users
  <2> QED
    BY <1>10, <2>1 DEF Login
<1>11. ASSUME NEW r \in Req, Password(r) PROVE ActiveExact'
  <2>1. Users' = Users
    BY <1>11 DEF Password, RecordFailure, Users
  <2> QED
    BY <1>11, <2>1 DEF Password, RecordFailure
<1>12. ASSUME NEW r \in Req, RefuseKind(r) PROVE ActiveExact'
  <2>1. Users' = Users
    BY <1>12 DEF RefuseKind, Users
  <2> QED
    BY <1>12, <2>1 DEF RefuseKind
<1>13. ASSUME NEW r \in Req, StartOpen(r) PROVE ActiveExact'
  <2>1. Users' = Users
    BY <1>13 DEF StartOpen, Users
  <2> QED
    BY <1>13, <2>1 DEF StartOpen
<1>14. ASSUME NEW r \in Req, Opened(r) PROVE ActiveExact'
  <2>1. CASE given[r] = "error"
    <3>1. Users' = Users
      BY <1>14, <2>1 DEF Opened, Users
    <3> QED
      BY <1>14, <2>1, <3>1 DEF Opened
  <2>2. CASE given[r] # "error"
    <3>1. r \notin Users /\ Users' = Users \cup {r} /\ active' = active + 1
      BY <1>14, <2>2 DEF Opened, Users
    <3>2. Cardinality(Users \cup {r}) = Cardinality(Users) + 1
      BY <3>1, UsersFinite, FS_AddElement
    <3> QED
      BY <3>1, <3>2
  <2> QED
    BY <2>1, <2>2
<1>15. ASSUME NEW r \in Req, CloseLate(r) PROVE ActiveExact'
  <2>1. Users' = Users
    BY <1>15 DEF CloseLate, Users
  <2> QED
    BY <1>15, <2>1 DEF CloseLate
<1>16. ASSUME NEW r \in Req, StreamFails(r) PROVE ActiveExact'
  <2>1. r \in Users /\ Users' = Users \ {r} /\ active' = active - 1
    BY <1>16 DEF StreamFails, Finish, Users
  <2>2. Cardinality(Users \ {r}) = Cardinality(Users) - 1
    BY <2>1, UsersFinite, FS_RemoveElement
  <2> QED
    BY <2>1, <2>2
<1>17. ASSUME NEW r \in Req, ContextDone(r) PROVE ActiveExact'
  <2>1. Users' = Users
    BY <1>17 DEF ContextDone, Users
  <2> QED
    BY <1>17, <2>1 DEF ContextDone
<1>18. ASSUME NEW r \in Req, Opens(r) PROVE ActiveExact'
  <2>1. Users' = Users
    BY <1>18 DEF Opens, Users
  <2> QED
    BY <1>18, <2>1 DEF Opens
<1>19. ASSUME NEW r \in Req, OpenFails(r) PROVE ActiveExact'
  <2>1. Users' = Users
    BY <1>19 DEF OpenFails, Users
  <2> QED
    BY <1>19, <2>1 DEF OpenFails
<1>20. ASSUME NEW r \in Req, OpenTimesOut(r) PROVE ActiveExact'
  <2>1. Users' = Users
    BY <1>20 DEF OpenTimesOut, Users
  <2> QED
    BY <1>20, <2>1 DEF OpenTimesOut
<1>21. ASSUME NEW r \in Req, HijackFails(r) PROVE ActiveExact'
  <2>1. r \in Users /\ Users' = Users \ {r} /\ active' = active - 1
    BY <1>21 DEF HijackFails, Finish, Users
  <2>2. Cardinality(Users \ {r}) = Cardinality(Users) - 1
    BY <2>1, UsersFinite, FS_RemoveElement
  <2> QED
    BY <2>1, <2>2
<1>22. ASSUME NEW r \in Req, Forward(r) PROVE ActiveExact'
  <2>1. Users' = Users
    BY <1>22 DEF Forward, Users
  <2> QED
    BY <1>22, <2>1 DEF Forward
<1>23. ASSUME NEW r \in Req, ForwardFails(r) PROVE ActiveExact'
  <2>1. r \in Users /\ Users' = Users \ {r} /\ active' = active - 1
    BY <1>23 DEF ForwardFails, Finish, Users
  <2>2. Cardinality(Users \ {r}) = Cardinality(Users) - 1
    BY <2>1, UsersFinite, FS_RemoveElement
  <2> QED
    BY <2>1, <2>2
<1>24. ASSUME NEW r \in Req, Answered(r) PROVE ActiveExact'
  <2>1. Users' = Users
    BY <1>24 DEF Answered, Users
  <2> QED
    BY <1>24, <2>1 DEF Answered
<1>25. ASSUME NEW r \in Req, AnsweredEmpty(r) PROVE ActiveExact'
  <2>1. r \in Users /\ Users' = Users \ {r} /\ active' = active - 1
    BY <1>25 DEF AnsweredEmpty, Finish, Users
  <2>2. Cardinality(Users \ {r}) = Cardinality(Users) - 1
    BY <2>1, UsersFinite, FS_RemoveElement
  <2> QED
    BY <2>1, <2>2
<1>26. ASSUME NEW r \in Req, AnswerFails(r) PROVE ActiveExact'
  <2>1. r \in Users /\ Users' = Users \ {r} /\ active' = active - 1
    BY <1>26 DEF AnswerFails, Finish, Users
  <2>2. Cardinality(Users \ {r}) = Cardinality(Users) - 1
    BY <2>1, UsersFinite, FS_RemoveElement
  <2> QED
    BY <2>1, <2>2
<1>27. ASSUME NEW r \in Req, Completes(r) PROVE ActiveExact'
  <2>1. r \in Users /\ Users' = Users \ {r} /\ active' = active - 1
    BY <1>27 DEF Completes, Finish, Users
  <2>2. Cardinality(Users \ {r}) = Cardinality(Users) - 1
    BY <2>1, UsersFinite, FS_RemoveElement
  <2> QED
    BY <2>1, <2>2
<1>28. ASSUME NEW r \in Req, ClientLeaves(r) PROVE ActiveExact'
  <2>1. Users' = Users
    BY <1>28 DEF ClientLeaves, Users
  <2> QED
    BY <1>28, <2>1 DEF ClientLeaves
<1>29. ASSUME Passing, UNCHANGED <<tunvars, reqvars>> PROVE ActiveExact'
  <2>1. Users' = Users
    BY <1>29 DEF Passing, CleanupEntries, CleanupSessions, WindowPasses, LockPasses, SessionExpires, Users
  <2> QED
    BY <1>29, <2>1 DEF Passing, CleanupEntries, CleanupSessions, WindowPasses, LockPasses, SessionExpires
<1>30. ASSUME UNCHANGED httpvars PROVE ActiveExact'
  <2>1. Users' = Users
    BY <1>30 DEF httpvars, Users
  <2> QED
    BY <1>30, <2>1 DEF httpvars
<1> QED
  BY <1>1, <1>2, <1>3, <1>4, <1>5, <1>6, <1>7, <1>8, <1>9, <1>10, <1>11, <1>12, <1>13,
     <1>14, <1>15, <1>16, <1>17, <1>18, <1>19, <1>20, <1>21, <1>22, <1>23, <1>24, <1>25,
     <1>26, <1>27, <1>28, <1>29, <1>30 DEF HTTPMove, HTTPStep, Serving, Deciding, Exchange

-----------------------------------------------------------------------------
(* Every interleaving of requests, the tunnel and time.                    *)

HTTPSpec == HTTPInit /\ [][HTTPMove]_httpvars

THEOREM HTTPTypes == HTTPSpec => [](HTTPTyped /\ StreamHeld /\ ActiveExact)
<1>1. HTTPTyped /\ StreamHeld /\ ActiveExact /\ [HTTPMove]_httpvars
          => (HTTPTyped /\ StreamHeld /\ ActiveExact)'
  BY NextHTTPTyped, NextStreams, NextActive DEF HTTPMove
<1> QED
  BY InitHTTP, <1>1, PTL DEF HTTPSpec

\* On every path of errors, timeouts and ends of the tunnel the counter of
\* active connections (defer in handler.go) is the number of requests that
\* have a stream, and an open stream has a request, or the goroutine of
\* openStreamWithTimeout, that will close it.
THEOREM CountersReturn == HTTPSpec => []NothingLeft
<1>1. StreamHeld /\ ActiveExact => NothingLeft
  BY DEF StreamHeld, ActiveExact, NothingLeft, Users
<1> QED
  BY HTTPTypes, <1>1, PTL

-----------------------------------------------------------------------------
(* What MCHttp remembers, along every interleaving.                        *)

\* Requests that find no rules, no auth or no type set yet are told from the rest.
Watch ==
    /\ HTTPMove
    /\ \A r \in Req :
        /\ at[r] = "rules" /\ at'[r] = "auth" /\ stage < 3 => r \in early'
        /\ at[r] = "auth" /\ at'[r] = "open" /\ stage < 4 => r \in early'
        /\ at[r] = "open" /\ at'[r] = "wait" /\ stage < 2 => r \in early'
    /\ early \subseteq early'
    /\ past' = IF \E a \in Addr : Locked(a)' /\ ~Locked(a) THEN Pending' ELSE past
    /\ peak' \in Nat /\ peak <= peak' /\ Cardinality(Pending') <= peak'

\* Where a request is when its address, and whoever sent it, has been let in.
InsideRules == {"auth", "bearer", "login", "password", "cookie", "open", "wait", "late"} \cup Exchanging
InsideAuth == {"open", "wait", "late"} \cup Exchanging
InsideType == {"wait", "late"} \cup Exchanging

RulesPassed ==
    \A r \in Req : at[r] \in InsideRules /\ r \notin early =>
        /\ \A d \in Deny : ClientIP(r) \notin d
        /\ Allow # {} => \E n \in Allow : ClientIP(r) \in n

\* A request looks for a cookie only when the tunnel has a password.
WayChosen ==
    \A r \in Req :
        /\ at[r] = "bearer" => setup.auth = "bearer"
        /\ at[r] = "cookie" => setup.auth # "bearer"

AuthPassed ==
    \A r \in Req : at[r] \in InsideAuth /\ r \notin early =>
        /\ setup.auth = "bearer" => ask[r].cred = "good"
        /\ setup.auth = "password" => ask[r].cookie \in used

TypePassed == \A r \in Req : at[r] \in InsideType /\ r \notin early => ~setup.tcp

\* Nothing changes what a tunnel was registered with, nor a request, nor takes
\* a token back.
LEMMA Unchanging == HTTPMove => setup' = setup /\ ask' = ask /\ used \subseteq used'
<1> SUFFICES ASSUME HTTPMove PROVE setup' = setup /\ ask' = ask /\ used \subseteq used'
  OBVIOUS
<1> USE DEF Rest, tunvars, reqvars, authvars
<1>1. ASSUME Configure \/ SessionEnds \/ TunnelLeaves PROVE setup' = setup /\ ask' = ask /\ used \subseteq used'
  BY <1>1 DEF Configure, SessionEnds, TunnelLeaves
<1>2. ASSUME NEW r \in Req, Deciding(r) PROVE setup' = setup /\ ask' = ask /\ used \subseteq used'
  BY <1>2 DEF Deciding, Lookup, CheckClosed, CheckRules, CheckAuth, Bearer, Cookie, Login, Password,
              RefuseKind, StartOpen, RecordFailure, CreateSession
<1>3. ASSUME NEW r \in Req, Serving(r) \/ Exchange(r) PROVE setup' = setup /\ ask' = ask /\ used \subseteq used'
  BY <1>2, <1>3 DEF Serving, Exchange, Opened, CloseLate, StreamFails, ContextDone, Finish, Opens, OpenFails,
              OpenTimesOut, HijackFails, Forward, ForwardFails, Answered, AnsweredEmpty, AnswerFails,
              Completes, ClientLeaves
<1>4. ASSUME Passing, UNCHANGED <<tunvars, reqvars>> PROVE setup' = setup /\ ask' = ask /\ used \subseteq used'
  BY <1>4 DEF Passing, CleanupEntries, CleanupSessions, WindowPasses, LockPasses, SessionExpires
<1> QED
  BY <1>1, <1>3, <1>4 DEF HTTPMove, HTTPStep, httpvars

LEMMA NextRules == HTTPTyped /\ RulesPassed /\ Watch => RulesPassed'
<1> SUFFICES ASSUME HTTPTyped, RulesPassed, Watch PROVE RulesPassed'
  OBVIOUS
<1> USE DEF Goes, Rest, tunvars, reqvars, authvars, Exchanging, RulesPassed, Before, Final, InsideRules
<1>a. HTTPMove /\ (\A r \in Req : ClientIP(r)' = ClientIP(r)) /\ Allow' = Allow /\ Deny' = Deny
  BY Unchanging DEF Watch, ClientIP, Allow, Deny, Parsed
<1>b. early \subseteq early' /\ at \in [Req -> Before \cup {"wait", "late"} \cup Exchanging \cup Final]
  BY DEF Watch, HTTPTyped
<1>1. ASSUME Configure PROVE RulesPassed'
  BY <1>1, <1>a, <1>b DEF Configure
<1>2. ASSUME SessionEnds PROVE RulesPassed'
  BY <1>2, <1>a, <1>b DEF SessionEnds
<1>3. ASSUME TunnelLeaves PROVE RulesPassed'
  BY <1>3, <1>a, <1>b DEF TunnelLeaves
<1>4. ASSUME NEW r \in Req, Lookup(r) PROVE RulesPassed'
  BY <1>4, <1>a, <1>b DEF Lookup
<1>5. ASSUME NEW r \in Req, CheckClosed(r) PROVE RulesPassed'
  BY <1>5, <1>a, <1>b DEF CheckClosed
<1>6. ASSUME NEW r \in Req, CheckRules(r) PROVE RulesPassed'
  <2>1. CASE stage < 3
    <3>1. at'[r] = "auth" => r \in early'
      BY <1>6, <2>1 DEF CheckRules, Watch
    <3> QED
      BY <1>6, <1>a, <1>b, <3>1 DEF CheckRules
  <2>2. CASE ~(stage < 3)
    <3>1. stage >= 3
      BY <2>2 DEF HTTPTyped
    <3>2. at'[r] = "auth" => /\ \A d \in Deny : ClientIP(r) \notin d
                             /\ Allow # {} => \E n \in Allow : ClientIP(r) \in n
      BY <1>6, <1>b, <3>1 DEF CheckRules, HasRules, IsAllowed
    <3> QED
      BY <1>6, <1>a, <1>b, <3>2 DEF CheckRules
  <2> QED
    BY <2>1, <2>2
<1>7. ASSUME NEW r \in Req, CheckAuth(r) PROVE RulesPassed'
  BY <1>7, <1>a, <1>b DEF CheckAuth
<1>8. ASSUME NEW r \in Req, Bearer(r) PROVE RulesPassed'
  BY <1>8, <1>a, <1>b DEF Bearer, RecordFailure
<1>9. ASSUME NEW r \in Req, Cookie(r) PROVE RulesPassed'
  BY <1>9, <1>a, <1>b DEF Cookie
<1>10. ASSUME NEW r \in Req, Login(r) PROVE RulesPassed'
  BY <1>10, <1>a, <1>b DEF Login
<1>11. ASSUME NEW r \in Req, Password(r) PROVE RulesPassed'
  BY <1>11, <1>a, <1>b DEF Password, RecordFailure
<1>12. ASSUME NEW r \in Req, RefuseKind(r) PROVE RulesPassed'
  BY <1>12, <1>a, <1>b DEF RefuseKind
<1>13. ASSUME NEW r \in Req, StartOpen(r) PROVE RulesPassed'
  BY <1>13, <1>a, <1>b DEF StartOpen
<1>14. ASSUME NEW r \in Req, Opened(r) PROVE RulesPassed'
  BY <1>14, <1>a, <1>b DEF Opened
<1>15. ASSUME NEW r \in Req, CloseLate(r) PROVE RulesPassed'
  BY <1>15, <1>a, <1>b DEF CloseLate
<1>16. ASSUME NEW r \in Req, StreamFails(r) PROVE RulesPassed'
  BY <1>16, <1>a, <1>b DEF StreamFails, Finish
<1>17. ASSUME NEW r \in Req, ContextDone(r) PROVE RulesPassed'
  BY <1>17, <1>a, <1>b DEF ContextDone
<1>18. ASSUME NEW r \in Req, Opens(r) PROVE RulesPassed'
  BY <1>18, <1>a, <1>b DEF Opens
<1>19. ASSUME NEW r \in Req, OpenFails(r) PROVE RulesPassed'
  BY <1>19, <1>a, <1>b DEF OpenFails
<1>20. ASSUME NEW r \in Req, OpenTimesOut(r) PROVE RulesPassed'
  BY <1>20, <1>a, <1>b DEF OpenTimesOut
<1>21. ASSUME NEW r \in Req, HijackFails(r) PROVE RulesPassed'
  BY <1>21, <1>a, <1>b DEF HijackFails, Finish
<1>22. ASSUME NEW r \in Req, Forward(r) PROVE RulesPassed'
  BY <1>22, <1>a, <1>b DEF Forward
<1>23. ASSUME NEW r \in Req, ForwardFails(r) PROVE RulesPassed'
  BY <1>23, <1>a, <1>b DEF ForwardFails, Finish
<1>24. ASSUME NEW r \in Req, Answered(r) PROVE RulesPassed'
  BY <1>24, <1>a, <1>b DEF Answered
<1>25. ASSUME NEW r \in Req, AnsweredEmpty(r) PROVE RulesPassed'
  BY <1>25, <1>a, <1>b DEF AnsweredEmpty, Finish
<1>26. ASSUME NEW r \in Req, AnswerFails(r) PROVE RulesPassed'
  BY <1>26, <1>a, <1>b DEF AnswerFails, Finish
<1>27. ASSUME NEW r \in Req, Completes(r) PROVE RulesPassed'
  BY <1>27, <1>a, <1>b DEF Completes, Finish
<1>28. ASSUME NEW r \in Req, ClientLeaves(r) PROVE RulesPassed'
  BY <1>28, <1>a, <1>b DEF ClientLeaves
<1>29. ASSUME Passing, UNCHANGED <<tunvars, reqvars>> PROVE RulesPassed'
  BY <1>29, <1>a, <1>b DEF Passing, CleanupEntries, CleanupSessions, WindowPasses, LockPasses, SessionExpires
<1>30. ASSUME UNCHANGED httpvars PROVE RulesPassed'
  BY <1>30, <1>a, <1>b DEF httpvars
<1> QED
  BY <1>1, <1>2, <1>3, <1>4, <1>5, <1>6, <1>7, <1>8, <1>9, <1>10, <1>11, <1>12, <1>13,
     <1>14, <1>15, <1>16, <1>17, <1>18, <1>19, <1>20, <1>21, <1>22, <1>23, <1>24, <1>25,
     <1>26, <1>27, <1>28, <1>29, <1>30 DEF HTTPMove, HTTPStep, Serving, Deciding, Exchange, Watch

LEMMA NextWay == HTTPTyped /\ WayChosen /\ Watch => WayChosen'
<1> SUFFICES ASSUME HTTPTyped, WayChosen, Watch PROVE WayChosen'
  OBVIOUS
<1> USE DEF Goes, Rest, tunvars, reqvars, authvars, Exchanging, WayChosen, Before, Final
<1>a. setup' = setup
  BY Unchanging DEF Watch
<1>b. at \in [Req -> Before \cup {"wait", "late"} \cup Exchanging \cup Final]
  BY DEF HTTPTyped
<1>1. ASSUME Configure PROVE WayChosen'
  BY <1>1, <1>a, <1>b DEF Configure
<1>2. ASSUME SessionEnds PROVE WayChosen'
  BY <1>2, <1>a, <1>b DEF SessionEnds
<1>3. ASSUME TunnelLeaves PROVE WayChosen'
  BY <1>3, <1>a, <1>b DEF TunnelLeaves
<1>4. ASSUME NEW r \in Req, Lookup(r) PROVE WayChosen'
  BY <1>4, <1>a, <1>b DEF Lookup
<1>5. ASSUME NEW r \in Req, CheckClosed(r) PROVE WayChosen'
  BY <1>5, <1>a, <1>b DEF CheckClosed
<1>6. ASSUME NEW r \in Req, CheckRules(r) PROVE WayChosen'
  BY <1>6, <1>a, <1>b DEF CheckRules
<1>7. ASSUME NEW r \in Req, CheckAuth(r) PROVE WayChosen'
  BY <1>7, <1>a, <1>b DEF CheckAuth
<1>8. ASSUME NEW r \in Req, Bearer(r) PROVE WayChosen'
  BY <1>8, <1>a, <1>b DEF Bearer, RecordFailure
<1>9. ASSUME NEW r \in Req, Cookie(r) PROVE WayChosen'
  BY <1>9, <1>a, <1>b DEF Cookie
<1>10. ASSUME NEW r \in Req, Login(r) PROVE WayChosen'
  BY <1>10, <1>a, <1>b DEF Login
<1>11. ASSUME NEW r \in Req, Password(r) PROVE WayChosen'
  BY <1>11, <1>a, <1>b DEF Password, RecordFailure
<1>12. ASSUME NEW r \in Req, RefuseKind(r) PROVE WayChosen'
  BY <1>12, <1>a, <1>b DEF RefuseKind
<1>13. ASSUME NEW r \in Req, StartOpen(r) PROVE WayChosen'
  BY <1>13, <1>a, <1>b DEF StartOpen
<1>14. ASSUME NEW r \in Req, Opened(r) PROVE WayChosen'
  BY <1>14, <1>a, <1>b DEF Opened
<1>15. ASSUME NEW r \in Req, CloseLate(r) PROVE WayChosen'
  BY <1>15, <1>a, <1>b DEF CloseLate
<1>16. ASSUME NEW r \in Req, StreamFails(r) PROVE WayChosen'
  BY <1>16, <1>a, <1>b DEF StreamFails, Finish
<1>17. ASSUME NEW r \in Req, ContextDone(r) PROVE WayChosen'
  BY <1>17, <1>a, <1>b DEF ContextDone
<1>18. ASSUME NEW r \in Req, Opens(r) PROVE WayChosen'
  BY <1>18, <1>a, <1>b DEF Opens
<1>19. ASSUME NEW r \in Req, OpenFails(r) PROVE WayChosen'
  BY <1>19, <1>a, <1>b DEF OpenFails
<1>20. ASSUME NEW r \in Req, OpenTimesOut(r) PROVE WayChosen'
  BY <1>20, <1>a, <1>b DEF OpenTimesOut
<1>21. ASSUME NEW r \in Req, HijackFails(r) PROVE WayChosen'
  BY <1>21, <1>a, <1>b DEF HijackFails, Finish
<1>22. ASSUME NEW r \in Req, Forward(r) PROVE WayChosen'
  BY <1>22, <1>a, <1>b DEF Forward
<1>23. ASSUME NEW r \in Req, ForwardFails(r) PROVE WayChosen'
  BY <1>23, <1>a, <1>b DEF ForwardFails, Finish
<1>24. ASSUME NEW r \in Req, Answered(r) PROVE WayChosen'
  BY <1>24, <1>a, <1>b DEF Answered
<1>25. ASSUME NEW r \in Req, AnsweredEmpty(r) PROVE WayChosen'
  BY <1>25, <1>a, <1>b DEF AnsweredEmpty, Finish
<1>26. ASSUME NEW r \in Req, AnswerFails(r) PROVE WayChosen'
  BY <1>26, <1>a, <1>b DEF AnswerFails, Finish
<1>27. ASSUME NEW r \in Req, Completes(r) PROVE WayChosen'
  BY <1>27, <1>a, <1>b DEF Completes, Finish
<1>28. ASSUME NEW r \in Req, ClientLeaves(r) PROVE WayChosen'
  BY <1>28, <1>a, <1>b DEF ClientLeaves
<1>29. ASSUME Passing, UNCHANGED <<tunvars, reqvars>> PROVE WayChosen'
  BY <1>29, <1>a, <1>b DEF Passing, CleanupEntries, CleanupSessions, WindowPasses, LockPasses, SessionExpires
<1>30. ASSUME UNCHANGED httpvars PROVE WayChosen'
  BY <1>30, <1>a, <1>b DEF httpvars
<1> QED
  BY <1>1, <1>2, <1>3, <1>4, <1>5, <1>6, <1>7, <1>8, <1>9, <1>10, <1>11, <1>12, <1>13,
     <1>14, <1>15, <1>16, <1>17, <1>18, <1>19, <1>20, <1>21, <1>22, <1>23, <1>24, <1>25,
     <1>26, <1>27, <1>28, <1>29, <1>30 DEF HTTPMove, HTTPStep, Serving, Deciding, Exchange, Watch

LEMMA NextAuth == HTTPTyped /\ WayChosen /\ AuthPassed /\ Watch => AuthPassed'
<1> SUFFICES ASSUME HTTPTyped, WayChosen, AuthPassed, Watch PROVE AuthPassed'
  OBVIOUS
<1> USE DEF Goes, Rest, tunvars, reqvars, authvars, Exchanging, AuthPassed, Before, Final, InsideAuth
<1>a. setup' = setup /\ ask' = ask /\ used \subseteq used'
  BY Unchanging DEF Watch
<1>b. early \subseteq early' /\ at \in [Req -> Before \cup {"wait", "late"} \cup Exchanging \cup Final]
  BY DEF Watch, HTTPTyped
<1>1. ASSUME Configure PROVE AuthPassed'
  BY <1>1, <1>a, <1>b DEF Configure
<1>2. ASSUME SessionEnds PROVE AuthPassed'
  BY <1>2, <1>a, <1>b DEF SessionEnds
<1>3. ASSUME TunnelLeaves PROVE AuthPassed'
  BY <1>3, <1>a, <1>b DEF TunnelLeaves
<1>4. ASSUME NEW r \in Req, Lookup(r) PROVE AuthPassed'
  BY <1>4, <1>a, <1>b DEF Lookup
<1>5. ASSUME NEW r \in Req, CheckClosed(r) PROVE AuthPassed'
  BY <1>5, <1>a, <1>b DEF CheckClosed
<1>6. ASSUME NEW r \in Req, CheckRules(r) PROVE AuthPassed'
  BY <1>6, <1>a, <1>b DEF CheckRules
<1>7. ASSUME NEW r \in Req, CheckAuth(r) PROVE AuthPassed'
  <2>1. at'[r] = "open" => r \in early' \/ setup.auth = "none"
    BY <1>7, <1>b DEF CheckAuth, Watch, HTTPTyped
  <2> QED
    BY <1>7, <1>a, <1>b, <2>1 DEF CheckAuth
<1>8. ASSUME NEW r \in Req, Bearer(r) PROVE AuthPassed'
  <2>1. setup.auth = "bearer"
    BY <1>8 DEF Bearer, WayChosen
  <2>2. at' = [at EXCEPT ![r] = IF ask[r].cred = "good" THEN "open" ELSE "401"]
    BY <1>8 DEF Bearer
  <2> QED
    BY <1>8, <1>a, <1>b, <2>1, <2>2
<1>9. ASSUME NEW r \in Req, Cookie(r) PROVE AuthPassed'
  <2>1. ask[r].cookie \in Token \cup {NoHeader}
    BY DEF HTTPTyped, AskType
  <2>2. at'[r] = "open" => ask[r].cookie \in used
    BY <1>9, <1>b, <2>1 DEF Cookie, HTTPTyped
  <2>3. setup.auth # "bearer"
    BY <1>9 DEF Cookie, WayChosen
  <2> QED
    BY <1>9, <1>a, <1>b, <2>2, <2>3 DEF Cookie
<1>10. ASSUME NEW r \in Req, Login(r) PROVE AuthPassed'
  BY <1>10, <1>a, <1>b DEF Login
<1>11. ASSUME NEW r \in Req, Password(r) PROVE AuthPassed'
  BY <1>11, <1>a, <1>b DEF Password, RecordFailure
<1>12. ASSUME NEW r \in Req, RefuseKind(r) PROVE AuthPassed'
  BY <1>12, <1>a, <1>b DEF RefuseKind
<1>13. ASSUME NEW r \in Req, StartOpen(r) PROVE AuthPassed'
  BY <1>13, <1>a, <1>b DEF StartOpen
<1>14. ASSUME NEW r \in Req, Opened(r) PROVE AuthPassed'
  BY <1>14, <1>a, <1>b DEF Opened
<1>15. ASSUME NEW r \in Req, CloseLate(r) PROVE AuthPassed'
  BY <1>15, <1>a, <1>b DEF CloseLate
<1>16. ASSUME NEW r \in Req, StreamFails(r) PROVE AuthPassed'
  BY <1>16, <1>a, <1>b DEF StreamFails, Finish
<1>17. ASSUME NEW r \in Req, ContextDone(r) PROVE AuthPassed'
  BY <1>17, <1>a, <1>b DEF ContextDone
<1>18. ASSUME NEW r \in Req, Opens(r) PROVE AuthPassed'
  BY <1>18, <1>a, <1>b DEF Opens
<1>19. ASSUME NEW r \in Req, OpenFails(r) PROVE AuthPassed'
  BY <1>19, <1>a, <1>b DEF OpenFails
<1>20. ASSUME NEW r \in Req, OpenTimesOut(r) PROVE AuthPassed'
  BY <1>20, <1>a, <1>b DEF OpenTimesOut
<1>21. ASSUME NEW r \in Req, HijackFails(r) PROVE AuthPassed'
  BY <1>21, <1>a, <1>b DEF HijackFails, Finish
<1>22. ASSUME NEW r \in Req, Forward(r) PROVE AuthPassed'
  BY <1>22, <1>a, <1>b DEF Forward
<1>23. ASSUME NEW r \in Req, ForwardFails(r) PROVE AuthPassed'
  BY <1>23, <1>a, <1>b DEF ForwardFails, Finish
<1>24. ASSUME NEW r \in Req, Answered(r) PROVE AuthPassed'
  BY <1>24, <1>a, <1>b DEF Answered
<1>25. ASSUME NEW r \in Req, AnsweredEmpty(r) PROVE AuthPassed'
  BY <1>25, <1>a, <1>b DEF AnsweredEmpty, Finish
<1>26. ASSUME NEW r \in Req, AnswerFails(r) PROVE AuthPassed'
  BY <1>26, <1>a, <1>b DEF AnswerFails, Finish
<1>27. ASSUME NEW r \in Req, Completes(r) PROVE AuthPassed'
  BY <1>27, <1>a, <1>b DEF Completes, Finish
<1>28. ASSUME NEW r \in Req, ClientLeaves(r) PROVE AuthPassed'
  BY <1>28, <1>a, <1>b DEF ClientLeaves
<1>29. ASSUME Passing, UNCHANGED <<tunvars, reqvars>> PROVE AuthPassed'
  BY <1>29, <1>a, <1>b DEF Passing, CleanupEntries, CleanupSessions, WindowPasses, LockPasses, SessionExpires
<1>30. ASSUME UNCHANGED httpvars PROVE AuthPassed'
  BY <1>30, <1>a, <1>b DEF httpvars
<1> QED
  BY <1>1, <1>2, <1>3, <1>4, <1>5, <1>6, <1>7, <1>8, <1>9, <1>10, <1>11, <1>12, <1>13,
     <1>14, <1>15, <1>16, <1>17, <1>18, <1>19, <1>20, <1>21, <1>22, <1>23, <1>24, <1>25,
     <1>26, <1>27, <1>28, <1>29, <1>30 DEF HTTPMove, HTTPStep, Serving, Deciding, Exchange, Watch

LEMMA NextType == HTTPTyped /\ TypePassed /\ Watch => TypePassed'
<1> SUFFICES ASSUME HTTPTyped, TypePassed, Watch PROVE TypePassed'
  OBVIOUS
<1> USE DEF Goes, Rest, tunvars, reqvars, authvars, Exchanging, TypePassed, Before, Final, InsideType
<1>a. setup' = setup /\ ask' = ask /\ used \subseteq used'
  BY Unchanging DEF Watch
<1>b. early \subseteq early' /\ at \in [Req -> Before \cup {"wait", "late"} \cup Exchanging \cup Final]
  BY DEF Watch, HTTPTyped
<1>1. ASSUME Configure PROVE TypePassed'
  BY <1>1, <1>a, <1>b DEF Configure
<1>2. ASSUME SessionEnds PROVE TypePassed'
  BY <1>2, <1>a, <1>b DEF SessionEnds
<1>3. ASSUME TunnelLeaves PROVE TypePassed'
  BY <1>3, <1>a, <1>b DEF TunnelLeaves
<1>4. ASSUME NEW r \in Req, Lookup(r) PROVE TypePassed'
  BY <1>4, <1>a, <1>b DEF Lookup
<1>5. ASSUME NEW r \in Req, CheckClosed(r) PROVE TypePassed'
  BY <1>5, <1>a, <1>b DEF CheckClosed
<1>6. ASSUME NEW r \in Req, CheckRules(r) PROVE TypePassed'
  BY <1>6, <1>a, <1>b DEF CheckRules
<1>7. ASSUME NEW r \in Req, CheckAuth(r) PROVE TypePassed'
  BY <1>7, <1>a, <1>b DEF CheckAuth
<1>8. ASSUME NEW r \in Req, Bearer(r) PROVE TypePassed'
  BY <1>8, <1>a, <1>b DEF Bearer, RecordFailure
<1>9. ASSUME NEW r \in Req, Cookie(r) PROVE TypePassed'
  BY <1>9, <1>a, <1>b DEF Cookie
<1>10. ASSUME NEW r \in Req, Login(r) PROVE TypePassed'
  BY <1>10, <1>a, <1>b DEF Login
<1>11. ASSUME NEW r \in Req, Password(r) PROVE TypePassed'
  BY <1>11, <1>a, <1>b DEF Password, RecordFailure
<1>12. ASSUME NEW r \in Req, RefuseKind(r) PROVE TypePassed'
  BY <1>12, <1>a, <1>b DEF RefuseKind
<1>13. ASSUME NEW r \in Req, StartOpen(r) PROVE TypePassed'
  <2>1. r \in early' \/ ~setup.tcp
    BY <1>13, <1>b DEF StartOpen, WrongType, Watch, HTTPTyped
  <2> QED
    BY <1>13, <1>a, <1>b, <2>1 DEF StartOpen
<1>14. ASSUME NEW r \in Req, Opened(r) PROVE TypePassed'
  BY <1>14, <1>a, <1>b DEF Opened
<1>15. ASSUME NEW r \in Req, CloseLate(r) PROVE TypePassed'
  BY <1>15, <1>a, <1>b DEF CloseLate
<1>16. ASSUME NEW r \in Req, StreamFails(r) PROVE TypePassed'
  BY <1>16, <1>a, <1>b DEF StreamFails, Finish
<1>17. ASSUME NEW r \in Req, ContextDone(r) PROVE TypePassed'
  BY <1>17, <1>a, <1>b DEF ContextDone
<1>18. ASSUME NEW r \in Req, Opens(r) PROVE TypePassed'
  BY <1>18, <1>a, <1>b DEF Opens
<1>19. ASSUME NEW r \in Req, OpenFails(r) PROVE TypePassed'
  BY <1>19, <1>a, <1>b DEF OpenFails
<1>20. ASSUME NEW r \in Req, OpenTimesOut(r) PROVE TypePassed'
  BY <1>20, <1>a, <1>b DEF OpenTimesOut
<1>21. ASSUME NEW r \in Req, HijackFails(r) PROVE TypePassed'
  BY <1>21, <1>a, <1>b DEF HijackFails, Finish
<1>22. ASSUME NEW r \in Req, Forward(r) PROVE TypePassed'
  BY <1>22, <1>a, <1>b DEF Forward
<1>23. ASSUME NEW r \in Req, ForwardFails(r) PROVE TypePassed'
  BY <1>23, <1>a, <1>b DEF ForwardFails, Finish
<1>24. ASSUME NEW r \in Req, Answered(r) PROVE TypePassed'
  BY <1>24, <1>a, <1>b DEF Answered
<1>25. ASSUME NEW r \in Req, AnsweredEmpty(r) PROVE TypePassed'
  BY <1>25, <1>a, <1>b DEF AnsweredEmpty, Finish
<1>26. ASSUME NEW r \in Req, AnswerFails(r) PROVE TypePassed'
  BY <1>26, <1>a, <1>b DEF AnswerFails, Finish
<1>27. ASSUME NEW r \in Req, Completes(r) PROVE TypePassed'
  BY <1>27, <1>a, <1>b DEF Completes, Finish
<1>28. ASSUME NEW r \in Req, ClientLeaves(r) PROVE TypePassed'
  BY <1>28, <1>a, <1>b DEF ClientLeaves
<1>29. ASSUME Passing, UNCHANGED <<tunvars, reqvars>> PROVE TypePassed'
  BY <1>29, <1>a, <1>b DEF Passing, CleanupEntries, CleanupSessions, WindowPasses, LockPasses, SessionExpires
<1>30. ASSUME UNCHANGED httpvars PROVE TypePassed'
  BY <1>30, <1>a, <1>b DEF httpvars
<1> QED
  BY <1>1, <1>2, <1>3, <1>4, <1>5, <1>6, <1>7, <1>8, <1>9, <1>10, <1>11, <1>12, <1>13,
     <1>14, <1>15, <1>16, <1>17, <1>18, <1>19, <1>20, <1>21, <1>22, <1>23, <1>24, <1>25,
     <1>26, <1>27, <1>28, <1>29, <1>30 DEF HTTPMove, HTTPStep, Serving, Deciding, Exchange, Watch

\* Requests of an address that are past the limit.
PendingFrom(a) == {r \in Pending : ClientIP(r) = a}

\* The failures of an open window and the requests that may add to it are at
\* most one below the limit and the largest burst; an old window only stays.
Burst ==
    /\ peak \in Nat /\ Cardinality(Pending) <= peak
    /\ \A a \in Addr : entries[a] # NoEntry =>
        /\ entries[a].failures < MaxFailures + peak
        /\ entries[a].window = "open" =>
               entries[a].failures + Cardinality(PendingFrom(a)) < MaxFailures + peak
        /\ entries[a].lock = "on" => peak > Threshold - MaxFailures

LEMMA PendingFinite ==
    /\ IsFiniteSet(Pending) /\ Cardinality(Pending) \in Nat
    /\ IsFiniteSet(Pending') /\ Cardinality(Pending') \in Nat
<1>1. Pending \subseteq Req /\ Pending' \subseteq Req
  BY DEF Pending
<1> QED
  BY <1>1, FS_Subset, FS_CardinalityType

\* The requests of one address are some of all.
LEMMA FromFinite ==
    ASSUME NEW a
    PROVE  /\ IsFiniteSet(PendingFrom(a)) /\ Cardinality(PendingFrom(a)) \in Nat
           /\ Cardinality(PendingFrom(a)) <= Cardinality(Pending)
           /\ IsFiniteSet(PendingFrom(a)') /\ Cardinality(PendingFrom(a)') \in Nat
           /\ Cardinality(PendingFrom(a)') <= Cardinality(Pending')
<1>1. PendingFrom(a) \subseteq Pending /\ PendingFrom(a)' \subseteq Pending'
  BY DEF PendingFrom
<1> QED
  BY <1>1, PendingFinite, FS_Subset, FS_CardinalityType

\* A step that adds no request and touches no entry keeps the bound: also
\* when a request leaves.
LEMMA BurstKept ==
    ASSUME HTTPTyped, Burst, Watch, UNCHANGED entries, Pending' \subseteq Pending
    PROVE  Burst'
<1>1. peak' \in Nat /\ peak <= peak' /\ Cardinality(Pending') <= peak' /\ HTTPMove
  BY DEF Watch
<1>2. ASSUME NEW a \in Addr PROVE Cardinality(PendingFrom(a)') <= Cardinality(PendingFrom(a))
  <2>1. PendingFrom(a)' \subseteq PendingFrom(a)
    BY <1>1, Unchanging DEF PendingFrom, ClientIP
  <2> QED
    BY <2>1, FromFinite, FS_Subset
<1>3. ASSUME NEW a \in Addr, entries'[a] # NoEntry
      PROVE  /\ entries'[a].failures < MaxFailures + peak'
             /\ entries'[a].window = "open" =>
                    entries'[a].failures + Cardinality(PendingFrom(a)') < MaxFailures + peak'
             /\ entries'[a].lock = "on" => peak' > Threshold - MaxFailures
  <2>1. entries[a] \in Entry /\ entries'[a] = entries[a]
    BY <1>3 DEF HTTPTyped
  <2>2. entries[a].failures \in Nat
    BY <2>1 DEF Entry
  <2>3. /\ entries[a].failures < MaxFailures + peak
        /\ entries[a].window = "open" =>
               entries[a].failures + Cardinality(PendingFrom(a)) < MaxFailures + peak
        /\ entries[a].lock = "on" => peak > Threshold - MaxFailures
        /\ peak \in Nat
    BY <1>3, <2>1 DEF Burst
  <2> QED
    BY <1>1, <1>2, <2>1, <2>2, <2>3, FromFinite
<1> QED
  BY <1>1, <1>3 DEF Burst

\* A request that is let past the limit joins those of its address, whose
\* failures are below it.
LEMMA BurstJoins ==
    ASSUME HTTPTyped, Burst, Watch, UNCHANGED entries, NEW r \in Req,
           Pending' \subseteq Pending \cup {r}, ~IsRateLimited(ClientIP(r))
    PROVE  Burst'
<1>1. peak' \in Nat /\ peak <= peak' /\ Cardinality(Pending') <= peak' /\ HTTPMove
  BY DEF Watch
<1>2. ASSUME NEW a \in Addr, entries'[a] # NoEntry
      PROVE  /\ entries'[a].failures < MaxFailures + peak'
             /\ entries'[a].window = "open" =>
                    entries'[a].failures + Cardinality(PendingFrom(a)') < MaxFailures + peak'
             /\ entries'[a].lock = "on" => peak' > Threshold - MaxFailures
  <2>1. entries[a] \in Entry /\ entries'[a] = entries[a]
    BY <1>2 DEF HTTPTyped
  <2>2. entries[a].failures \in Nat
    BY <2>1 DEF Entry
  <2>3. /\ entries[a].failures < MaxFailures + peak
        /\ entries[a].window = "open" =>
               entries[a].failures + Cardinality(PendingFrom(a)) < MaxFailures + peak
        /\ entries[a].lock = "on" => peak > Threshold - MaxFailures
        /\ peak \in Nat
    BY <1>2, <2>1 DEF Burst
  <2>4. CASE a = ClientIP(r)
    <3>1. entries[a].window = "open" => entries[a].failures < MaxFailures
      BY <1>2, <2>1, <2>2, <2>4 DEF IsRateLimited
    <3> QED
      BY <1>1, <2>1, <2>2, <2>3, <3>1, FromFinite, PendingFinite
  <2>5. CASE a # ClientIP(r)
    <3>1. PendingFrom(a)' \subseteq PendingFrom(a)
      BY <1>1, <2>5, Unchanging DEF PendingFrom, ClientIP
    <3>2. Cardinality(PendingFrom(a)') <= Cardinality(PendingFrom(a))
      BY <3>1, FromFinite, FS_Subset
    <3> QED
      BY <1>1, <2>1, <2>2, <2>3, <3>2, FromFinite
  <2> QED
    BY <2>4, <2>5
<1> QED
  BY <1>1, <1>2 DEF Burst

LEMMA FirstFailure ==
    ASSUME NEW m \in Nat, NEW p \in Nat, NEW q \in Nat, NEW n \in Nat, m >= 1, p <= q, n <= p, n - 1 \in Nat
    PROVE  1 < m + q /\ 1 + (n - 1) < m + q
OBVIOUS

\* A login that fails counts one and leaves.
LEMMA BurstCounts ==
    ASSUME HTTPTyped, Burst, Watch, NEW r \in Pending, Pending' = Pending \ {r},
           NEW b \in Addr, b = ClientIP(r), RecordFailure(b) \/ ResetFailures(b)
    PROVE  Burst'
<1>1. peak' \in Nat /\ peak <= peak' /\ Cardinality(Pending') <= peak' /\ HTTPMove /\ r \in Req
  BY DEF Watch, Pending
<1>2. ASSUME NEW a \in Addr PROVE PendingFrom(a)' = PendingFrom(a) \ {r}
  BY <1>1, Unchanging DEF PendingFrom, ClientIP
<1>3. Cardinality(PendingFrom(b)') = Cardinality(PendingFrom(b)) - 1
  <2>1. r \in PendingFrom(b)
    BY DEF PendingFrom
  <2>2. Cardinality(PendingFrom(b) \ {r}) = Cardinality(PendingFrom(b)) - 1
    BY <2>1, FromFinite, FS_RemoveElement
  <2> QED
    BY <1>1, <1>2, <2>2
<1>4. \A a \in Addr \ {b} : PendingFrom(a)' = PendingFrom(a) /\ entries'[a] = entries[a]
  <2>1. ASSUME NEW a \in Addr \ {b} PROVE PendingFrom(a)' = PendingFrom(a)
    <3>1. r \notin PendingFrom(a)
      BY DEF PendingFrom
    <3>2. PendingFrom(a)' = PendingFrom(a) \ {r}
      BY <1>2
    <3> QED
      BY <3>1, <3>2
  <2>2. \A a \in Addr \ {b} : entries'[a] = entries[a]
    BY DEF RecordFailure, ResetFailures, HTTPTyped
  <2> QED
    BY <2>1, <2>2
<1>5. ASSUME NEW a \in Addr, entries'[a] # NoEntry
      PROVE  /\ entries'[a].failures < MaxFailures + peak'
             /\ entries'[a].window = "open" =>
                    entries'[a].failures + Cardinality(PendingFrom(a)') < MaxFailures + peak'
             /\ entries'[a].lock = "on" => peak' > Threshold - MaxFailures
  <2>1. ASSUME entries[a] # NoEntry
        PROVE /\ entries[a] \in Entry /\ entries[a].failures \in Nat
              /\ entries[a].failures < MaxFailures + peak
              /\ entries[a].window = "open" =>
                     entries[a].failures + Cardinality(PendingFrom(a)) < MaxFailures + peak
              /\ entries[a].lock = "on" => peak > Threshold - MaxFailures
    BY <2>1 DEF Burst, HTTPTyped, Entry
  <2>2. peak \in Nat
    BY DEF Burst
  <2>3. CASE a # b
    <3>1. entries[a] # NoEntry /\ entries'[a] = entries[a] /\ PendingFrom(a)' = PendingFrom(a)
      BY <1>4, <1>5, <2>3
    <3>2. Cardinality(PendingFrom(a)) \in Nat
      BY FromFinite
    <3> QED
      BY <1>1, <2>1, <2>2, <3>1, <3>2
  <2>4. CASE a = b
    <3>1. entries'[a] = IF entries[a] = NoEntry \/ entries[a].window = "over" THEN NewWindow ELSE Failed(entries[a])
      BY <1>1, <1>5, <2>4 DEF RecordFailure, ResetFailures, HTTPTyped
    <3>2. Cardinality(PendingFrom(a)) \in Nat /\ Cardinality(PendingFrom(a)) <= peak
      BY <2>2, FromFinite, PendingFinite DEF Burst
    <3>3. Cardinality(PendingFrom(a)') = Cardinality(PendingFrom(a)) - 1 /\ Cardinality(PendingFrom(a)') \in Nat
      BY <1>3, <2>4, FromFinite
    <3>4. CASE entries[a] = NoEntry \/ entries[a].window = "over"
      <4>1. entries'[a].failures = 1 /\ entries'[a].lock = "none"
        BY <3>1, <3>4 DEF NewWindow
      <4>2. MaxFailures \in Nat /\ MaxFailures >= 1
        OBVIOUS
      <4>3. 1 < MaxFailures + peak' /\ 1 + Cardinality(PendingFrom(a)') < MaxFailures + peak'
        BY <1>1, <2>2, <3>2, <3>3, <4>2, FirstFailure
      <4> QED
        BY <4>1, <4>3
    <3>5. CASE ~(entries[a] = NoEntry \/ entries[a].window = "over")
      <4>1. entries[a] \in Entry /\ entries[a].window = "open" /\ entries[a].failures \in Nat
        BY <2>1, <3>5 DEF Entry
      <4>2. /\ entries'[a].failures = entries[a].failures + 1
            /\ entries'[a].lock = "on" => entries[a].lock = "on" \/ entries[a].failures + 1 >= Threshold
        BY <3>1, <3>5, <4>1, FailedEntry
      <4>3. entries[a].failures + Cardinality(PendingFrom(a)) < MaxFailures + peak
        BY <2>1, <3>5, <4>1
      <4>4. entries[a].lock = "on" => peak > Threshold - MaxFailures
        BY <2>1, <3>5
      <4> QED
        BY <1>1, <2>2, <3>2, <3>3, <4>1, <4>2, <4>3, <4>4
    <3> QED
      BY <3>4, <3>5
  <2> QED
    BY <2>3, <2>4
<1> QED
  BY <1>1, <1>5 DEF Burst

\* Time only takes entries away, ends windows and ends locks.
LEMMA BurstAges ==
    ASSUME HTTPTyped, Burst, Watch, Passing, UNCHANGED <<tunvars, reqvars>>
    PROVE  Burst'
<1>1. peak' \in Nat /\ peak <= peak' /\ Cardinality(Pending') <= peak' /\ HTTPMove
  BY DEF Watch
<1>2. \A a \in Addr : PendingFrom(a)' = PendingFrom(a)
  BY DEF PendingFrom, Pending, ClientIP, reqvars
<1>3. ASSUME NEW a \in Addr, entries'[a] # NoEntry
      PROVE  /\ entries[a] # NoEntry /\ entries'[a].failures = entries[a].failures
             /\ entries'[a].window = "open" => entries[a].window = "open"
             /\ entries'[a].lock = "on" => entries[a].lock = "on"
  <2> USE DEF HTTPTyped, Entry
  <2>1. CASE CleanupEntries
    BY <1>3, <2>1 DEF CleanupEntries
  <2>2. CASE UNCHANGED entries
    BY <1>3, <2>2
  <2>3. ASSUME NEW x \in Addr, WindowPasses(x)
        PROVE  /\ entries[a] # NoEntry /\ entries'[a].failures = entries[a].failures
               /\ entries'[a].window = "open" => entries[a].window = "open"
               /\ entries'[a].lock = "on" => entries[a].lock = "on"
    BY <1>3, <2>3 DEF WindowPasses
  <2>4. ASSUME NEW x \in Addr, LockPasses(x)
        PROVE  /\ entries[a] # NoEntry /\ entries'[a].failures = entries[a].failures
               /\ entries'[a].window = "open" => entries[a].window = "open"
               /\ entries'[a].lock = "on" => entries[a].lock = "on"
    BY <1>3, <2>4 DEF LockPasses
  <2> QED
    BY <2>1, <2>2, <2>3, <2>4 DEF Passing, CleanupSessions, SessionExpires
<1>4. ASSUME NEW a \in Addr, entries'[a] # NoEntry
      PROVE  /\ entries'[a].failures < MaxFailures + peak'
             /\ entries'[a].window = "open" =>
                    entries'[a].failures + Cardinality(PendingFrom(a)') < MaxFailures + peak'
             /\ entries'[a].lock = "on" => peak' > Threshold - MaxFailures
  <2>1. entries[a] \in Entry /\ entries[a].failures \in Nat
    BY <1>3, <1>4 DEF HTTPTyped, Entry
  <2>2. /\ entries[a].failures < MaxFailures + peak
        /\ entries[a].window = "open" =>
               entries[a].failures + Cardinality(PendingFrom(a)) < MaxFailures + peak
        /\ entries[a].lock = "on" => peak > Threshold - MaxFailures
        /\ peak \in Nat
    BY <1>3, <1>4 DEF Burst
  <2> QED
    BY <1>1, <1>2, <1>3, <1>4, <2>1, <2>2, FromFinite
<1> QED
  BY <1>1, <1>4 DEF Burst

LEMMA NextBurst == HTTPTyped /\ Burst /\ Watch => Burst'
<1> SUFFICES ASSUME HTTPTyped, Burst, Watch PROVE Burst'
  OBVIOUS
<1> USE DEF Goes, Rest, tunvars, reqvars, authvars, Exchanging, Before, Final
<1> USE DEF HTTPTyped
<1>1. ASSUME Configure PROVE Burst'
  <2>1. UNCHANGED entries /\ Pending' \subseteq Pending
    BY <1>1 DEF Configure, Pending
  <2> QED
    BY <2>1, BurstKept
<1>2. ASSUME SessionEnds PROVE Burst'
  <2>1. UNCHANGED entries /\ Pending' \subseteq Pending
    BY <1>2 DEF SessionEnds, Pending
  <2> QED
    BY <2>1, BurstKept
<1>3. ASSUME TunnelLeaves PROVE Burst'
  <2>1. UNCHANGED entries /\ Pending' \subseteq Pending
    BY <1>3 DEF TunnelLeaves, Pending
  <2> QED
    BY <2>1, BurstKept
<1>4. ASSUME NEW r \in Req, Lookup(r) PROVE Burst'
  <2>1. UNCHANGED entries /\ Pending' \subseteq Pending
    BY <1>4 DEF Lookup, Pending
  <2> QED
    BY <2>1, BurstKept
<1>5. ASSUME NEW r \in Req, CheckClosed(r) PROVE Burst'
  <2>1. UNCHANGED entries /\ Pending' \subseteq Pending
    BY <1>5 DEF CheckClosed, Pending
  <2> QED
    BY <2>1, BurstKept
<1>6. ASSUME NEW r \in Req, CheckRules(r) PROVE Burst'
  <2>1. UNCHANGED entries /\ Pending' \subseteq Pending
    BY <1>6 DEF CheckRules, Pending
  <2> QED
    BY <2>1, BurstKept
<1>7. ASSUME NEW r \in Req, CheckAuth(r) PROVE Burst'
  <2>1. UNCHANGED entries /\ Pending' \subseteq Pending \cup {r}
    BY <1>7 DEF CheckAuth, Pending
  <2>2. CASE IsRateLimited(ClientIP(r))
    <3>1. Pending' \subseteq Pending
      BY <1>7, <2>2 DEF CheckAuth, Pending
    <3> QED
      BY <2>1, <3>1, BurstKept
  <2>3. CASE ~IsRateLimited(ClientIP(r))
    BY <2>1, <2>3, BurstJoins
  <2> QED
    BY <2>2, <2>3
<1>8. ASSUME NEW r \in Req, Bearer(r) PROVE Burst'
  <2>1. r \in Pending /\ Pending' = Pending \ {r}
    BY <1>8 DEF Bearer, Pending, RecordFailure
  <2>2. PICK b \in Addr : b = ClientIP(r)
    BY ClientInAddr
  <2>3. RecordFailure(b) \/ ResetFailures(b)
    BY <1>8, <2>2 DEF Bearer
  <2> QED
    BY <2>1, <2>2, <2>3, BurstCounts
<1>9. ASSUME NEW r \in Req, Cookie(r) PROVE Burst'
  <2>1. UNCHANGED entries /\ Pending' \subseteq Pending
    BY <1>9 DEF Cookie, Pending
  <2> QED
    BY <2>1, BurstKept
<1>10. ASSUME NEW r \in Req, Login(r) PROVE Burst'
  <2>1. UNCHANGED entries /\ Pending' \subseteq Pending
    BY <1>10 DEF Login, Pending
  <2> QED
    BY <2>1, BurstKept
<1>11. ASSUME NEW r \in Req, Password(r) PROVE Burst'
  <2>1. r \in Pending /\ Pending' = Pending \ {r}
    BY <1>11 DEF Password, Pending, RecordFailure
  <2>2. PICK b \in Addr : b = ClientIP(r)
    BY ClientInAddr
  <2>3. RecordFailure(b) \/ ResetFailures(b)
    BY <1>11, <2>2 DEF Password
  <2> QED
    BY <2>1, <2>2, <2>3, BurstCounts
<1>12. ASSUME NEW r \in Req, RefuseKind(r) PROVE Burst'
  <2>1. UNCHANGED entries /\ Pending' \subseteq Pending
    BY <1>12 DEF RefuseKind, Pending
  <2> QED
    BY <2>1, BurstKept
<1>13. ASSUME NEW r \in Req, StartOpen(r) PROVE Burst'
  <2>1. UNCHANGED entries /\ Pending' \subseteq Pending
    BY <1>13 DEF StartOpen, Pending
  <2> QED
    BY <2>1, BurstKept
<1>14. ASSUME NEW r \in Req, Opened(r) PROVE Burst'
  <2>1. UNCHANGED entries /\ Pending' \subseteq Pending
    BY <1>14 DEF Opened, Pending
  <2> QED
    BY <2>1, BurstKept
<1>15. ASSUME NEW r \in Req, CloseLate(r) PROVE Burst'
  <2>1. UNCHANGED entries /\ Pending' \subseteq Pending
    BY <1>15 DEF CloseLate, Pending
  <2> QED
    BY <2>1, BurstKept
<1>16. ASSUME NEW r \in Req, StreamFails(r) PROVE Burst'
  <2>1. UNCHANGED entries /\ Pending' \subseteq Pending
    BY <1>16 DEF StreamFails, Finish, Pending
  <2> QED
    BY <2>1, BurstKept
<1>17. ASSUME NEW r \in Req, ContextDone(r) PROVE Burst'
  <2>1. UNCHANGED entries /\ Pending' \subseteq Pending
    BY <1>17 DEF ContextDone, Pending
  <2> QED
    BY <2>1, BurstKept
<1>18. ASSUME NEW r \in Req, Opens(r) PROVE Burst'
  <2>1. UNCHANGED entries /\ Pending' \subseteq Pending
    BY <1>18 DEF Opens, Pending
  <2> QED
    BY <2>1, BurstKept
<1>19. ASSUME NEW r \in Req, OpenFails(r) PROVE Burst'
  <2>1. UNCHANGED entries /\ Pending' \subseteq Pending
    BY <1>19 DEF OpenFails, Pending
  <2> QED
    BY <2>1, BurstKept
<1>20. ASSUME NEW r \in Req, OpenTimesOut(r) PROVE Burst'
  <2>1. UNCHANGED entries /\ Pending' \subseteq Pending
    BY <1>20 DEF OpenTimesOut, Pending
  <2> QED
    BY <2>1, BurstKept
<1>21. ASSUME NEW r \in Req, HijackFails(r) PROVE Burst'
  <2>1. UNCHANGED entries /\ Pending' \subseteq Pending
    BY <1>21 DEF HijackFails, Finish, Pending
  <2> QED
    BY <2>1, BurstKept
<1>22. ASSUME NEW r \in Req, Forward(r) PROVE Burst'
  <2>1. UNCHANGED entries /\ Pending' \subseteq Pending
    BY <1>22 DEF Forward, Pending
  <2> QED
    BY <2>1, BurstKept
<1>23. ASSUME NEW r \in Req, ForwardFails(r) PROVE Burst'
  <2>1. UNCHANGED entries /\ Pending' \subseteq Pending
    BY <1>23 DEF ForwardFails, Finish, Pending
  <2> QED
    BY <2>1, BurstKept
<1>24. ASSUME NEW r \in Req, Answered(r) PROVE Burst'
  <2>1. UNCHANGED entries /\ Pending' \subseteq Pending
    BY <1>24 DEF Answered, Pending
  <2> QED
    BY <2>1, BurstKept
<1>25. ASSUME NEW r \in Req, AnsweredEmpty(r) PROVE Burst'
  <2>1. UNCHANGED entries /\ Pending' \subseteq Pending
    BY <1>25 DEF AnsweredEmpty, Finish, Pending
  <2> QED
    BY <2>1, BurstKept
<1>26. ASSUME NEW r \in Req, AnswerFails(r) PROVE Burst'
  <2>1. UNCHANGED entries /\ Pending' \subseteq Pending
    BY <1>26 DEF AnswerFails, Finish, Pending
  <2> QED
    BY <2>1, BurstKept
<1>27. ASSUME NEW r \in Req, Completes(r) PROVE Burst'
  <2>1. UNCHANGED entries /\ Pending' \subseteq Pending
    BY <1>27 DEF Completes, Finish, Pending
  <2> QED
    BY <2>1, BurstKept
<1>28. ASSUME NEW r \in Req, ClientLeaves(r) PROVE Burst'
  <2>1. UNCHANGED entries /\ Pending' \subseteq Pending
    BY <1>28 DEF ClientLeaves, Pending
  <2> QED
    BY <2>1, BurstKept
<1>29. ASSUME Passing, UNCHANGED <<tunvars, reqvars>> PROVE Burst'
  BY <1>29, BurstAges
<1>30. ASSUME UNCHANGED httpvars PROVE Burst'
  <2>1. UNCHANGED entries /\ Pending' \subseteq Pending
    BY <1>30 DEF httpvars, Pending
  <2> QED
    BY <2>1, BurstKept
<1> QED
  BY <1>1, <1>2, <1>3, <1>4, <1>5, <1>6, <1>7, <1>8, <1>9, <1>10, <1>11, <1>12, <1>13,
     <1>14, <1>15, <1>16, <1>17, <1>18, <1>19, <1>20, <1>21, <1>22, <1>23, <1>24, <1>25,
     <1>26, <1>27, <1>28, <1>29, <1>30 DEF HTTPMove, HTTPStep, Serving, Deciding, Exchange, Watch

-----------------------------------------------------------------------------
(* How a lock ends.                                                        *)

\* Whoever may still be counted for a locked address was past the limit when
\* some lock was set last.
LockedPast == \A a \in Addr : Locked(a) => PendingFrom(a) \subseteq past

\* Nobody joins the requests of a locked address, and only they lift its lock.
LockHolds ==
    \A a \in Addr : Locked(a) =>
        /\ \A r \in Pending' : r \notin Pending => ClientIP(r) # a
        /\ \/ Locked(a)'
           \/ entries'[a] # NoEntry /\ entries'[a].lock = "over"
           \/ \E r \in PendingFrom(a) : r \notin Pending'

LEMMA LockKept ==
    ASSUME UNCHANGED entries, Pending' \subseteq Pending
    PROVE  LockHolds
BY DEF LockHolds, Locked

LEMMA LockLifted ==
    ASSUME HTTPTyped, NEW r \in Pending, Pending' = Pending \ {r}, NEW b \in Addr, b = ClientIP(r),
           RecordFailure(b) \/ ResetFailures(b)
    PROVE  LockHolds
<1>1. \A a \in Addr \ {b} : entries'[a] = entries[a]
  BY DEF RecordFailure, ResetFailures, HTTPTyped
<1>2. r \in PendingFrom(b) /\ r \notin Pending'
  BY DEF PendingFrom
<1>3. \A a \in Addr \ {b} : Locked(a) => Locked(a)'
  BY <1>1 DEF Locked
<1> QED
  BY <1>2, <1>3 DEF LockHolds

LEMMA StepLocks == HTTPTyped /\ HTTPMove => LockHolds
<1> SUFFICES ASSUME HTTPTyped, HTTPMove PROVE LockHolds
  OBVIOUS
<1> USE DEF Goes, Rest, tunvars, reqvars, authvars, Exchanging, HTTPTyped, Before, Final, Entry
<1>1. ASSUME Configure PROVE LockHolds
  <2>1. UNCHANGED entries /\ Pending' \subseteq Pending
    BY <1>1 DEF Configure, Pending
  <2> QED
    BY <2>1, LockKept
<1>2. ASSUME SessionEnds PROVE LockHolds
  <2>1. UNCHANGED entries /\ Pending' \subseteq Pending
    BY <1>2 DEF SessionEnds, Pending
  <2> QED
    BY <2>1, LockKept
<1>3. ASSUME TunnelLeaves PROVE LockHolds
  <2>1. UNCHANGED entries /\ Pending' \subseteq Pending
    BY <1>3 DEF TunnelLeaves, Pending
  <2> QED
    BY <2>1, LockKept
<1>4. ASSUME NEW r \in Req, Lookup(r) PROVE LockHolds
  <2>1. UNCHANGED entries /\ Pending' \subseteq Pending
    BY <1>4 DEF Lookup, Pending
  <2> QED
    BY <2>1, LockKept
<1>5. ASSUME NEW r \in Req, CheckClosed(r) PROVE LockHolds
  <2>1. UNCHANGED entries /\ Pending' \subseteq Pending
    BY <1>5 DEF CheckClosed, Pending
  <2> QED
    BY <2>1, LockKept
<1>6. ASSUME NEW r \in Req, CheckRules(r) PROVE LockHolds
  <2>1. UNCHANGED entries /\ Pending' \subseteq Pending
    BY <1>6 DEF CheckRules, Pending
  <2> QED
    BY <2>1, LockKept
<1>7. ASSUME NEW r \in Req, CheckAuth(r) PROVE LockHolds
  <2>1. UNCHANGED entries /\ Pending' \subseteq Pending \cup {r}
    BY <1>7 DEF CheckAuth, Pending
  <2>2. r \in Pending' => r \in Pending \/ ~IsRateLimited(ClientIP(r))
    BY <1>7 DEF CheckAuth, Pending
  <2>3. ~IsRateLimited(ClientIP(r)) => ~Locked(ClientIP(r))
    BY DEF IsRateLimited, Locked
  <2> QED
    BY <2>1, <2>2, <2>3 DEF LockHolds, Locked
<1>8. ASSUME NEW r \in Req, Bearer(r) PROVE LockHolds
  <2>1. r \in Pending /\ Pending' = Pending \ {r}
    BY <1>8 DEF Bearer, Pending, RecordFailure
  <2>2. PICK b \in Addr : b = ClientIP(r)
    BY ClientInAddr
  <2>3. RecordFailure(b) \/ ResetFailures(b)
    BY <1>8, <2>2 DEF Bearer
  <2> QED
    BY <2>1, <2>2, <2>3, LockLifted
<1>9. ASSUME NEW r \in Req, Cookie(r) PROVE LockHolds
  <2>1. UNCHANGED entries /\ Pending' \subseteq Pending
    BY <1>9 DEF Cookie, Pending
  <2> QED
    BY <2>1, LockKept
<1>10. ASSUME NEW r \in Req, Login(r) PROVE LockHolds
  <2>1. UNCHANGED entries /\ Pending' \subseteq Pending
    BY <1>10 DEF Login, Pending
  <2> QED
    BY <2>1, LockKept
<1>11. ASSUME NEW r \in Req, Password(r) PROVE LockHolds
  <2>1. r \in Pending /\ Pending' = Pending \ {r}
    BY <1>11 DEF Password, Pending, RecordFailure
  <2>2. PICK b \in Addr : b = ClientIP(r)
    BY ClientInAddr
  <2>3. RecordFailure(b) \/ ResetFailures(b)
    BY <1>11, <2>2 DEF Password
  <2> QED
    BY <2>1, <2>2, <2>3, LockLifted
<1>12. ASSUME NEW r \in Req, RefuseKind(r) PROVE LockHolds
  <2>1. UNCHANGED entries /\ Pending' \subseteq Pending
    BY <1>12 DEF RefuseKind, Pending
  <2> QED
    BY <2>1, LockKept
<1>13. ASSUME NEW r \in Req, StartOpen(r) PROVE LockHolds
  <2>1. UNCHANGED entries /\ Pending' \subseteq Pending
    BY <1>13 DEF StartOpen, Pending
  <2> QED
    BY <2>1, LockKept
<1>14. ASSUME NEW r \in Req, Opened(r) PROVE LockHolds
  <2>1. UNCHANGED entries /\ Pending' \subseteq Pending
    BY <1>14 DEF Opened, Pending
  <2> QED
    BY <2>1, LockKept
<1>15. ASSUME NEW r \in Req, CloseLate(r) PROVE LockHolds
  <2>1. UNCHANGED entries /\ Pending' \subseteq Pending
    BY <1>15 DEF CloseLate, Pending
  <2> QED
    BY <2>1, LockKept
<1>16. ASSUME NEW r \in Req, StreamFails(r) PROVE LockHolds
  <2>1. UNCHANGED entries /\ Pending' \subseteq Pending
    BY <1>16 DEF StreamFails, Finish, Pending
  <2> QED
    BY <2>1, LockKept
<1>17. ASSUME NEW r \in Req, ContextDone(r) PROVE LockHolds
  <2>1. UNCHANGED entries /\ Pending' \subseteq Pending
    BY <1>17 DEF ContextDone, Pending
  <2> QED
    BY <2>1, LockKept
<1>18. ASSUME NEW r \in Req, Opens(r) PROVE LockHolds
  <2>1. UNCHANGED entries /\ Pending' \subseteq Pending
    BY <1>18 DEF Opens, Pending
  <2> QED
    BY <2>1, LockKept
<1>19. ASSUME NEW r \in Req, OpenFails(r) PROVE LockHolds
  <2>1. UNCHANGED entries /\ Pending' \subseteq Pending
    BY <1>19 DEF OpenFails, Pending
  <2> QED
    BY <2>1, LockKept
<1>20. ASSUME NEW r \in Req, OpenTimesOut(r) PROVE LockHolds
  <2>1. UNCHANGED entries /\ Pending' \subseteq Pending
    BY <1>20 DEF OpenTimesOut, Pending
  <2> QED
    BY <2>1, LockKept
<1>21. ASSUME NEW r \in Req, HijackFails(r) PROVE LockHolds
  <2>1. UNCHANGED entries /\ Pending' \subseteq Pending
    BY <1>21 DEF HijackFails, Finish, Pending
  <2> QED
    BY <2>1, LockKept
<1>22. ASSUME NEW r \in Req, Forward(r) PROVE LockHolds
  <2>1. UNCHANGED entries /\ Pending' \subseteq Pending
    BY <1>22 DEF Forward, Pending
  <2> QED
    BY <2>1, LockKept
<1>23. ASSUME NEW r \in Req, ForwardFails(r) PROVE LockHolds
  <2>1. UNCHANGED entries /\ Pending' \subseteq Pending
    BY <1>23 DEF ForwardFails, Finish, Pending
  <2> QED
    BY <2>1, LockKept
<1>24. ASSUME NEW r \in Req, Answered(r) PROVE LockHolds
  <2>1. UNCHANGED entries /\ Pending' \subseteq Pending
    BY <1>24 DEF Answered, Pending
  <2> QED
    BY <2>1, LockKept
<1>25. ASSUME NEW r \in Req, AnsweredEmpty(r) PROVE LockHolds
  <2>1. UNCHANGED entries /\ Pending' \subseteq Pending
    BY <1>25 DEF AnsweredEmpty, Finish, Pending
  <2> QED
    BY <2>1, LockKept
<1>26. ASSUME NEW r \in Req, AnswerFails(r) PROVE LockHolds
  <2>1. UNCHANGED entries /\ Pending' \subseteq Pending
    BY <1>26 DEF AnswerFails, Finish, Pending
  <2> QED
    BY <2>1, LockKept
<1>27. ASSUME NEW r \in Req, Completes(r) PROVE LockHolds
  <2>1. UNCHANGED entries /\ Pending' \subseteq Pending
    BY <1>27 DEF Completes, Finish, Pending
  <2> QED
    BY <2>1, LockKept
<1>28. ASSUME NEW r \in Req, ClientLeaves(r) PROVE LockHolds
  <2>1. UNCHANGED entries /\ Pending' \subseteq Pending
    BY <1>28 DEF ClientLeaves, Pending
  <2> QED
    BY <2>1, LockKept
<1>29. ASSUME Passing, UNCHANGED <<tunvars, reqvars>> PROVE LockHolds
  <2>1. Pending' = Pending
    BY <1>29 DEF Pending
  <2>2. ASSUME NEW a \in Addr, Locked(a)
        PROVE  Locked(a)' \/ (entries'[a] # NoEntry /\ entries'[a].lock = "over")
    <3> entries[a] \in Entry /\ entries[a] # NoEntry /\ DOMAIN entries = Addr
      BY <2>2 DEF Locked
    <3> HIDE DEF HTTPTyped
    <3>1. CASE CleanupEntries
      BY <2>2, <3>1 DEF CleanupEntries, Locked
    <3>2. CASE UNCHANGED entries
      BY <2>2, <3>2 DEF Locked
    <3>3. ASSUME NEW x \in Addr, WindowPasses(x)
          PROVE  Locked(a)' \/ (entries'[a] # NoEntry /\ entries'[a].lock = "over")
      <4>1. entries'[a] = IF a = x THEN [entries[a] EXCEPT !.window = "over"] ELSE entries[a]
        BY <3>3 DEF WindowPasses
      <4> QED
        BY <2>2, <3>3, <4>1 DEF WindowPasses, Locked
    <3>4. ASSUME NEW x \in Addr, LockPasses(x)
          PROVE  Locked(a)' \/ (entries'[a] # NoEntry /\ entries'[a].lock = "over")
      <4>1. entries'[a] = IF a = x THEN [entries[a] EXCEPT !.lock = "over"] ELSE entries[a]
        BY <3>4 DEF LockPasses
      <4> QED
        BY <2>2, <3>4, <4>1 DEF LockPasses, Locked
    <3> QED
      BY <1>29, <3>1, <3>2, <3>3, <3>4 DEF Passing, CleanupSessions, SessionExpires
  <2> QED
    BY <2>1, <2>2 DEF LockHolds
<1>30. ASSUME UNCHANGED httpvars PROVE LockHolds
  <2>1. UNCHANGED entries /\ Pending' \subseteq Pending
    BY <1>30 DEF httpvars, Pending
  <2> QED
    BY <2>1, LockKept
<1> QED
  BY <1>1, <1>2, <1>3, <1>4, <1>5, <1>6, <1>7, <1>8, <1>9, <1>10, <1>11, <1>12, <1>13,
     <1>14, <1>15, <1>16, <1>17, <1>18, <1>19, <1>20, <1>21, <1>22, <1>23, <1>24, <1>25,
     <1>26, <1>27, <1>28, <1>29, <1>30 DEF HTTPMove, HTTPStep, Serving, Deciding, Exchange

LEMMA NextLockedPast == HTTPTyped /\ LockedPast /\ Watch => LockedPast'
<1> SUFFICES ASSUME HTTPTyped, LockedPast, Watch, NEW a \in Addr, Locked(a)' PROVE PendingFrom(a)' \subseteq past'
  BY DEF LockedPast
<1>1. PendingFrom(a)' \subseteq Pending'
  BY DEF PendingFrom
<1>2. past' = IF \E b \in Addr : Locked(b)' /\ ~Locked(b) THEN Pending' ELSE past
  BY DEF Watch
<1>3. CASE Locked(a)
  <2>1. \A r \in Pending' : r \notin Pending => ClientIP(r) # a
    BY <1>3, StepLocks DEF Watch, LockHolds
  <2>2. PendingFrom(a)' \subseteq PendingFrom(a)
    BY <2>1, Unchanging DEF PendingFrom, ClientIP, Watch
  <2> QED
    BY <1>1, <1>2, <1>3, <2>2 DEF LockedPast
<1>4. CASE ~Locked(a)
  BY <1>1, <1>2, <1>4
<1> QED
  BY <1>3, <1>4

-----------------------------------------------------------------------------
(* The hand-off of connections                                             *)

\* A step of the hand-off.  MCHttp remembers who was on the way into the queue
\* when it was drained.
HandMove ==
    /\ HandOffStep \/ UNCHANGED handvars
    /\ racers' = IF drained' /\ ~drained THEN {c \in Http : hand[c] = "send"} ELSE racers

HandTyped ==
    /\ hand \in [Http -> {"none", "check", "send", "mark", "close", "leave", "done"}]
    /\ http \in [Http -> {"no", "serving", "over"}]
    /\ queue \subseteq Http /\ handedOff \subseteq Http

\* What went into the queue stays the server's.
Went(c) == c \in queue \/ http[c] # "no"

\* Between the queue and the mark a connection has two owners, and only Stop
\* uses that.
HandedOn ==
    \A c \in Http :
        /\ Went(c) => hand[c] = "mark" \/ (hand[c] \in {"close", "leave", "done"} /\ c \in handedOff)
        /\ c \in cut /\ (Went(c) \/ hand[c] \in {"none", "check", "send", "mark"})
               => hstop # "no" /\ c \in onced

\* Whoever is marked went; whoever leaves the table unmarked is closed; nobody
\* joins a drained queue but those who looked at its flag before.
HandedOver ==
    /\ \A c \in Http :
        /\ hand[c] = "mark" \/ c \in handedOff => Went(c)
        /\ hand[c] = "done" /\ c \notin cut => c \in handedOff
    /\ drained => qclosed /\ queue \subseteq racers /\ {c \in Http : hand[c] = "send"} \subseteq racers

LEMMA InitHand == HandInit => HandTyped /\ HandedOn /\ HandedOver
BY DEF HandInit, HandTyped, HandedOn, HandedOver, Went

LEMMA NextHandTyped == HandTyped /\ HandMove => HandTyped'
<1> SUFFICES ASSUME HandTyped, HandMove PROVE HandTyped'
  OBVIOUS
<1> USE DEF HTo, HandTyped
<1>1. ASSUME ServeReturns PROVE HandTyped'
  BY <1>1 DEF ServeReturns
<1>2. ASSUME StopShutdown PROVE HandTyped'
  BY <1>2 DEF StopShutdown
<1>3. ASSUME QueueDrain PROVE HandTyped'
  BY <1>3 DEF QueueDrain
<1>4. ASSUME StopSwept PROVE HandTyped'
  BY <1>4 DEF StopSwept
<1>5. ASSUME NEW c \in Http, Handle(c) PROVE HandTyped'
  BY <1>5 DEF Handle
<1>6. ASSUME NEW c \in Http, EnqueueCheck(c) PROVE HandTyped'
  BY <1>6 DEF EnqueueCheck
<1>7. ASSUME NEW c \in Http, EnqueueSend(c) PROVE HandTyped'
  BY <1>7 DEF EnqueueSend
<1>8. ASSUME NEW c \in Http, MarkHandedOff(c) PROVE HandTyped'
  BY <1>8 DEF MarkHandedOff
<1>9. ASSUME NEW c \in Http, HandleReturns(c) PROVE HandTyped'
  BY <1>9 DEF HandleReturns, CloseConn
<1>10. ASSUME NEW c \in Http, Leave(c) PROVE HandTyped'
  BY <1>10 DEF Leave
<1>11. ASSUME NEW c \in Http, ServerAccepts(c) PROVE HandTyped'
  BY <1>11 DEF ServerAccepts
<1>12. ASSUME NEW c \in Http, ServerCloses(c) PROVE HandTyped'
  BY <1>12 DEF ServerCloses
<1>13. ASSUME NEW c \in Http, StopCloses(c) PROVE HandTyped'
  BY <1>13 DEF StopCloses, CloseConn
<1>14. ASSUME UNCHANGED handvars PROVE HandTyped'
  BY <1>14 DEF handvars
<1> QED
  BY <1>1, <1>2, <1>3, <1>4, <1>5, <1>6, <1>7, <1>8, <1>9, <1>10, <1>11, <1>12, <1>13,
     <1>14 DEF HandMove, HandOffStep

LEMMA NextHandedOn == HandTyped /\ HandedOn /\ HandMove => HandedOn'
<1> SUFFICES ASSUME HandTyped, HandedOn, HandMove PROVE HandedOn'
  OBVIOUS
<1> USE DEF HTo, HandTyped, HandedOn, Went
<1>1. ASSUME ServeReturns PROVE HandedOn'
  BY <1>1 DEF ServeReturns
<1>2. ASSUME StopShutdown PROVE HandedOn'
  BY <1>2 DEF StopShutdown
<1>3. ASSUME QueueDrain PROVE HandedOn'
  BY <1>3 DEF QueueDrain
<1>4. ASSUME StopSwept PROVE HandedOn'
  BY <1>4 DEF StopSwept
<1>5. ASSUME NEW c \in Http, Handle(c) PROVE HandedOn'
  BY <1>5 DEF Handle
<1>6. ASSUME NEW c \in Http, EnqueueCheck(c) PROVE HandedOn'
  BY <1>6 DEF EnqueueCheck
<1>7. ASSUME NEW c \in Http, EnqueueSend(c) PROVE HandedOn'
  BY <1>7 DEF EnqueueSend
<1>8. ASSUME NEW c \in Http, MarkHandedOff(c) PROVE HandedOn'
  BY <1>8 DEF MarkHandedOff
<1>9. ASSUME NEW c \in Http, HandleReturns(c) PROVE HandedOn'
  BY <1>9 DEF HandleReturns, CloseConn
<1>10. ASSUME NEW c \in Http, Leave(c) PROVE HandedOn'
  BY <1>10 DEF Leave
<1>11. ASSUME NEW c \in Http, ServerAccepts(c) PROVE HandedOn'
  BY <1>11 DEF ServerAccepts
<1>12. ASSUME NEW c \in Http, ServerCloses(c) PROVE HandedOn'
  BY <1>12 DEF ServerCloses
<1>13. ASSUME NEW c \in Http, StopCloses(c) PROVE HandedOn'
  BY <1>13 DEF StopCloses, CloseConn
<1>14. ASSUME UNCHANGED handvars PROVE HandedOn'
  BY <1>14 DEF handvars
<1> QED
  BY <1>1, <1>2, <1>3, <1>4, <1>5, <1>6, <1>7, <1>8, <1>9, <1>10, <1>11, <1>12, <1>13,
     <1>14 DEF HandMove, HandOffStep

LEMMA NextHandedOver == HandTyped /\ HandedOver /\ HandMove => HandedOver'
<1> SUFFICES ASSUME HandTyped, HandedOver, HandMove PROVE HandedOver'
  OBVIOUS
<1> USE DEF HTo, HandTyped, HandedOver, Went
<1>1. ASSUME ServeReturns PROVE HandedOver'
  BY <1>1 DEF HandMove, ServeReturns
<1>2. ASSUME StopShutdown PROVE HandedOver'
  BY <1>2 DEF HandMove, StopShutdown
<1>3. ASSUME QueueDrain PROVE HandedOver'
  BY <1>3 DEF HandMove, QueueDrain
<1>4. ASSUME StopSwept PROVE HandedOver'
  BY <1>4 DEF HandMove, StopSwept
<1>5. ASSUME NEW c \in Http, Handle(c) PROVE HandedOver'
  BY <1>5 DEF HandMove, Handle
<1>6. ASSUME NEW c \in Http, EnqueueCheck(c) PROVE HandedOver'
  BY <1>6 DEF HandMove, EnqueueCheck
<1>7. ASSUME NEW c \in Http, EnqueueSend(c) PROVE HandedOver'
  BY <1>7 DEF HandMove, EnqueueSend
<1>8. ASSUME NEW c \in Http, MarkHandedOff(c) PROVE HandedOver'
  BY <1>8 DEF HandMove, MarkHandedOff
<1>9. ASSUME NEW c \in Http, HandleReturns(c) PROVE HandedOver'
  BY <1>9 DEF HandMove, HandleReturns, CloseConn
<1>10. ASSUME NEW c \in Http, Leave(c) PROVE HandedOver'
  BY <1>10 DEF HandMove, Leave
<1>11. ASSUME NEW c \in Http, ServerAccepts(c) PROVE HandedOver'
  BY <1>11 DEF HandMove, ServerAccepts
<1>12. ASSUME NEW c \in Http, ServerCloses(c) PROVE HandedOver'
  BY <1>12 DEF HandMove, ServerCloses
<1>13. ASSUME NEW c \in Http, StopCloses(c) PROVE HandedOver'
  BY <1>13 DEF HandMove, StopCloses, CloseConn
<1>14. ASSUME UNCHANGED handvars PROVE HandedOver'
  BY <1>14 DEF HandMove, handvars
<1> QED
  BY <1>1, <1>2, <1>3, <1>4, <1>5, <1>6, <1>7, <1>8, <1>9, <1>10, <1>11, <1>12, <1>13,
     <1>14 DEF HandMove, HandOffStep

-----------------------------------------------------------------------------
(* The scenes of MCHttp are such steps.                                    *)

USE MCHttpAssumption

LEMMA Scenes == peak \in Nat /\ MCNext => Watch /\ HandMove
<1> SUFFICES ASSUME peak \in Nat, MCNext PROVE Watch /\ HandMove
  OBVIOUS
<1>1. HTTPMove
  BY DEF MCNext, HTTPMove, HTTPStep, Serving, Exchange, tunvars, reqvars, httpvars
<1>2. HandMove
  BY DEF MCNext, HandMove
<1>3. /\ early \subseteq early'
      /\ \A r \in Req :
        /\ at[r] = "rules" /\ at'[r] = "auth" /\ stage < 3 => r \in early'
        /\ at[r] = "auth" /\ at'[r] = "open" /\ stage < 4 => r \in early'
        /\ at[r] = "open" /\ at'[r] = "wait" /\ stage < 2 => r \in early'
  BY DEF MCNext
<1>4. past' = IF \E a \in Addr : Locked(a)' /\ ~Locked(a) THEN Pending' ELSE past
  BY DEF MCNext
<1>5. peak' \in Nat /\ peak <= peak' /\ Cardinality(Pending') <= peak'
  <2>1. peak' = Larger(peak, Cardinality(Pending'))
    BY DEF MCNext
  <2> QED
    BY <2>1, PendingFinite DEF Larger
<1> QED
  BY <1>1, <1>2, <1>3, <1>4, <1>5 DEF Watch

LEMMA SpecIsHTTPSpec == Spec => HTTPSpec
<1>1. MCInit => HTTPInit /\ peak \in Nat
  BY DEF MCInit
<1>2. peak \in Nat /\ [MCNext]_mcvars => [HTTPMove]_httpvars /\ (peak \in Nat)'
  BY Scenes DEF Watch, mcvars
<1> QED
  BY <1>1, <1>2, PTL DEF Spec, HTTPSpec

\* What a request has been let past.
Passed == HTTPTyped /\ RulesPassed /\ WayChosen /\ AuthPassed /\ TypePassed /\ LockedPast

LEMMA InitPassed == MCInit => Passed /\ Burst
<1> SUFFICES ASSUME MCInit PROVE Passed /\ Burst
  OBVIOUS
<1>1. HTTPTyped /\ at = [r \in Req |-> "new"] /\ peak = 0 /\ entries = [a \in Addr |-> NoEntry]
  BY InitHTTP DEF MCInit, HTTPInit, AuthInit
<1>2. Pending = {}
  BY <1>1 DEF Pending
<1>3. Cardinality({}) = 0
  BY FS_EmptySet
<1>4. Burst
  BY <1>1, <1>2, <1>3 DEF Burst
<1> QED
  BY <1>1, <1>4 DEF Passed, RulesPassed, WayChosen, AuthPassed, TypePassed, LockedPast, Locked,
                    InsideRules, InsideAuth, InsideType, Exchanging

LEMMA NextPassed == Passed /\ Burst /\ [MCNext]_mcvars => (Passed /\ Burst)'
<1> SUFFICES ASSUME Passed, Burst, [MCNext]_mcvars PROVE (Passed /\ Burst)'
  OBVIOUS
<1>1. CASE MCNext
  <2>1. Watch
    BY <1>1, Scenes DEF Burst
  <2>2. HTTPTyped' /\ RulesPassed' /\ WayChosen' /\ AuthPassed' /\ TypePassed' /\ LockedPast' /\ Burst'
    BY <2>1, NextLockedPast, NextHTTPTyped, NextRules, NextWay, NextAuth, NextType, NextBurst DEF Passed, Watch
  <2> QED
    BY <2>2 DEF Passed
<1>2. CASE UNCHANGED mcvars
  <2>1. UNCHANGED httpvars /\ UNCHANGED <<early, past, peak>>
    BY <1>2 DEF mcvars
  <2>2. HTTPTyped'
    BY <2>1, NextHTTPTyped DEF Passed, HTTPMove
  <2> USE <2>1 DEF httpvars, tunvars, reqvars, authvars, Passed
  <2>3. RulesPassed' /\ WayChosen'
    BY DEF RulesPassed, WayChosen, Deny, Allow, Parsed, ClientIP
  <2>4. AuthPassed' /\ TypePassed'
    BY DEF AuthPassed, TypePassed
  <2>5. Burst' /\ LockedPast'
    BY DEF Burst, LockedPast, Locked, PendingFrom, Pending, ClientIP
  <2> QED
    BY <2>2, <2>3, <2>4, <2>5
<1> QED
  BY <1>1, <1>2

\* Whoever is about to get a stream was let in by every rule of the tunnel,
\* that is by the address lists, the credential and the type, or looked before
\* the registration had set that rule: however requests, logins, expiring
\* sessions and a registration interleave (ServeHTTP in handler.go,
\* auth_handler.go).
THEOREM RulesAdmit == Spec => []AdmittedByRules
<1>1. Passed => AdmittedByRules
  BY DEF Passed, HTTPTyped, RulesPassed, AuthPassed, TypePassed, AdmittedByRules, InsideRules, InsideAuth,
         InsideType
<1> QED
  BY InitPassed, NextPassed, <1>1, PTL DEF Spec

\* An address is locked only when more requests than the difference of the
\* two limits were past the rate limit at a time, and its failures never
\* exceed the limit by more than such a burst (authLimiter, auth_handler.go).
THEOREM LocksNeedBursts == Spec => []LockNeedsBurst
<1>1. Burst => LockNeedsBurst
  BY DEF Burst, LockNeedsBurst, Locked
<1> QED
  BY InitPassed, NextPassed, <1>1, PTL DEF Spec

\* A lock ends by its time, or by a request that was past the rate limit when
\* it was set: neither the cleanup loop nor a new window nor a later request
\* lifts it.
THEOREM LocksLast == Spec => LockLasts
<1>1. Passed /\ Burst /\ [MCNext]_mcvars =>
          [\A a \in Addr : Locked(a) /\ ~Locked(a)' =>
              \/ entries'[a] # NoEntry /\ entries'[a].lock = "over"
              \/ \E r \in past : r \in Pending /\ r \notin Pending']_mcvars
  <2> SUFFICES ASSUME Passed, Burst, MCNext, NEW a \in Addr, Locked(a), ~Locked(a)'
               PROVE  \/ entries'[a] # NoEntry /\ entries'[a].lock = "over"
                      \/ \E r \in past : r \in Pending /\ r \notin Pending'
    OBVIOUS
  <2>1. LockHolds
    BY Scenes, StepLocks DEF Burst, Watch, Passed
  <2> QED
    BY <2>1 DEF LockHolds, LockedPast, Passed, PendingFrom
<1> QED
  BY InitPassed, NextPassed, <1>1, PTL DEF Spec, LockLasts

\* The same of the counter of connections, in the scenes of MCHttp.
THEOREM NothingIsLeft == Spec => []NothingLeft
BY SpecIsHTTPSpec, CountersReturn, PTL

LEMMA HandAlways == Spec => [](HandTyped /\ HandedOn /\ HandedOver)
<1> DEFINE Hand == HandTyped /\ HandedOn /\ HandedOver
<1>1. MCInit => Hand /\ peak \in Nat
  BY InitHand DEF MCInit
<1>2. Hand /\ peak \in Nat /\ [MCNext]_mcvars => (Hand /\ peak \in Nat)'
  <2> SUFFICES ASSUME Hand, peak \in Nat, [MCNext]_mcvars PROVE (Hand /\ peak \in Nat)'
    OBVIOUS
  <2>1. CASE MCNext
    BY <2>1, Scenes, NextHandTyped, NextHandedOn, NextHandedOver DEF Watch
  <2>2. CASE UNCHANGED mcvars
    BY <2>2 DEF mcvars, handvars, HandTyped, HandedOn, HandedOver, Went
  <2> QED
    BY <2>1, <2>2
<1> QED
  BY <1>1, <1>2, PTL DEF Spec

\* Only Stop takes a connection away from the HTTP server, and only one that
\* it found between the queue and the mark (Enqueue and MarkHandedOff in
\* http_request_handler.go).
THEOREM OnlyStopCuts == Spec => []ServedIsOpen
<1>1. HandedOn => ServedIsOpen
  BY DEF HandedOn, ServedIsOpen, Went
<1> QED
  BY HandAlways, <1>1, PTL

\* A connection whose handler is gone is closed, or the HTTP server's; one
\* left in the drained queue was past the flag when drain ran
\* (http_conn_listener.go).
THEOREM NobodyIsForgotten == Spec => []NobodyForgets
<1>1. HandedOver => NobodyForgets
  BY DEF HandedOver, NobodyForgets, Went
<1> QED
  BY HandAlways, <1>1, PTL

=============================================================================
