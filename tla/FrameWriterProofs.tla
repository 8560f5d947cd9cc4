-------------------------- MODULE FrameWriterProofs --------------------------
(***************************************************************************)
(* Theorems about FrameWriter, alone under every interleaving of its own   *)
(* actions and in the scenes of MCQueues, for every set of frames and      *)
(* every capacity, size of a batch and number of toggles.                  *)
(***************************************************************************)
EXTENDS MCQueues, SequenceTheorems, FiniteSetTheorems, FunctionTheorems, TLAPS

USE FrameWriterAssumption

-----------------------------------------------------------------------------
(* Counting an element of a sequence                                       *)

Count(s, e) == Cardinality({i \in DOMAIN s : s[i] = e})

\* The count is a natural number.
LEMMA CountNat ==
    ASSUME NEW S, NEW s \in Seq(S), NEW e
    PROVE  Count(s, e) \in Nat /\ IsFiniteSet({i \in DOMAIN s : s[i] = e})
<1>1. DOMAIN s = 1..Len(s) /\ Len(s) \in Nat
  BY LenProperties
<1>2. IsFiniteSet(1..Len(s))
  BY <1>1, FS_Interval
<1>3. {i \in DOMAIN s : s[i] = e} \in SUBSET (1..Len(s))
  BY <1>1
<1>4. IsFiniteSet({i \in DOMAIN s : s[i] = e})
  BY <1>2, <1>3, FS_Subset
<1> QED
  BY <1>4, FS_CardinalityType DEF Count

\* It adds up over a concatenation.
LEMMA CountConcat ==
    ASSUME NEW S, NEW s \in Seq(S), NEW t \in Seq(S), NEW e
    PROVE  Count(s \o t, e) = Count(s, e) + Count(t, e)
<1> DEFINE A == {i \in DOMAIN s : s[i] = e}
           B == {i \in DOMAIN t : t[i] = e}
           C == {i \in DOMAIN (s \o t) : (s \o t)[i] = e}
           n == Len(s)
           D == {i \in (n + 1)..(n + Len(t)) : t[i - n] = e}
           shift == [i \in B |-> i + n]
<1>1. /\ n \in Nat /\ Len(t) \in Nat /\ DOMAIN s = 1..n /\ DOMAIN t = 1..Len(t)
      /\ DOMAIN (s \o t) = 1..(n + Len(t))
      /\ \A i \in 1..(n + Len(t)) : (s \o t)[i] = IF i <= n THEN s[i] ELSE t[i - n]
  <2>1. s \o t \in Seq(S) /\ Len(s \o t) = Len(s) + Len(t)
    BY ConcatProperties
  <2>2. DOMAIN (s \o t) = 1..Len(s \o t)
    BY <2>1, LenProperties
  <2> QED
    BY <2>1, <2>2, ConcatProperties, LenProperties
<1>2. IsFiniteSet(A) /\ IsFiniteSet(B)
  BY CountNat
<1>3. C = A \cup D /\ A \cap D = {}
  <2>1. C \subseteq A \cup D
    BY <1>1
  <2>2. A \subseteq C /\ D \subseteq C
    BY <1>1
  <2>3. A \cap D = {}
    BY <1>1
  <2> QED
    BY <2>1, <2>2, <2>3
<1>4. shift \in Bijection(B, D)
  <2>1. \A i \in B : i + n \in D /\ i \in Nat
    BY <1>1
  <2>2. shift \in [B -> D]
    BY <2>1
  <2>3. \A i \in B, j \in B : shift[i] = shift[j] => i = j
    BY <1>1, <2>1
  <2>4. \A k \in D : \E i \in B : shift[i] = k
    <3> SUFFICES ASSUME NEW k \in D PROVE \E i \in B : shift[i] = k
      OBVIOUS
    <3>1. k - n \in B /\ shift[k - n] = k
      BY <1>1
    <3> QED
      BY <3>1
  <2>5. shift \in Injection(B, D)
    BY <2>2, <2>3, Fun_IsInj
  <2>6. shift \in Surjection(B, D)
    BY <2>2, <2>4, Fun_IsSurj
  <2> QED
    BY <2>5, <2>6, Fun_IsBij
<1>5. IsFiniteSet(D) /\ Cardinality(D) = Cardinality(B)
  <2>1. ExistsBijection(B, D)
    BY <1>4 DEF ExistsBijection
  <2> QED
    BY <1>2, <2>1, FS_Bijection
<1> HIDE DEF A, B, C, D
<1>6. Cardinality(C) = Cardinality(A) + Cardinality(D) - Cardinality({})
  <2>1. Cardinality(A \cup D) = Cardinality(A) + Cardinality(D) - Cardinality(A \cap D)
    BY <1>2, <1>5, FS_Union
  <2> QED
    BY <1>3, <2>1
<1>7. Cardinality({}) = 0
  BY FS_EmptySet
<1>8. Cardinality(A) \in Nat /\ Cardinality(B) \in Nat
  BY <1>2, FS_CardinalityType
<1>9. Cardinality(C) = Cardinality(A) + Cardinality(B)
  BY <1>5, <1>6, <1>7, <1>8
<1> QED
  BY <1>9 DEF Count, A, B, C

LEMMA CountEmpty ==
    ASSUME NEW e
    PROVE  Count(<<>>, e) = 0
<1>1. {i \in DOMAIN <<>> : <<>>[i] = e} = {}
  OBVIOUS
<1> QED
  BY <1>1, FS_EmptySet DEF Count

LEMMA CountOne ==
    ASSUME NEW d, NEW e
    PROVE  Count(<<d>>, e) = IF d = e THEN 1 ELSE 0
<1>1. {i \in DOMAIN <<d>> : <<d>>[i] = e} = IF d = e THEN {1} ELSE {}
  OBVIOUS
<1>2. Cardinality({1}) = 1 /\ Cardinality({}) = 0
  BY FS_Singleton, FS_EmptySet
<1> QED
  BY <1>1, <1>2 DEF Count

\* What Append, Head and Tail do to it.
LEMMA AppendIs ==
    ASSUME NEW S, NEW s \in Seq(S), NEW d \in S
    PROVE  Append(s, d) = s \o <<d>> /\ <<d>> \in Seq(S)
OBVIOUS

LEMMA HeadTailIs ==
    ASSUME NEW S, NEW s \in Seq(S), s # <<>>
    PROVE  s = <<Head(s)>> \o Tail(s) /\ Head(s) \in S /\ Tail(s) \in Seq(S) /\ <<Head(s)>> \in Seq(S)
OBVIOUS

LEMMA CountAppend ==
    ASSUME NEW S, NEW s \in Seq(S), NEW d \in S, NEW e
    PROVE  Count(Append(s, d), e) = Count(s, e) + (IF d = e THEN 1 ELSE 0)
<1>1. Append(s, d) = s \o <<d>> /\ <<d>> \in Seq(S)
  BY AppendIs
<1>2. Count(s \o <<d>>, e) = Count(s, e) + Count(<<d>>, e)
  BY <1>1, CountConcat
<1> QED
  BY <1>1, <1>2, CountOne

LEMMA CountTail ==
    ASSUME NEW S, NEW s \in Seq(S), s # <<>>, NEW e
    PROVE  /\ Count(Tail(s), e) \in Nat
           /\ Count(s, e) = Count(Tail(s), e) + (IF Head(s) = e THEN 1 ELSE 0)
<1>1. s = <<Head(s)>> \o Tail(s) /\ Tail(s) \in Seq(S) /\ <<Head(s)>> \in Seq(S)
  BY HeadTailIs
<1>2. Count(<<Head(s)>> \o Tail(s), e) = Count(<<Head(s)>>, e) + Count(Tail(s), e)
  BY <1>1, CountConcat
<1>3. Count(<<Head(s)>>, e) = IF Head(s) = e THEN 1 ELSE 0
  BY CountOne
<1>4. Count(Tail(s), e) \in Nat
  BY <1>1, CountNat
<1>5. Count(s, e) = Count(<<Head(s)>>, e) + Count(Tail(s), e)
  BY <1>1, <1>2
<1> QED
  BY <1>3, <1>4, <1>5

-----------------------------------------------------------------------------
(* The writer, under every interleaving of its actions                     *)

FWStep ==
    \/ LoopRuns \/ Tick \/ HeartbeatTick \/ WriteOk \/ WriteFails
    \/ CloseCheck \/ Closes \/ FlushCheck \/ Flushes \/ ToggleFlag \/ ToggleSignal
    \/ \E f \in Frame : CallCheck(f) \/ Calling(f)

FWSpec == FWInit /\ [][FWStep]_fwvars

\* Who holds the lock has the frames to write, and the loop a frame in hand
\* just while it waits for the lock.
FWTyped ==
    /\ call \in [Frame -> {"no", "send", "ok", "refused", "late", "panic"}]
    /\ dataq \in Seq(Data) /\ ctlq \in Seq(Control) /\ sent \in Seq(Data)
    /\ batch \in Seq(Data) /\ todo \in Seq(Frame \cup {Beat}) /\ wire \in Seq(Frame)
    /\ mu \in {"free", "loop", "flush"} /\ (mu = "free" => todo = <<>>)
    /\ (mu = "flush" <=> flush \in {"take", "write"}) /\ (flush = "take" => todo = <<>>)
    /\ (mu = "loop" <=> at \in {"write", "final"})
    /\ got \in Frame \cup {NoFrame}
    /\ (at = "data" => got \in Data) /\ (at = "control" => got \in Control)
    /\ (at \notin {"data", "control"} => got = NoFrame)
    /\ marked \subseteq Frame /\ released \in [Frame -> Nat] /\ raced \in BOOLEAN

\* The lock is taken when nothing is left to write.
LEMMA LockTakes ==
    ASSUME FWTyped, NEW frames, NEW rest, NEW next, LockWith(frames, rest, next)
    PROVE  /\ mu = "free" /\ todo' = frames /\ batch' = rest
           /\ \/ mu' = "free" /\ todo' = <<>> /\ at' = next
              \/ mu' = "loop" /\ at' = IF next = "ended" THEN "final" ELSE "write"
<1>1. CASE frames = <<>>
  BY <1>1 DEF FWTyped, LockWith, LoopTo
<1>2. CASE frames # <<>>
  BY <1>2 DEF FWTyped, LockWith, LoopTo
<1> QED
  BY <1>1, <1>2

LEMMA InitFWTyped == FWInit => FWTyped
<1> SUFFICES ASSUME FWInit PROVE FWTyped
  OBVIOUS
<1>1. <<>> \in Seq(Data) /\ <<>> \in Seq(Control) /\ <<>> \in Seq(Frame \cup {Beat}) /\ <<>> \in Seq(Frame)
  OBVIOUS
<1>2. /\ dataq \in Seq(Data) /\ ctlq \in Seq(Control) /\ sent \in Seq(Data)
      /\ batch \in Seq(Data) /\ todo \in Seq(Frame \cup {Beat}) /\ wire \in Seq(Frame)
  BY <1>1 DEF FWInit
<1>3. released \in [Frame -> Nat] /\ call \in [Frame -> {"no", "send", "ok", "refused", "late", "panic"}]
  BY DEF FWInit
<1>4. /\ todo = <<>> /\ mu = "free" /\ flush = "no" /\ at = "start" /\ got = NoFrame
      /\ marked = {} /\ raced = FALSE
  BY DEF FWInit
<1> QED
  BY <1>2, <1>3, <1>4 DEF FWTyped

LEMMA NextFWTyped == FWTyped /\ [FWStep]_fwvars => FWTyped'
<1> SUFFICES ASSUME FWTyped, [FWStep]_fwvars PROVE FWTyped'
  OBVIOUS
<1> USE DEF FWTyped, calls, queues, locked, ends, beating
<1>1. ASSUME LoopStart PROVE FWTyped'
  BY <1>1 DEF LoopStart, LoopTo
<1>2. ASSUME ControlFirst PROVE FWTyped'
  <2>1. CASE ctlq # <<>>
    <3>1. Head(ctlq) \in Control /\ Tail(ctlq) \in Seq(Control)
      BY <2>1, HeadTailIs
    <3> QED
      BY <1>2, <2>1, <3>1 DEF ControlFirst, LoopTo, Frame
  <2>2. CASE ctlq = <<>>
    BY <1>2, <2>2 DEF ControlFirst, LoopTo
  <2> QED
    BY <2>1, <2>2
<1>3. ASSUME TakeData PROVE FWTyped'
  <2>1. Head(dataq) \in Data /\ Tail(dataq) \in Seq(Data)
    BY <1>3, HeadTailIs DEF TakeData
  <2> QED
    BY <1>3, <2>1 DEF TakeData, LoopTo, Frame
<1>4. ASSUME LoopLeaves PROVE FWTyped'
  BY <1>4 DEF LoopLeaves, LoopTo
<1>5. ASSUME LoopLocks PROVE FWTyped'
  <2>1. CASE at = "data" /\ Full(Append(batch, got)) /\ LockWith(Append(batch, got), <<>>, "top")
    <3>1. Append(batch, got) \in Seq(Data)
      BY <2>1
    <3>2. Append(batch, got) \in Seq(Frame \cup {Beat})
      BY <3>1 DEF Frame
    <3>3. <<>> \in Seq(Data)
      OBVIOUS
    <3>7. /\ mu = "free" /\ todo' = Append(batch, got) /\ batch' = <<>>
         /\ \/ mu' = "free" /\ todo' = <<>> /\ at' = "top"
            \/ mu' = "loop" /\ at' = IF "top" = "ended" THEN "final" ELSE "write"
      BY <2>1, LockTakes
    <3>8. got' = NoFrame /\ UNCHANGED <<calls, queues, ends, beating, released, wire>>
      BY <1>5 DEF LoopLocks
    <3> QED
      BY <2>1, <3>2, <3>3, <3>7, <3>8
  <2>2. CASE at = "data" /\ LockWith(<<>>, Append(batch, got), "top")
    <3>1. Append(batch, got) \in Seq(Data) /\ <<>> \in Seq(Frame \cup {Beat})
      BY <2>2
    <3>7. /\ mu = "free" /\ todo' = <<>> /\ batch' = Append(batch, got)
         /\ \/ mu' = "free" /\ todo' = <<>> /\ at' = "top"
            \/ mu' = "loop" /\ at' = IF "top" = "ended" THEN "final" ELSE "write"
      BY <2>2, LockTakes
    <3>8. got' = NoFrame /\ UNCHANGED <<calls, queues, ends, beating, released, wire>>
      BY <1>5 DEF LoopLocks
    <3> QED
      BY <2>2, <3>1, <3>7, <3>8
  <2>3. CASE at = "control" /\ LockWith(<<got>>, batch, "top")
    <3>1. <<got>> \in Seq(Frame \cup {Beat})
      BY <2>3 DEF Frame
    <3>7. /\ mu = "free" /\ todo' = <<got>> /\ batch' = batch
         /\ \/ mu' = "free" /\ todo' = <<>> /\ at' = "top"
            \/ mu' = "loop" /\ at' = IF "top" = "ended" THEN "final" ELSE "write"
      BY <2>3, LockTakes
    <3>8. got' = NoFrame /\ UNCHANGED <<calls, queues, ends, beating, released, wire>>
      BY <1>5 DEF LoopLocks
    <3> QED
      BY <2>3, <3>1, <3>7, <3>8
  <2>4. CASE at = "last" /\ LockWith(batch, <<>>, "ended")
    <3>1. batch \in Seq(Frame \cup {Beat}) /\ <<>> \in Seq(Data)
      BY DEF Frame
    <3>7. /\ mu = "free" /\ todo' = batch /\ batch' = <<>>
         /\ \/ mu' = "free" /\ todo' = <<>> /\ at' = "ended"
            \/ mu' = "loop" /\ at' = IF "ended" = "ended" THEN "final" ELSE "write"
      BY <2>4, LockTakes
    <3>8. got' = NoFrame /\ UNCHANGED <<calls, queues, ends, beating, released, wire>>
      BY <1>5 DEF LoopLocks
    <3> QED
      BY <2>4, <3>1, <3>7, <3>8
  <2> QED
    BY <1>5, <2>1, <2>2, <2>3, <2>4 DEF LoopLocks
<1>6. ASSUME LoopUnlocks PROVE FWTyped'
  BY <1>6 DEF LoopUnlocks, LoopTo
<1>7. ASSUME TakeSignal PROVE FWTyped'
  BY <1>7 DEF TakeSignal, LoopTo
<1>8. ASSUME ApplySignal PROVE FWTyped'
  BY <1>8 DEF ApplySignal, LoopTo
<1>9. ASSUME Tick PROVE FWTyped'
  <2>1. batch \in Seq(Frame \cup {Beat}) /\ <<>> \in Seq(Data)
    BY DEF Frame
  <2>2. LockWith(batch, <<>>, "top") /\ at = "select"
    BY <1>9 DEF Tick
  <2> QED
    BY <1>9, <2>1, <2>2, LockTakes DEF Tick
<1>10. ASSUME HeartbeatTick PROVE FWTyped'
  <2>1. <<Beat>> \in Seq(Frame \cup {Beat})
    OBVIOUS
  <2>2. LockWith(<<Beat>>, batch, "top") /\ at = "select"
    BY <1>10 DEF HeartbeatTick
  <2>3. /\ mu = "free" /\ todo' = <<Beat>> /\ batch' = batch
        /\ \/ mu' = "free" /\ todo' = <<>> /\ at' = "top"
           \/ mu' = "loop" /\ at' = "write"
    BY <2>2, LockTakes
  <2>4. UNCHANGED <<calls, queues, got, ends, beating, released, wire>>
    BY <1>10 DEF HeartbeatTick
  <2> QED
    BY <2>1, <2>2, <2>3, <2>4
<1>11. ASSUME WriteOk PROVE FWTyped'
  <2>1. todo # <<>> /\ Head(todo) \in Frame \cup {Beat} /\ Tail(todo) \in Seq(Frame \cup {Beat})
    BY <1>11, HeadTailIs DEF WriteOk
  <2>2. mu # "free" /\ flush # "take"
    BY <2>1
  <2>3. wire' \in Seq(Frame)
    BY <1>11, <2>1 DEF WriteOk, Written
  <2>4. released' \in [Frame -> Nat] /\ marked' \subseteq Frame
    BY <1>11, <2>1 DEF WriteOk, Written, Unmark, Release
  <2> QED
    BY <1>11, <2>1, <2>2, <2>3, <2>4 DEF WriteOk, Written
<1>12. ASSUME WriteFails PROVE FWTyped'
  <2>1. todo # <<>> /\ Head(todo) \in Frame \cup {Beat} /\ Tail(todo) \in Seq(Frame \cup {Beat})
    BY <1>12, HeadTailIs DEF WriteFails
  <2>2. mu # "free" /\ flush # "take"
    BY <2>1
  <2>3. wire' \in Seq(Frame)
    BY <1>12, <2>1 DEF WriteFails, Written
  <2>4. released' \in [Frame -> Nat] /\ marked' \subseteq Frame
    BY <1>12, <2>1 DEF WriteFails, Written, Unmark, Release
  <2> QED
    BY <1>12, <2>1, <2>2, <2>3, <2>4 DEF WriteFails, Written
<1>13. ASSUME CloseCheck PROVE FWTyped'
  BY <1>13 DEF CloseCheck
<1>14. ASSUME CloseQueues PROVE FWTyped'
  BY <1>14 DEF CloseQueues
<1>15. ASSUME CloseDrains PROVE FWTyped'
  <2>1. CASE dataq # <<>> /\ dataq' = Tail(dataq) /\ Unmark(Head(dataq)) /\ Release(Head(dataq)) /\ UNCHANGED <<ctlq, wclose>>
    <3>1. Head(dataq) \in Frame /\ Tail(dataq) \in Seq(Data)
      BY <2>1, HeadTailIs DEF Frame
    <3>2. released' \in [Frame -> Nat] /\ marked' \subseteq Frame
      BY <2>1, <3>1 DEF Unmark, Release
    <3> QED
      BY <1>15, <2>1, <3>1, <3>2 DEF CloseDrains
  <2>2. CASE ctlq # <<>> /\ ctlq' = Tail(ctlq) /\ Unmark(Head(ctlq)) /\ Release(Head(ctlq)) /\ UNCHANGED <<dataq, wclose>>
    <3>1. Head(ctlq) \in Frame /\ Tail(ctlq) \in Seq(Control)
      BY <2>2, HeadTailIs DEF Frame
    <3>2. released' \in [Frame -> Nat] /\ marked' \subseteq Frame
      BY <2>2, <3>1 DEF Unmark, Release
    <3> QED
      BY <1>15, <2>2, <3>1, <3>2 DEF CloseDrains
  <2>3. CASE UNCHANGED <<marked, backlog, released, dataq, ctlq>>
    BY <1>15, <2>3 DEF CloseDrains
  <2> QED
    BY <1>15, <2>1, <2>2, <2>3 DEF CloseDrains
<1>16. ASSUME FlushCheck PROVE FWTyped'
  BY <1>16 DEF FlushCheck
<1>17. ASSUME FlushTakes PROVE FWTyped'
  <2>1. CASE dataq # <<>>
    <3>1. Head(dataq) \in Data /\ Tail(dataq) \in Seq(Data) /\ Append(batch, Head(dataq)) \in Seq(Data)
      BY <2>1, HeadTailIs
    <3> QED
      BY <1>17, <2>1, <3>1 DEF FlushTakes
  <2>2. CASE dataq = <<>>
    <3>1. batch \in Seq(Frame \cup {Beat}) /\ <<>> \in Seq(Data)
      BY DEF Frame
    <3> QED
      BY <1>17, <2>2, <3>1 DEF FlushTakes
  <2> QED
    BY <2>1, <2>2
<1>18. ASSUME FlushUnlocks PROVE FWTyped'
  BY <1>18 DEF FlushUnlocks
<1>19. ASSUME ToggleFlag PROVE FWTyped'
  BY <1>19 DEF ToggleFlag
<1>20. ASSUME ToggleSignal PROVE FWTyped'
  BY <1>20 DEF ToggleSignal
<1>21. ASSUME NEW f \in Frame, CallCheck(f) PROVE FWTyped'
  BY <1>21 DEF CallCheck
<1>22. ASSUME NEW f \in Frame, Enter(f) PROVE FWTyped'
  <2>1. CASE f \in Data
    <3>1. Append(dataq, f) \in Seq(Data) /\ Append(sent, f) \in Seq(Data)
      BY <2>1
    <3> QED
      BY <1>22, <2>1, <3>1 DEF Enter
  <2>2. CASE f \in Control
    <3>1. Append(ctlq, f) \in Seq(Control) /\ f \notin Data
      BY <2>2
    <3> QED
      BY <1>22, <2>2, <3>1 DEF Enter
  <2> QED
    BY <2>1, <2>2 DEF Frame
<1>23. ASSUME NEW f \in Frame, SendPanics(f) PROVE FWTyped'
  BY <1>23 DEF SendPanics
<1>24. ASSUME NEW f \in Frame, GivesUp(f) PROVE FWTyped'
  BY <1>24 DEF GivesUp, Unmark
<1>25. ASSUME UNCHANGED fwvars PROVE FWTyped'
  BY <1>25 DEF fwvars
<1> QED
  BY <1>1, <1>2, <1>3, <1>4, <1>5, <1>6, <1>7, <1>8, <1>9, <1>10, <1>11, <1>12, <1>13,
     <1>14, <1>15, <1>16, <1>17, <1>18, <1>19, <1>20, <1>21, <1>22, <1>23, <1>24, <1>25 DEF FWStep, LoopRuns, Closes, Flushes, Calling

-----------------------------------------------------------------------------
(* Where a queued frame is                                                 *)

Places(f) ==
    Count(dataq, f) + Count(ctlq, f) + Count(batch, f) + Count(todo, f)
        + (IF got = f THEN 1 ELSE 0)

Counted ==
    /\ \A f \in Frame : call[f] = "ok" => Places(f) + released[f] = 1
    /\ \A f \in Frame : call[f] # "ok" => Places(f) + released[f] = 0
    /\ backlog = Cardinality(marked)
    /\ \A f \in Frame : f \in marked <=> (call[f] \in {"send", "panic"} \/ Places(f) = 1)

LEMMA CountsNat ==
    ASSUME FWTyped, NEW f
    PROVE  /\ Count(dataq, f) \in Nat /\ Count(ctlq, f) \in Nat
           /\ Count(batch, f) \in Nat /\ Count(todo, f) \in Nat
BY CountNat DEF FWTyped

\* The sum is what InQueues counts.
LEMMA PlacesAre ==
    ASSUME FWTyped, NEW f \in Frame
    PROVE  InQueues(f) = Places(f) /\ Places(f) \in Nat
<1> DEFINE S == Frame \cup {Beat, NoFrame}
<1>1. /\ dataq \in Seq(S) /\ ctlq \in Seq(S) /\ batch \in Seq(S) /\ todo \in Seq(S)
      /\ <<got>> \in Seq(S)
  BY DEF FWTyped, Frame
<1> HIDE DEF S
<1>2. /\ dataq \o ctlq \in Seq(S) /\ dataq \o ctlq \o batch \in Seq(S)
      /\ dataq \o ctlq \o batch \o todo \in Seq(S)
  BY <1>1, ConcatProperties
<1>3. Count(dataq \o ctlq, f) = Count(dataq, f) + Count(ctlq, f)
  BY <1>1, CountConcat
<1>4. Count(dataq \o ctlq \o batch, f) = Count(dataq \o ctlq, f) + Count(batch, f)
  BY <1>1, <1>2, CountConcat
<1>5. Count(dataq \o ctlq \o batch \o todo, f) = Count(dataq \o ctlq \o batch, f) + Count(todo, f)
  BY <1>1, <1>2, CountConcat
<1>6. Count(dataq \o ctlq \o batch \o todo \o <<got>>, f)
        = Count(dataq \o ctlq \o batch \o todo, f) + Count(<<got>>, f)
  BY <1>1, <1>2, CountConcat
<1>7. Count(<<got>>, f) = IF got = f THEN 1 ELSE 0
  BY CountOne
<1>8. InQueues(f) = Count(dataq \o ctlq \o batch \o todo \o <<got>>, f)
  BY DEF InQueues, Count
<1>9. /\ Count(dataq, f) \in Nat /\ Count(ctlq, f) \in Nat
      /\ Count(batch, f) \in Nat /\ Count(todo, f) \in Nat
  BY CountsNat
<1>10. InQueues(f) = Places(f)
  BY <1>3, <1>4, <1>5, <1>6, <1>7, <1>8 DEF Places
<1>11. Places(f) \in Nat
  BY <1>9 DEF Places
<1> QED
  BY <1>10, <1>11

LEMMA CountedIsOnce == FWTyped /\ Counted => CountedOnce
<1> SUFFICES ASSUME FWTyped, Counted PROVE CountedOnce
  OBVIOUS
<1>1. \A f \in Frame : InQueues(f) = Places(f)
  BY PlacesAre
<1> QED
  BY <1>1 DEF Counted, CountedOnce

LEMMA InitCounted == FWInit => Counted
<1> SUFFICES ASSUME FWInit PROVE Counted
  OBVIOUS
<1>1. /\ call = [f \in Frame |-> "no"] /\ backlog = 0 /\ marked = {} /\ dataq = <<>> /\ ctlq = <<>>
      /\ batch = <<>> /\ todo = <<>> /\ got = NoFrame /\ released = [f \in Frame |-> 0]
  BY DEF FWInit
<1>2. \A f \in Frame : Places(f) = 0
  BY <1>1, CountEmpty DEF Places
<1>3. Cardinality({}) = 0
  BY FS_EmptySet
<1> QED
  BY <1>1, <1>2, <1>3 DEF Counted

\* A step that only moves frames,
LEMMA Moves ==
    ASSUME Counted, UNCHANGED <<calls, released>>, \A f \in Frame : Places(f)' = Places(f)
    PROVE  Counted'
BY DEF Counted, calls

\* one that gives a frame back,
LEMMA Drops ==
    ASSUME FWTyped, FWTyped', Counted, UNCHANGED call,
           NEW g \in Frame \cup {Beat}, Unmark(g), Release(g),
           \A f \in Frame : Places(f) = Places(f)' + (IF g = f THEN 1 ELSE 0)
    PROVE  Counted'
<1>1. ASSUME NEW f \in Frame PROVE Places(f)' \in Nat
  <2>1. dataq' \in Seq(Data) /\ ctlq' \in Seq(Control) /\ batch' \in Seq(Data) /\ todo' \in Seq(Frame \cup {Beat})
    BY DEF FWTyped
  <2>2. Count(dataq', f) \in Nat /\ Count(ctlq', f) \in Nat /\ Count(batch', f) \in Nat /\ Count(todo', f) \in Nat
    BY <2>1, CountNat
  <2> QED
    BY <2>2 DEF Places
<1>2. \A f \in Frame : released[f] \in Nat
  BY DEF FWTyped
<1>3. ASSUME NEW f \in Frame, f # g
      PROVE  /\ Places(f)' = Places(f) /\ released'[f] = released[f]
             /\ (f \in marked' <=> f \in marked)
  <2>1. Places(f)' = Places(f)
    BY <1>1, <1>3
  <2> QED
    BY <1>3, <2>1 DEF Unmark, Release, FWTyped
<1>4. g \in Frame => /\ Places(g)' = 0 /\ released'[g] = 1 /\ call[g] = "ok" /\ g \in marked
                     /\ g \notin marked'
  <2> SUFFICES ASSUME g \in Frame
               PROVE  /\ Places(g)' = 0 /\ released'[g] = 1 /\ call[g] = "ok" /\ g \in marked
                      /\ g \notin marked'
    OBVIOUS
  <2>1. Places(g) = Places(g)' + 1 /\ Places(g)' \in Nat
    BY <1>1
  <2>2. call[g] = "ok" /\ Places(g) = 1 /\ Places(g)' = 0 /\ released[g] = 0
    BY <1>2, <2>1 DEF Counted
  <2>3. released'[g] = released[g] + 1
    BY DEF Release, FWTyped
  <2> QED
    BY <2>2, <2>3 DEF Counted, Unmark
<1>5. backlog' = Cardinality(marked')
  <2>1. IsFiniteSet(marked)
    BY FS_Subset DEF FWTyped
  <2>2. Cardinality(marked \ {g}) = IF g \in marked THEN Cardinality(marked) - 1 ELSE Cardinality(marked)
    BY <2>1, FS_RemoveElement
  <2> QED
    BY <2>2 DEF Counted, Unmark
<1> QED
  BY <1>3, <1>4, <1>5 DEF Counted

\* and one of a call.
LEMMA PlacesSame ==
    ASSUME UNCHANGED <<dataq, ctlq, todo, batch, got>>
    PROVE  \A f \in Frame : Places(f)' = Places(f)
BY DEF Places

LEMMA NextCounted == FWTyped /\ FWTyped' /\ Counted /\ [FWStep]_fwvars => Counted'
<1> SUFFICES ASSUME FWTyped, FWTyped', Counted, [FWStep]_fwvars PROVE Counted'
  OBVIOUS
<1> USE DEF calls, queues, locked, ends
<1>1. ASSUME LoopStart PROVE Counted'
  <2>1. \A e \in Frame : Places(e)' = Places(e)
    BY <1>1, PlacesSame DEF LoopStart, locked
  <2> QED
    BY <1>1, <2>1, Moves DEF LoopStart
<1>2. ASSUME ControlFirst PROVE Counted'
  <2>1. CASE ctlq # <<>>
    <3>1. \A e : Count(ctlq, e) = Count(Tail(ctlq), e) + (IF Head(ctlq) = e THEN 1 ELSE 0)
      BY <2>1, CountTail DEF FWTyped
    <3>2. got = NoFrame /\ ctlq' = Tail(ctlq) /\ got' = Head(ctlq) /\ UNCHANGED <<dataq, batch, todo>>
      BY <1>2, <2>1 DEF ControlFirst, FWTyped
    <3>3. ASSUME NEW e \in Frame PROVE Places(e)' = Places(e)
      <4>1. Count(Tail(ctlq), e) \in Nat /\ got # e
        BY <2>1, <3>2, CountTail DEF FWTyped
      <4> QED
        BY <3>1, <3>2, <4>1, CountsNat DEF Places
    <3> QED
      BY <1>2, <3>3, Moves DEF ControlFirst
  <2>2. CASE ctlq = <<>>
    <3>1. \A e \in Frame : Places(e)' = Places(e)
      BY <1>2, <2>2, PlacesSame DEF ControlFirst
    <3> QED
      BY <1>2, <3>1, Moves DEF ControlFirst
  <2> QED
    BY <2>1, <2>2
<1>3. ASSUME TakeData PROVE Counted'
  <2>1. \A e : Count(dataq, e) = Count(Tail(dataq), e) + (IF Head(dataq) = e THEN 1 ELSE 0)
    BY <1>3, CountTail DEF TakeData, FWTyped
  <2>2. got = NoFrame /\ dataq' = Tail(dataq) /\ got' = Head(dataq) /\ UNCHANGED <<ctlq, batch, todo>>
    BY <1>3 DEF TakeData, FWTyped
  <2>3. ASSUME NEW e \in Frame PROVE Places(e)' = Places(e)
    <3>1. Count(Tail(dataq), e) \in Nat /\ got # e
      BY <1>3, <2>2, CountTail DEF TakeData, FWTyped
    <3> QED
      BY <2>1, <2>2, <3>1, CountsNat DEF Places
  <2> QED
    BY <1>3, <2>3, Moves DEF TakeData
<1>4. ASSUME LoopLeaves PROVE Counted'
  <2>1. \A e \in Frame : Places(e)' = Places(e)
    BY <1>4, PlacesSame DEF LoopLeaves, locked
  <2> QED
    BY <1>4, <2>1, Moves DEF LoopLeaves
<1>5. ASSUME LoopLocks PROVE Counted'
  <2>1. CASE at = "data" /\ LockWith(Append(batch, got), <<>>, "top")
    <3>1. todo = <<>> /\ todo' = Append(batch, got) /\ batch' = <<>>
      BY <2>1, LockTakes DEF FWTyped
    <3>2. got' = NoFrame /\ UNCHANGED <<dataq, ctlq>>
      BY <1>5 DEF LoopLocks
    <3>3. ASSUME NEW e \in Frame PROVE Places(e)' = Places(e)
      <4>1. Count(<<>>, e) = 0 /\ got' # e
        BY <3>2, CountEmpty
      <4>2. Count(Append(batch, got), e) = Count(batch, e) + (IF got = e THEN 1 ELSE 0)
        BY <2>1, CountAppend DEF FWTyped
      <4> QED
        BY <2>1, <3>1, <3>2, <4>1, <4>2, CountsNat DEF Places
    <3> QED
      BY <1>5, <3>3, Moves DEF LoopLocks
  <2>2. CASE at = "data" /\ LockWith(<<>>, Append(batch, got), "top")
    <3>1. todo = <<>> /\ todo' = <<>> /\ batch' = Append(batch, got)
      BY <2>2, LockTakes DEF FWTyped
    <3>2. got' = NoFrame /\ UNCHANGED <<dataq, ctlq>>
      BY <1>5 DEF LoopLocks
    <3>3. ASSUME NEW e \in Frame PROVE Places(e)' = Places(e)
      <4>1. Count(<<>>, e) = 0 /\ got' # e
        BY <3>2, CountEmpty
      <4>2. Count(Append(batch, got), e) = Count(batch, e) + (IF got = e THEN 1 ELSE 0)
        BY <2>2, CountAppend DEF FWTyped
      <4> QED
        BY <2>2, <3>1, <3>2, <4>1, <4>2, CountsNat DEF Places
    <3> QED
      BY <1>5, <3>3, Moves DEF LoopLocks
  <2>3. CASE at = "control" /\ LockWith(<<got>>, batch, "top")
    <3>1. todo = <<>> /\ todo' = <<got>> /\ batch' = batch
      BY <2>3, LockTakes DEF FWTyped
    <3>2. got' = NoFrame /\ UNCHANGED <<dataq, ctlq>>
      BY <1>5 DEF LoopLocks
    <3>3. ASSUME NEW e \in Frame PROVE Places(e)' = Places(e)
      <4>1. Count(<<>>, e) = 0 /\ got' # e
        BY <3>2, CountEmpty
      <4>2. Count(<<got>>, e) = IF got = e THEN 1 ELSE 0
        BY CountOne
      <4> QED
        BY <2>3, <3>1, <3>2, <4>1, <4>2, CountsNat DEF Places
    <3> QED
      BY <1>5, <3>3, Moves DEF LoopLocks
  <2>4. CASE at = "last" /\ LockWith(batch, <<>>, "ended")
    <3>1. todo = <<>> /\ todo' = batch /\ batch' = <<>>
      BY <2>4, LockTakes DEF FWTyped
    <3>2. got' = NoFrame /\ UNCHANGED <<dataq, ctlq>>
      BY <1>5 DEF LoopLocks
    <3>3. ASSUME NEW e \in Frame PROVE Places(e)' = Places(e)
      <4>1. Count(<<>>, e) = 0 /\ got' # e
        BY <3>2, CountEmpty
      <4>2. got # e
        BY <2>4 DEF FWTyped
      <4> QED
        BY <2>4, <3>1, <3>2, <4>1, <4>2, CountsNat DEF Places
    <3> QED
      BY <1>5, <3>3, Moves DEF LoopLocks
  <2> QED
    BY <1>5, <2>1, <2>2, <2>3, <2>4 DEF LoopLocks
<1>6. ASSUME LoopUnlocks PROVE Counted'
  <2>1. \A e \in Frame : Places(e)' = Places(e)
    BY <1>6, PlacesSame DEF LoopUnlocks, locked
  <2> QED
    BY <1>6, <2>1, Moves DEF LoopUnlocks
<1>7. ASSUME TakeSignal PROVE Counted'
  <2>1. \A e \in Frame : Places(e)' = Places(e)
    BY <1>7, PlacesSame DEF TakeSignal, locked
  <2> QED
    BY <1>7, <2>1, Moves DEF TakeSignal
<1>8. ASSUME ApplySignal PROVE Counted'
  <2>1. \A e \in Frame : Places(e)' = Places(e)
    BY <1>8, PlacesSame DEF ApplySignal, locked
  <2> QED
    BY <1>8, <2>1, Moves DEF ApplySignal
<1>9. ASSUME Tick PROVE Counted'
  <2>1. todo = <<>> /\ todo' = batch /\ batch' = <<>>
    BY <1>9, LockTakes DEF Tick, FWTyped
  <2>2. UNCHANGED <<dataq, ctlq, got>>
    BY <1>9 DEF Tick
  <2>3. ASSUME NEW e \in Frame PROVE Places(e)' = Places(e)
    <3>1. Count(<<>>, e) = 0 /\ Count(<<Beat>>, e) = 0
      BY CountEmpty, CountOne
    <3> QED
      BY <2>1, <2>2, <3>1, CountsNat DEF Places
  <2> QED
    BY <1>9, <2>3, Moves DEF Tick
<1>10. ASSUME HeartbeatTick PROVE Counted'
  <2>1. todo = <<>> /\ todo' = <<Beat>> /\ batch' = batch
    BY <1>10, LockTakes DEF HeartbeatTick, FWTyped
  <2>2. UNCHANGED <<dataq, ctlq, got>>
    BY <1>10 DEF HeartbeatTick
  <2>3. ASSUME NEW e \in Frame PROVE Places(e)' = Places(e)
    <3>1. Count(<<>>, e) = 0 /\ Count(<<Beat>>, e) = 0
      BY CountEmpty, CountOne
    <3> QED
      BY <2>1, <2>2, <3>1, CountsNat DEF Places
  <2> QED
    BY <1>10, <2>3, Moves DEF HeartbeatTick
<1>11. ASSUME WriteOk PROVE Counted'
  <2>1. /\ todo # <<>> /\ Head(todo) \in Frame \cup {Beat} /\ todo' = Tail(todo)
        /\ Unmark(Head(todo)) /\ Release(Head(todo)) /\ UNCHANGED <<call, dataq, ctlq, batch, got>>
    BY <1>11, HeadTailIs DEF WriteOk, Written, FWTyped
  <2>2. ASSUME NEW e \in Frame PROVE Places(e) = Places(e)' + (IF Head(todo) = e THEN 1 ELSE 0)
    <3>1. /\ Count(todo, e) = Count(Tail(todo), e) + (IF Head(todo) = e THEN 1 ELSE 0)
          /\ Count(Tail(todo), e) \in Nat
      BY <2>1, CountTail DEF FWTyped
    <3> QED
      BY <2>1, <3>1, CountsNat DEF Places
  <2> QED
    BY <2>1, <2>2, Drops
<1>12. ASSUME WriteFails PROVE Counted'
  <2>1. /\ todo # <<>> /\ Head(todo) \in Frame \cup {Beat} /\ todo' = Tail(todo)
        /\ Unmark(Head(todo)) /\ Release(Head(todo)) /\ UNCHANGED <<call, dataq, ctlq, batch, got>>
    BY <1>12, HeadTailIs DEF WriteFails, Written, FWTyped
  <2>2. ASSUME NEW e \in Frame PROVE Places(e) = Places(e)' + (IF Head(todo) = e THEN 1 ELSE 0)
    <3>1. /\ Count(todo, e) = Count(Tail(todo), e) + (IF Head(todo) = e THEN 1 ELSE 0)
          /\ Count(Tail(todo), e) \in Nat
      BY <2>1, CountTail DEF FWTyped
    <3> QED
      BY <2>1, <3>1, CountsNat DEF Places
  <2> QED
    BY <2>1, <2>2, Drops
<1>13. ASSUME CloseCheck PROVE Counted'
  <2>1. \A e \in Frame : Places(e)' = Places(e)
    BY <1>13, PlacesSame DEF CloseCheck, locked
  <2> QED
    BY <1>13, <2>1, Moves DEF CloseCheck
<1>14. ASSUME CloseQueues PROVE Counted'
  <2>1. \A e \in Frame : Places(e)' = Places(e)
    BY <1>14, PlacesSame DEF CloseQueues, locked
  <2> QED
    BY <1>14, <2>1, Moves DEF CloseQueues
<1>15. ASSUME CloseDrains PROVE Counted'
  <2>1. CASE dataq # <<>> /\ dataq' = Tail(dataq) /\ Unmark(Head(dataq)) /\ Release(Head(dataq)) /\ UNCHANGED <<ctlq, wclose>>
    <3>1. Head(dataq) \in Frame /\ UNCHANGED <<call, batch, todo, got, ctlq>>
      BY <1>15, <2>1, HeadTailIs DEF CloseDrains, Frame, FWTyped
    <3>2. ASSUME NEW e \in Frame PROVE Places(e) = Places(e)' + (IF Head(dataq) = e THEN 1 ELSE 0)
      <4>1. /\ Count(dataq, e) = Count(Tail(dataq), e) + (IF Head(dataq) = e THEN 1 ELSE 0)
            /\ Count(Tail(dataq), e) \in Nat
        BY <2>1, CountTail DEF FWTyped
      <4> QED
        BY <2>1, <3>1, <4>1, CountsNat DEF Places
    <3> QED
      BY <2>1, <3>1, <3>2, Drops
  <2>2. CASE ctlq # <<>> /\ ctlq' = Tail(ctlq) /\ Unmark(Head(ctlq)) /\ Release(Head(ctlq)) /\ UNCHANGED <<dataq, wclose>>
    <3>1. Head(ctlq) \in Frame /\ UNCHANGED <<call, batch, todo, got, dataq>>
      BY <1>15, <2>2, HeadTailIs DEF CloseDrains, Frame, FWTyped
    <3>2. ASSUME NEW e \in Frame PROVE Places(e) = Places(e)' + (IF Head(ctlq) = e THEN 1 ELSE 0)
      <4>1. /\ Count(ctlq, e) = Count(Tail(ctlq), e) + (IF Head(ctlq) = e THEN 1 ELSE 0)
            /\ Count(Tail(ctlq), e) \in Nat
        BY <2>2, CountTail DEF FWTyped
      <4> QED
        BY <2>2, <3>1, <4>1, CountsNat DEF Places
    <3> QED
      BY <2>2, <3>1, <3>2, Drops
  <2>3. CASE UNCHANGED <<marked, backlog, released, dataq, ctlq>>
    <3>1. \A e \in Frame : Places(e)' = Places(e)
      BY <1>15, <2>3 DEF CloseDrains, Places
    <3> QED
      BY <1>15, <2>3, <3>1, Moves DEF CloseDrains
  <2> QED
    BY <1>15, <2>1, <2>2, <2>3 DEF CloseDrains
<1>16. ASSUME FlushCheck PROVE Counted'
  <2>1. \A e \in Frame : Places(e)' = Places(e)
    BY <1>16, PlacesSame DEF FlushCheck, locked
  <2> QED
    BY <1>16, <2>1, Moves DEF FlushCheck
<1>17. ASSUME FlushTakes PROVE Counted'
  <2>1. CASE dataq # <<>>
    <3>1. /\ batch' = Append(batch, Head(dataq)) /\ dataq' = Tail(dataq) /\ Head(dataq) \in Data
          /\ UNCHANGED <<ctlq, todo, got>>
      BY <1>17, <2>1, HeadTailIs DEF FlushTakes, FWTyped
    <3>2. ASSUME NEW e \in Frame PROVE Places(e)' = Places(e)
      <4>1. /\ Count(dataq, e) = Count(Tail(dataq), e) + (IF Head(dataq) = e THEN 1 ELSE 0)
            /\ Count(Tail(dataq), e) \in Nat
        BY <2>1, CountTail DEF FWTyped
      <4>2. Count(Append(batch, Head(dataq)), e) = Count(batch, e) + (IF Head(dataq) = e THEN 1 ELSE 0)
        BY <3>1, CountAppend DEF FWTyped
      <4> QED
        BY <3>1, <4>1, <4>2, CountsNat DEF Places
    <3> QED
      BY <1>17, <3>2, Moves DEF FlushTakes
  <2>2. CASE dataq = <<>>
    <3>1. todo = <<>> /\ todo' = batch /\ batch' = <<>> /\ UNCHANGED <<dataq, ctlq, got>>
      BY <1>17, <2>2 DEF FlushTakes, FWTyped
    <3>2. ASSUME NEW e \in Frame PROVE Places(e)' = Places(e)
      BY <3>1, CountEmpty, CountsNat DEF Places
    <3> QED
      BY <1>17, <3>2, Moves DEF FlushTakes
  <2> QED
    BY <2>1, <2>2
<1>18. ASSUME FlushUnlocks PROVE Counted'
  <2>1. \A e \in Frame : Places(e)' = Places(e)
    BY <1>18, PlacesSame DEF FlushUnlocks, locked
  <2> QED
    BY <1>18, <2>1, Moves DEF FlushUnlocks
<1>19. ASSUME ToggleFlag PROVE Counted'
  <2>1. \A e \in Frame : Places(e)' = Places(e)
    BY <1>19, PlacesSame DEF ToggleFlag, locked
  <2> QED
    BY <1>19, <2>1, Moves DEF ToggleFlag
<1>20. ASSUME ToggleSignal PROVE Counted'
  <2>1. \A e \in Frame : Places(e)' = Places(e)
    BY <1>20, PlacesSame DEF ToggleSignal, locked
  <2> QED
    BY <1>20, <2>1, Moves DEF ToggleSignal
<1>21. ASSUME NEW f \in Frame, CallCheck(f) PROVE Counted'
  <2>1. \A e \in Frame : Places(e)' = Places(e) /\ Places(e) \in Nat /\ released[e] \in Nat
    BY <1>21, PlacesSame, PlacesAre DEF CallCheck, FWTyped
  <2>2. Places(f) = 0 /\ released[f] = 0 /\ f \notin marked /\ call[f] = "no" /\ UNCHANGED released
    <3>1. call[f] = "no" /\ UNCHANGED released
      BY <1>21 DEF CallCheck
    <3>2. Places(f) + released[f] = 0
      BY <3>1 DEF Counted
    <3>3. Places(f) = 0 /\ released[f] = 0
      BY <2>1, <3>2
    <3> QED
      BY <3>1, <3>3 DEF Counted
  <2>3. CASE shut
    <3>1. call' = [call EXCEPT ![f] = "refused"] /\ UNCHANGED <<backlog, marked>>
      BY <1>21, <2>3 DEF CallCheck
    <3> QED
      BY <2>1, <2>2, <3>1 DEF Counted, FWTyped
  <2>4. CASE ~shut
    <3>1. call' = [call EXCEPT ![f] = "send"] /\ backlog' = backlog + 1 /\ marked' = marked \cup {f}
      BY <1>21, <2>4 DEF CallCheck
    <3>2. backlog' = Cardinality(marked')
      <4>1. IsFiniteSet(marked)
        BY FS_Subset DEF FWTyped
      <4>2. Cardinality(marked \cup {f}) = IF f \in marked THEN Cardinality(marked) ELSE Cardinality(marked) + 1
        BY <4>1, FS_AddElement
      <4> QED
        BY <2>2, <3>1, <4>2 DEF Counted
    <3> QED
      BY <2>1, <2>2, <3>1, <3>2 DEF Counted, FWTyped
  <2> QED
    BY <2>3, <2>4
<1>22. ASSUME NEW f \in Frame, Enter(f) PROVE Counted'
  <2>1. \A e \in Frame : Places(e) \in Nat /\ released[e] \in Nat
    BY PlacesAre DEF FWTyped
  <2>2. /\ call[f] = "send" /\ call' = [call EXCEPT ![f] = "ok"] /\ Places(f) = 0 /\ released[f] = 0
        /\ f \in marked /\ UNCHANGED <<released, marked, backlog>>
    <3>1. call[f] = "send" /\ call' = [call EXCEPT ![f] = "ok"] /\ UNCHANGED <<released, marked, backlog>>
      BY <1>22 DEF Enter
    <3>2. Places(f) + released[f] = 0
      BY <3>1 DEF Counted
    <3>3. Places(f) = 0 /\ released[f] = 0
      BY <2>1, <3>2
    <3> QED
      BY <3>1, <3>3 DEF Counted
  <2>6. UNCHANGED <<batch, todo, got>>
    BY <1>22 DEF Enter
  <2>3. ASSUME NEW e \in Frame PROVE Places(e)' = Places(e) + (IF f = e THEN 1 ELSE 0)
    <3>1. CASE f \in Data /\ dataq' = Append(dataq, f) /\ UNCHANGED ctlq
      <4>1. Count(Append(dataq, f), e) = Count(dataq, e) + (IF f = e THEN 1 ELSE 0)
        BY <3>1, CountAppend DEF FWTyped
      <4> QED
        BY <2>6, <3>1, <4>1, CountsNat DEF Places
    <3>2. CASE f \in Control /\ ctlq' = Append(ctlq, f) /\ UNCHANGED dataq
      <4>1. Count(Append(ctlq, f), e) = Count(ctlq, e) + (IF f = e THEN 1 ELSE 0)
        BY <3>2, CountAppend DEF FWTyped
      <4> QED
        BY <2>6, <3>2, <4>1, CountsNat DEF Places
    <3> QED
      BY <1>22, <3>1, <3>2 DEF Enter
  <2>4. \A e \in Frame : e # f => Places(e)' = Places(e) /\ call'[e] = call[e]
    BY <2>1, <2>2, <2>3 DEF FWTyped
  <2>5. Places(f)' = 1 /\ call'[f] = "ok"
    BY <2>2, <2>3 DEF FWTyped
  <2> QED
    BY <2>2, <2>4, <2>5 DEF Counted, FWTyped
<1>23. ASSUME NEW f \in Frame, SendPanics(f) PROVE Counted'
  <2>1. \A e \in Frame : Places(e)' = Places(e)
    BY <1>23, PlacesSame DEF SendPanics
  <2>2. call[f] = "send" /\ call' = [call EXCEPT ![f] = "panic"] /\ UNCHANGED <<released, marked, backlog>>
    BY <1>23 DEF SendPanics
  <2> QED
    BY <2>1, <2>2 DEF Counted, FWTyped
<1>24. ASSUME NEW f \in Frame, GivesUp(f) PROVE Counted'
  <2>1. \A e \in Frame : Places(e)' = Places(e) /\ Places(e) \in Nat /\ released[e] \in Nat
    BY <1>24, PlacesSame, PlacesAre DEF GivesUp, FWTyped
  <2>2. /\ call[f] = "send" /\ \E a \in {"refused", "late"} : call' = [call EXCEPT ![f] = a]
        /\ Unmark(f) /\ UNCHANGED released
    BY <1>24 DEF GivesUp
  <2>3. f \in marked /\ Places(f) = 0
    BY <2>1, <2>2 DEF Counted
  <2>4. backlog' = Cardinality(marked')
    <3>1. IsFiniteSet(marked)
      BY FS_Subset DEF FWTyped
    <3>2. Cardinality(marked \ {f}) = IF f \in marked THEN Cardinality(marked) - 1 ELSE Cardinality(marked)
      BY <3>1, FS_RemoveElement
    <3> QED
      BY <2>2, <3>2 DEF Counted, Unmark
  <2>5. call'[f] \in {"refused", "late"} /\ \A e \in Frame : e # f => call'[e] = call[e]
    BY <2>2 DEF FWTyped
  <2>6. marked' = marked \ {f} /\ UNCHANGED released
    BY <2>2 DEF Unmark
  <2>7. ASSUME NEW e \in Frame
        PROVE  /\ call'[e] = "ok" => Places(e)' + released'[e] = 1
               /\ call'[e] # "ok" => Places(e)' + released'[e] = 0
               /\ e \in marked' <=> (call'[e] \in {"send", "panic"} \/ Places(e)' = 1)
    <3>1. CASE e = f
      <4>1. Places(f) + released[f] = 0
        BY <2>2 DEF Counted
      <4> QED
        BY <2>1, <2>3, <2>5, <2>6, <3>1, <4>1
    <3>2. CASE e # f
      <4>1. call'[e] = call[e] /\ Places(e)' = Places(e) /\ released'[e] = released[e]
        BY <2>1, <2>5, <2>6, <3>2
      <4>2. e \in marked' <=> e \in marked
        BY <2>6, <3>2
      <4> QED
        BY <4>1, <4>2 DEF Counted
    <3> QED
      BY <3>1, <3>2
  <2> QED
    BY <2>4, <2>7 DEF Counted
<1>25. ASSUME UNCHANGED fwvars PROVE Counted'
  <2>1. \A e \in Frame : Places(e)' = Places(e)
    BY <1>25, PlacesSame DEF fwvars
  <2> QED
    BY <1>25, <2>1, Moves DEF fwvars
<1> QED
  BY <1>1, <1>2, <1>3, <1>4, <1>5, <1>6, <1>7, <1>8, <1>9, <1>10, <1>11, <1>12, <1>13,
     <1>14, <1>15, <1>16, <1>17, <1>18, <1>19, <1>20, <1>21, <1>22, <1>23, <1>24, <1>25 DEF FWStep, LoopRuns, Closes, Flushes, Calling

-----------------------------------------------------------------------------
(* The order of the data frames                                            *)

Has(s, e) == \E i \in DOMAIN s : s[i] = e

\* What a sequence holds, and in which order, after Append, Head and Tail.
LEMMA AppendOrder ==
    ASSUME NEW S, NEW s \in Seq(S), NEW d \in S, NEW e, NEW f
    PROVE  /\ Has(Append(s, d), e) <=> (Has(s, e) \/ d = e)
           /\ Before(Append(s, d), e, f) <=> (Before(s, e, f) \/ (Has(s, e) /\ d = f))
<1> DEFINE n == Len(s)
           t == Append(s, d)
<1>1. /\ n \in Nat /\ DOMAIN s = 1..n /\ DOMAIN t = 1..(n + 1) /\ t[n + 1] = d
      /\ \A i \in 1..n : t[i] = s[i]
  OBVIOUS
<1> HIDE DEF n, t
<1>2. Has(t, e) <=> (Has(s, e) \/ d = e)
  <2>1. \A i \in 1..(n + 1) : i \in 1..n \/ i = n + 1
    BY <1>1
  <2>2. 1..n \subseteq 1..(n + 1) /\ n + 1 \in 1..(n + 1)
    BY <1>1
  <2> QED
    BY <1>1, <2>1, <2>2 DEF Has
<1>3. ASSUME Before(t, e, f) PROVE Before(s, e, f) \/ (Has(s, e) /\ d = f)
  <2>1. PICK i \in 1..(n + 1), j \in 1..(n + 1) : i < j /\ t[i] = e /\ t[j] = f
    BY <1>1, <1>3 DEF Before
  <2>2. i \in 1..n
    BY <1>1, <2>1
  <2>3. CASE j \in 1..n
    BY <1>1, <2>1, <2>2, <2>3 DEF Before
  <2>4. CASE j = n + 1
    BY <1>1, <2>1, <2>2, <2>4 DEF Has
  <2> QED
    BY <1>1, <2>1, <2>3, <2>4
<1>4. ASSUME Before(s, e, f) PROVE Before(t, e, f)
  <2>1. PICK i \in 1..n, j \in 1..n : i < j /\ s[i] = e /\ s[j] = f
    BY <1>1, <1>4 DEF Before
  <2>2. i \in 1..(n + 1) /\ j \in 1..(n + 1) /\ t[i] = e /\ t[j] = f
    BY <1>1, <2>1
  <2> QED
    BY <1>1, <2>1, <2>2 DEF Before
<1>5. ASSUME Has(s, e), d = f PROVE Before(t, e, f)
  <2>1. PICK i \in 1..n : s[i] = e
    BY <1>1, <1>5 DEF Has
  <2>2. i \in 1..(n + 1) /\ n + 1 \in 1..(n + 1) /\ i < n + 1 /\ t[i] = e /\ t[n + 1] = f
    BY <1>1, <1>5, <2>1
  <2> QED
    BY <1>1, <2>2 DEF Before
<1> QED
  BY <1>2, <1>3, <1>4, <1>5 DEF t

LEMMA TailOrder ==
    ASSUME NEW S, NEW s \in Seq(S), s # <<>>, NEW e, NEW f
    PROVE  /\ Has(s, e) <=> (Head(s) = e \/ Has(Tail(s), e))
           /\ Before(s, e, f) <=> ((Head(s) = e /\ Has(Tail(s), f)) \/ Before(Tail(s), e, f))
<1> DEFINE n == Len(s)
           t == Tail(s)
<1>1. /\ n \in Nat \ {0} /\ DOMAIN s = 1..n /\ DOMAIN t = 1..(n - 1) /\ Head(s) = s[1]
      /\ \A i \in 1..(n - 1) : t[i] = s[i + 1]
  <2>1. t \in Seq(S) /\ Len(t) = n - 1 /\ n \in Nat \ {0} /\ Head(s) = s[1]
    BY HeadTailProperties, EmptySeq
  <2>2. DOMAIN s = 1..n /\ DOMAIN t = 1..Len(t)
    BY <2>1, LenProperties
  <2> QED
    BY <2>1, <2>2, HeadTailProperties
<1> HIDE DEF n, t
<1>2. \A i \in 1..n : i = 1 \/ (i - 1 \in 1..(n - 1) /\ t[i - 1] = s[i])
  BY <1>1
<1>3. 1 \in 1..n /\ \A i \in 1..(n - 1) : i + 1 \in 1..n /\ t[i] = s[i + 1]
  BY <1>1
<1>4. Has(s, e) <=> (Head(s) = e \/ Has(t, e))
  BY <1>1, <1>2, <1>3 DEF Has
<1>5. ASSUME Before(s, e, f) PROVE (Head(s) = e /\ Has(t, f)) \/ Before(t, e, f)
  <2>1. PICK i \in 1..n, j \in 1..n : i < j /\ s[i] = e /\ s[j] = f
    BY <1>1, <1>5 DEF Before
  <2>2. j - 1 \in 1..(n - 1) /\ t[j - 1] = f
    BY <1>1, <1>2, <2>1
  <2>3. CASE i = 1
    BY <1>1, <2>1, <2>2, <2>3 DEF Has
  <2>4. CASE i # 1
    <3>1. i - 1 \in 1..(n - 1) /\ t[i - 1] = e /\ i - 1 < j - 1
      BY <1>1, <1>2, <2>1, <2>4
    <3> QED
      BY <1>1, <2>2, <3>1 DEF Before
  <2> QED
    BY <2>3, <2>4
<1>6. ASSUME Head(s) = e, Has(t, f) PROVE Before(s, e, f)
  <2>1. PICK j \in 1..(n - 1) : t[j] = f
    BY <1>1, <1>6 DEF Has
  <2>2. j + 1 \in 1..n /\ s[j + 1] = f /\ 1 \in 1..n /\ s[1] = e /\ 1 < j + 1
    BY <1>1, <1>6, <2>1
  <2> QED
    BY <1>1, <2>2 DEF Before
<1>7. ASSUME Before(t, e, f) PROVE Before(s, e, f)
  <2>1. PICK i \in 1..(n - 1), j \in 1..(n - 1) : i < j /\ t[i] = e /\ t[j] = f
    BY <1>1, <1>7 DEF Before
  <2>2. i + 1 \in 1..n /\ j + 1 \in 1..n /\ s[i + 1] = e /\ s[j + 1] = f /\ i + 1 < j + 1
    BY <1>1, <2>1
  <2> QED
    BY <1>1, <2>2 DEF Before
<1> QED
  BY <1>4, <1>5, <1>6, <1>7 DEF t

LEMMA NoOrder ==
    ASSUME NEW d, NEW e, NEW f
    PROVE  /\ ~Has(<<>>, e) /\ ~Before(<<>>, e, f)
           /\ (Has(<<d>>, e) <=> d = e) /\ ~Before(<<d>>, e, f)
<1>1. DOMAIN <<>> = {} /\ DOMAIN <<d>> = {1} /\ <<d>>[1] = d
  OBVIOUS
<1>2. ~Has(<<>>, e) /\ ~Before(<<>>, e, f)
  BY <1>1 DEF Has, Before
<1>3. Has(<<d>>, e) <=> d = e
  BY <1>1 DEF Has
<1>4. ~Before(<<d>>, e, f)
  BY <1>1 DEF Before
<1> QED
  BY <1>2, <1>3, <1>4

\* A data frame is ahead of another on the way from the queue to the connection.
Known(e) ==
    Has(wire, e) \/ Has(todo, e) \/ Has(batch, e) \/ got = e \/ Has(dataq, e)
Ahead(e, f) ==
    \/ Before(wire, e, f) \/ Before(todo, e, f) \/ Before(batch, e, f) \/ Before(dataq, e, f)
    \/ Has(wire, e) /\ (Has(todo, f) \/ Has(batch, f) \/ got = f \/ Has(dataq, f))
    \/ Has(todo, e) /\ (Has(batch, f) \/ got = f \/ Has(dataq, f))
    \/ Has(batch, e) /\ (got = f \/ Has(dataq, f))
    \/ got = e /\ Has(dataq, f)

\* The whole way is in the order of the calls, not only what was written.
Ordered ==
    /\ \A e \in Data : Known(e) => Has(sent, e)
    /\ ~raced => \A e, f \in Data : Ahead(e, f) => Before(sent, e, f)

LEMMA OrderedIsInOrder == Ordered => InOrder
BY DEF Ordered, InOrder, Ahead

LEMMA InitOrdered == FWInit => Ordered
<1> SUFFICES ASSUME FWInit PROVE Ordered
  OBVIOUS
<1>1. dataq = <<>> /\ batch = <<>> /\ todo = <<>> /\ wire = <<>> /\ got = NoFrame
  BY DEF FWInit
<1>2. ASSUME NEW e \in Data, NEW f \in Data PROVE ~Known(e) /\ ~Ahead(e, f)
  <2>1. got # e /\ got # f
    BY <1>1 DEF Frame
  <2> QED
    BY <1>1, <2>1, NoOrder DEF Known, Ahead
<1> QED
  BY <1>2 DEF Ordered

\* A step that brings no frame onto the way and passes none by another,
LEMMA Keeps ==
    ASSUME Ordered, UNCHANGED <<sent, raced>>,
           \A e, f \in Data : (Known(e)' => Known(e)) /\ (Ahead(e, f)' => Ahead(e, f))
    PROVE  Ordered'
BY DEF Ordered

\* one that leaves the way as it is,
LEMMA Stays ==
    ASSUME Ordered, UNCHANGED <<sent, raced, wire, todo, batch, got, dataq>>
    PROVE  Ordered'
<1>1. \A e, f \in Data : (Known(e)' => Known(e)) /\ (Ahead(e, f)' => Ahead(e, f))
  BY DEF Known, Ahead
<1> QED
  BY <1>1, Keeps

LEMMA NextOrdered == FWTyped /\ Ordered /\ [FWStep]_fwvars => Ordered'
<1> SUFFICES ASSUME FWTyped, Ordered, [FWStep]_fwvars PROVE Ordered'
  OBVIOUS
<1> USE DEF calls, queues, locked, ends
<1>1. ASSUME LoopStart PROVE Ordered'
  BY <1>1, Stays DEF LoopStart, LoopTo
<1>2. ASSUME ControlFirst PROVE Ordered'
  <2>1. CASE ctlq # <<>>
    <3>1. Head(ctlq) \in Control /\ got' = Head(ctlq) /\ UNCHANGED <<wire, todo, batch, dataq, sent, raced>>
      BY <1>2, <2>1, HeadTailIs DEF ControlFirst, FWTyped
    <3>2. ASSUME NEW e \in Data, NEW f \in Data PROVE (Known(e)' => Known(e)) /\ (Ahead(e, f)' => Ahead(e, f))
      <4>1. got' # e /\ got' # f
        BY <3>1
      <4> QED
        BY <3>1, <4>1 DEF Known, Ahead
    <3> QED
      BY <3>1, <3>2, Keeps
  <2>2. CASE ctlq = <<>>
    BY <1>2, <2>2, Stays DEF ControlFirst
  <2> QED
    BY <2>1, <2>2
<1>3. ASSUME TakeData PROVE Ordered'
  <2>1. /\ dataq # <<>> /\ dataq' = Tail(dataq) /\ got' = Head(dataq) /\ got = NoFrame
        /\ UNCHANGED <<wire, todo, batch, sent, raced>>
    BY <1>3 DEF TakeData, FWTyped
  <2>2. ASSUME NEW e \in Data, NEW f \in Data PROVE (Known(e)' => Known(e)) /\ (Ahead(e, f)' => Ahead(e, f))
    <3>1. /\ Has(dataq, e) <=> (Head(dataq) = e \/ Has(Tail(dataq), e))
          /\ Has(dataq, f) <=> (Head(dataq) = f \/ Has(Tail(dataq), f))
          /\ Before(dataq, e, f) <=> ((Head(dataq) = e /\ Has(Tail(dataq), f)) \/ Before(Tail(dataq), e, f))
      BY <2>1, TailOrder DEF FWTyped
    <3> QED
      BY <2>1, <3>1 DEF Known, Ahead
  <2> QED
    BY <2>1, <2>2, Keeps
<1>4. ASSUME LoopLeaves PROVE Ordered'
  BY <1>4, Stays DEF LoopLeaves, LoopTo
<1>5. ASSUME LoopLocks PROVE Ordered'
  <2>1. CASE at = "data" /\ LockWith(Append(batch, got), <<>>, "top")
    <3>1. todo = <<>> /\ todo' = Append(batch, got) /\ batch' = <<>>
      BY <2>1, LockTakes DEF FWTyped
    <3>2. got' = NoFrame /\ UNCHANGED <<wire, dataq, sent, raced>>
      BY <1>5 DEF LoopLocks
    <3>3. ASSUME NEW e \in Data, NEW f \in Data PROVE (Known(e)' => Known(e)) /\ (Ahead(e, f)' => Ahead(e, f))
      <4>1. got' # e /\ got' # f
        BY <3>2 DEF Frame
      <4>2. ~Has(<<>>, e) /\ ~Has(<<>>, f) /\ ~Before(<<>>, e, f)
        BY NoOrder
      <4>3. /\ Has(Append(batch, got), e) <=> (Has(batch, e) \/ got = e)
            /\ Has(Append(batch, got), f) <=> (Has(batch, f) \/ got = f)
            /\ Before(Append(batch, got), e, f) <=> (Before(batch, e, f) \/ (Has(batch, e) /\ got = f))
        BY <2>1, AppendOrder DEF FWTyped
      <4> QED
        BY <3>1, <3>2, <4>1, <4>2, <4>3 DEF Known, Ahead
    <3> QED
      BY <3>2, <3>3, Keeps
  <2>2. CASE at = "data" /\ LockWith(<<>>, Append(batch, got), "top")
    <3>1. todo = <<>> /\ todo' = <<>> /\ batch' = Append(batch, got)
      BY <2>2, LockTakes DEF FWTyped
    <3>2. got' = NoFrame /\ UNCHANGED <<wire, dataq, sent, raced>>
      BY <1>5 DEF LoopLocks
    <3>3. ASSUME NEW e \in Data, NEW f \in Data PROVE (Known(e)' => Known(e)) /\ (Ahead(e, f)' => Ahead(e, f))
      <4>1. got' # e /\ got' # f
        BY <3>2 DEF Frame
      <4>2. ~Has(<<>>, e) /\ ~Has(<<>>, f) /\ ~Before(<<>>, e, f)
        BY NoOrder
      <4>3. /\ Has(Append(batch, got), e) <=> (Has(batch, e) \/ got = e)
            /\ Has(Append(batch, got), f) <=> (Has(batch, f) \/ got = f)
            /\ Before(Append(batch, got), e, f) <=> (Before(batch, e, f) \/ (Has(batch, e) /\ got = f))
        BY <2>2, AppendOrder DEF FWTyped
      <4> QED
        BY <3>1, <3>2, <4>1, <4>2, <4>3 DEF Known, Ahead
    <3> QED
      BY <3>2, <3>3, Keeps
  <2>3. CASE at = "control" /\ LockWith(<<got>>, batch, "top")
    <3>1. todo = <<>> /\ todo' = <<got>> /\ batch' = batch
      BY <2>3, LockTakes DEF FWTyped
    <3>2. got' = NoFrame /\ UNCHANGED <<wire, dataq, sent, raced>>
      BY <1>5 DEF LoopLocks
    <3>3. ASSUME NEW e \in Data, NEW f \in Data PROVE (Known(e)' => Known(e)) /\ (Ahead(e, f)' => Ahead(e, f))
      <4>1. got' # e /\ got' # f
        BY <3>2 DEF Frame
      <4>2. ~Has(<<>>, e) /\ ~Has(<<>>, f) /\ ~Before(<<>>, e, f)
        BY NoOrder
      <4>3. ~Has(<<got>>, e) /\ ~Has(<<got>>, f) /\ ~Before(<<got>>, e, f)
        <5>1. got # e /\ got # f
          BY <2>3 DEF FWTyped
        <5> QED
          BY <5>1, NoOrder
      <4> QED
        BY <3>1, <3>2, <4>1, <4>2, <4>3 DEF Known, Ahead
    <3> QED
      BY <3>2, <3>3, Keeps
  <2>4. CASE at = "last" /\ LockWith(batch, <<>>, "ended")
    <3>1. todo = <<>> /\ todo' = batch /\ batch' = <<>>
      BY <2>4, LockTakes DEF FWTyped
    <3>2. got' = NoFrame /\ UNCHANGED <<wire, dataq, sent, raced>>
      BY <1>5 DEF LoopLocks
    <3>3. ASSUME NEW e \in Data, NEW f \in Data PROVE (Known(e)' => Known(e)) /\ (Ahead(e, f)' => Ahead(e, f))
      <4>1. got' # e /\ got' # f
        BY <3>2 DEF Frame
      <4>2. ~Has(<<>>, e) /\ ~Has(<<>>, f) /\ ~Before(<<>>, e, f)
        BY NoOrder
      <4> QED
        BY <3>1, <3>2, <4>1, <4>2, <3>1 DEF Known, Ahead
    <3> QED
      BY <3>2, <3>3, Keeps
  <2> QED
    BY <1>5, <2>1, <2>2, <2>3, <2>4 DEF LoopLocks
<1>6. ASSUME LoopUnlocks PROVE Ordered'
  BY <1>6, Stays DEF LoopUnlocks, LoopTo
<1>7. ASSUME TakeSignal PROVE Ordered'
  BY <1>7, Stays DEF TakeSignal, LoopTo
<1>8. ASSUME ApplySignal PROVE Ordered'
  BY <1>8, Stays DEF ApplySignal, LoopTo
<1>9. ASSUME Tick PROVE Ordered'
  <2>1. todo = <<>> /\ todo' = batch /\ batch' = <<>>
    BY <1>9, LockTakes DEF Tick, FWTyped
  <2>2. UNCHANGED <<wire, dataq, got, sent, raced>>
    BY <1>9 DEF Tick
  <2>3. ASSUME NEW e \in Data, NEW f \in Data PROVE (Known(e)' => Known(e)) /\ (Ahead(e, f)' => Ahead(e, f))
    <3>1. /\ ~Has(<<>>, e) /\ ~Has(<<>>, f) /\ ~Before(<<>>, e, f)
          /\ ~Has(<<Beat>>, e) /\ ~Has(<<Beat>>, f) /\ ~Before(<<Beat>>, e, f)
      BY NoOrder DEF Frame
    <3> QED
      BY <2>1, <2>2, <3>1 DEF Known, Ahead
  <2> QED
    BY <2>2, <2>3, Keeps
<1>10. ASSUME HeartbeatTick PROVE Ordered'
  <2>1. todo = <<>> /\ todo' = <<Beat>> /\ batch' = batch
    BY <1>10, LockTakes DEF HeartbeatTick, FWTyped
  <2>2. UNCHANGED <<wire, dataq, got, sent, raced>>
    BY <1>10 DEF HeartbeatTick
  <2>3. ASSUME NEW e \in Data, NEW f \in Data PROVE (Known(e)' => Known(e)) /\ (Ahead(e, f)' => Ahead(e, f))
    <3>1. /\ ~Has(<<>>, e) /\ ~Has(<<>>, f) /\ ~Before(<<>>, e, f)
          /\ ~Has(<<Beat>>, e) /\ ~Has(<<Beat>>, f) /\ ~Before(<<Beat>>, e, f)
      BY NoOrder DEF Frame
    <3> QED
      BY <2>1, <2>2, <3>1 DEF Known, Ahead
  <2> QED
    BY <2>2, <2>3, Keeps
<1>11. ASSUME WriteOk PROVE Ordered'
  <2>1. /\ todo # <<>> /\ Head(todo) \in Frame \cup {Beat} /\ todo' = Tail(todo)
        /\ UNCHANGED <<batch, dataq, got, sent, raced>>
    BY <1>11, HeadTailIs DEF WriteOk, Written, FWTyped
  <2>2. wire' = wire \/ (Head(todo) \in Frame /\ wire' = Append(wire, Head(todo)))
    BY <1>11, <2>1 DEF WriteOk, Written
  <2>3. ASSUME NEW e \in Data, NEW f \in Data PROVE (Known(e)' => Known(e)) /\ (Ahead(e, f)' => Ahead(e, f))
    <3>1. /\ Has(todo, e) <=> (Head(todo) = e \/ Has(Tail(todo), e))
          /\ Has(todo, f) <=> (Head(todo) = f \/ Has(Tail(todo), f))
          /\ Before(todo, e, f) <=> ((Head(todo) = e /\ Has(Tail(todo), f)) \/ Before(Tail(todo), e, f))
      BY <2>1, TailOrder DEF FWTyped
    <3>2. CASE wire' = wire
      BY <2>1, <3>1, <3>2 DEF Known, Ahead
    <3>3. CASE Head(todo) \in Frame /\ wire' = Append(wire, Head(todo))
      <4>1. \A x, y :
            /\ Has(Append(wire, Head(todo)), x) <=> (Has(wire, x) \/ Head(todo) = x)
            /\ Before(Append(wire, Head(todo)), x, y) <=> (Before(wire, x, y) \/ (Has(wire, x) /\ Head(todo) = y))
        BY <3>3, AppendOrder DEF FWTyped
      <4>2. /\ Has(Append(wire, Head(todo)), e) <=> (Has(wire, e) \/ Head(todo) = e)
            /\ Has(Append(wire, Head(todo)), f) <=> (Has(wire, f) \/ Head(todo) = f)
            /\ Before(Append(wire, Head(todo)), e, f) <=> (Before(wire, e, f) \/ (Has(wire, e) /\ Head(todo) = f))
        BY <4>1
      <4> QED
        BY <2>1, <3>1, <3>3, <4>2 DEF Known, Ahead
    <3> QED
      BY <2>2, <3>2, <3>3
  <2> QED
    BY <2>1, <2>3, Keeps
<1>12. ASSUME WriteFails PROVE Ordered'
  <2>1. /\ todo # <<>> /\ Head(todo) \in Frame \cup {Beat} /\ todo' = Tail(todo)
        /\ UNCHANGED <<batch, dataq, got, sent, raced>>
    BY <1>12, HeadTailIs DEF WriteFails, Written, FWTyped
  <2>2. wire' = wire \/ (Head(todo) \in Frame /\ wire' = Append(wire, Head(todo)))
    BY <1>12, <2>1 DEF WriteFails, Written
  <2>3. ASSUME NEW e \in Data, NEW f \in Data PROVE (Known(e)' => Known(e)) /\ (Ahead(e, f)' => Ahead(e, f))
    <3>1. /\ Has(todo, e) <=> (Head(todo) = e \/ Has(Tail(todo), e))
          /\ Has(todo, f) <=> (Head(todo) = f \/ Has(Tail(todo), f))
          /\ Before(todo, e, f) <=> ((Head(todo) = e /\ Has(Tail(todo), f)) \/ Before(Tail(todo), e, f))
      BY <2>1, TailOrder DEF FWTyped
    <3>2. CASE wire' = wire
      BY <2>1, <3>1, <3>2 DEF Known, Ahead
    <3>3. CASE Head(todo) \in Frame /\ wire' = Append(wire, Head(todo))
      <4>1. \A x, y :
            /\ Has(Append(wire, Head(todo)), x) <=> (Has(wire, x) \/ Head(todo) = x)
            /\ Before(Append(wire, Head(todo)), x, y) <=> (Before(wire, x, y) \/ (Has(wire, x) /\ Head(todo) = y))
        BY <3>3, AppendOrder DEF FWTyped
      <4>2. /\ Has(Append(wire, Head(todo)), e) <=> (Has(wire, e) \/ Head(todo) = e)
            /\ Has(Append(wire, Head(todo)), f) <=> (Has(wire, f) \/ Head(todo) = f)
            /\ Before(Append(wire, Head(todo)), e, f) <=> (Before(wire, e, f) \/ (Has(wire, e) /\ Head(todo) = f))
        BY <4>1
      <4> QED
        BY <2>1, <3>1, <3>3, <4>2 DEF Known, Ahead
    <3> QED
      BY <2>2, <3>2, <3>3
  <2> QED
    BY <2>1, <2>3, Keeps
<1>13. ASSUME CloseCheck PROVE Ordered'
  BY <1>13, Stays DEF CloseCheck
<1>14. ASSUME CloseQueues PROVE Ordered'
  BY <1>14, Stays DEF CloseQueues
<1>15. ASSUME CloseDrains PROVE Ordered'
  <2>1. CASE dataq # <<>> /\ dataq' = Tail(dataq)
    <3>1. UNCHANGED <<wire, todo, batch, got, sent, raced>>
      BY <1>15 DEF CloseDrains
    <3>2. ASSUME NEW e \in Data, NEW f \in Data PROVE (Known(e)' => Known(e)) /\ (Ahead(e, f)' => Ahead(e, f))
      <4>1. /\ Has(dataq, e) <=> (Head(dataq) = e \/ Has(Tail(dataq), e))
            /\ Has(dataq, f) <=> (Head(dataq) = f \/ Has(Tail(dataq), f))
            /\ Before(dataq, e, f) <=> ((Head(dataq) = e /\ Has(Tail(dataq), f)) \/ Before(Tail(dataq), e, f))
        BY <2>1, TailOrder DEF FWTyped
      <4> QED
        BY <2>1, <3>1, <4>1 DEF Known, Ahead
    <3> QED
      BY <3>1, <3>2, Keeps
  <2>2. CASE UNCHANGED dataq
    BY <1>15, <2>2, Stays DEF CloseDrains
  <2> QED
    BY <1>15, <2>1, <2>2 DEF CloseDrains
<1>16. ASSUME FlushCheck PROVE Ordered'
  BY <1>16, Stays DEF FlushCheck
<1>17. ASSUME FlushTakes PROVE Ordered'
  <2>1. CASE dataq # <<>>
    <3>1. /\ batch' = Append(batch, Head(dataq)) /\ dataq' = Tail(dataq) /\ Head(dataq) \in Data
          /\ raced' = (raced \/ at = "data") /\ UNCHANGED <<wire, todo, got, sent>>
      BY <1>17, <2>1, HeadTailIs DEF FlushTakes, FWTyped
    <3>2. ASSUME NEW e \in Data, NEW f \in Data
          PROVE  (Known(e)' => Known(e)) /\ (at = "data" \/ (Ahead(e, f)' => Ahead(e, f)))
      <4>1. /\ Has(dataq, e) <=> (Head(dataq) = e \/ Has(Tail(dataq), e))
            /\ Has(dataq, f) <=> (Head(dataq) = f \/ Has(Tail(dataq), f))
            /\ Before(dataq, e, f) <=> ((Head(dataq) = e /\ Has(Tail(dataq), f)) \/ Before(Tail(dataq), e, f))
        BY <2>1, TailOrder DEF FWTyped
      <4>2. \A x, y :
            /\ Has(Append(batch, Head(dataq)), x) <=> (Has(batch, x) \/ Head(dataq) = x)
            /\ Before(Append(batch, Head(dataq)), x, y) <=> (Before(batch, x, y) \/ (Has(batch, x) /\ Head(dataq) = y))
        BY <3>1, AppendOrder DEF FWTyped
      <4>4. /\ Has(Append(batch, Head(dataq)), e) <=> (Has(batch, e) \/ Head(dataq) = e)
            /\ Has(Append(batch, Head(dataq)), f) <=> (Has(batch, f) \/ Head(dataq) = f)
            /\ Before(Append(batch, Head(dataq)), e, f) <=> (Before(batch, e, f) \/ (Has(batch, e) /\ Head(dataq) = f))
        BY <4>2
      <4>3. at # "data" => got # e /\ got # f
        BY DEF FWTyped, Frame
      <4> QED
        BY <3>1, <4>1, <4>4, <4>3 DEF Known, Ahead
    <3> QED
      BY <3>1, <3>2 DEF Ordered
  <2>2. CASE dataq = <<>>
    <3>1. todo = <<>> /\ todo' = batch /\ batch' = <<>> /\ UNCHANGED <<wire, dataq, got, sent, raced>>
      BY <1>17, <2>2 DEF FlushTakes, FWTyped
    <3>2. ASSUME NEW e \in Data, NEW f \in Data PROVE (Known(e)' => Known(e)) /\ (Ahead(e, f)' => Ahead(e, f))
      <4>1. ~Has(<<>>, e) /\ ~Has(<<>>, f) /\ ~Before(<<>>, e, f)
        BY NoOrder
      <4> QED
        BY <3>1, <4>1 DEF Known, Ahead
    <3> QED
      BY <3>1, <3>2, Keeps
  <2> QED
    BY <2>1, <2>2
<1>18. ASSUME FlushUnlocks PROVE Ordered'
  BY <1>18, Stays DEF FlushUnlocks
<1>19. ASSUME ToggleFlag PROVE Ordered'
  BY <1>19, Stays DEF ToggleFlag
<1>20. ASSUME ToggleSignal PROVE Ordered'
  BY <1>20, Stays DEF ToggleSignal
<1>21. ASSUME NEW f \in Frame, CallCheck(f) PROVE Ordered'
  BY <1>21, Stays DEF CallCheck
<1>22. ASSUME NEW f \in Frame, Enter(f) PROVE Ordered'
  <2>1. CASE UNCHANGED <<dataq, sent>>
    BY <1>22, <2>1, Stays DEF Enter
  <2>2. CASE f \in Data /\ dataq' = Append(dataq, f) /\ sent' = Append(sent, f)
    <3>1. UNCHANGED <<wire, todo, batch, got, raced>>
      BY <1>22 DEF Enter
    <3>2. ASSUME NEW d \in Data, NEW e \in Data
          PROVE  /\ (Known(d)' => Known(d) \/ d = f)
                 /\ (Ahead(d, e)' => Ahead(d, e) \/ (Known(d) /\ e = f))
                 /\ (Has(Append(sent, f), d) <=> (Has(sent, d) \/ d = f))
                 /\ (Before(Append(sent, f), d, e) <=> (Before(sent, d, e) \/ (Has(sent, d) /\ f = e)))
      <4>1. \A x, y :
            /\ Has(Append(dataq, f), x) <=> (Has(dataq, x) \/ f = x)
            /\ Before(Append(dataq, f), x, y) <=> (Before(dataq, x, y) \/ (Has(dataq, x) /\ f = y))
        BY <2>2, AppendOrder DEF FWTyped
      <4>3. /\ Has(Append(dataq, f), d) <=> (Has(dataq, d) \/ f = d)
            /\ Has(Append(dataq, f), e) <=> (Has(dataq, e) \/ f = e)
            /\ Before(Append(dataq, f), d, e) <=> (Before(dataq, d, e) \/ (Has(dataq, d) /\ f = e))
        BY <4>1
      <4>2. /\ Has(Append(sent, f), d) <=> (Has(sent, d) \/ f = d)
            /\ Before(Append(sent, f), d, e) <=> (Before(sent, d, e) \/ (Has(sent, d) /\ f = e))
        BY <2>2, AppendOrder DEF FWTyped
      <4> QED
        BY <2>2, <3>1, <4>2, <4>3 DEF Known, Ahead
    <3> QED
      BY <2>2, <3>1, <3>2 DEF Ordered
  <2> QED
    BY <1>22, <2>1, <2>2 DEF Enter
<1>23. ASSUME NEW f \in Frame, SendPanics(f) PROVE Ordered'
  BY <1>23, Stays DEF SendPanics
<1>24. ASSUME NEW f \in Frame, GivesUp(f) PROVE Ordered'
  BY <1>24, Stays DEF GivesUp
<1>25. ASSUME UNCHANGED fwvars PROVE Ordered'
  BY <1>25, Stays DEF fwvars
<1> QED
  BY <1>1, <1>2, <1>3, <1>4, <1>5, <1>6, <1>7, <1>8, <1>9, <1>10, <1>11, <1>12, <1>13,
     <1>14, <1>15, <1>16, <1>17, <1>18, <1>19, <1>20, <1>21, <1>22, <1>23, <1>24, <1>25 DEF FWStep, LoopRuns, Closes, Flushes, Calling

-----------------------------------------------------------------------------
(* Theorems                                                                *)

WriterInv == FWTyped /\ Counted /\ Ordered

LEMMA InitWriter == FWInit => WriterInv
BY InitFWTyped, InitCounted, InitOrdered DEF WriterInv

LEMMA NextWriter == WriterInv /\ [FWStep]_fwvars => WriterInv'
BY NextFWTyped, NextCounted, NextOrdered DEF WriterInv

LEMMA WriterIs == WriterInv => CountedOnce /\ InOrder
BY CountedIsOnce, OrderedIsInOrder DEF WriterInv

\* Whatever callers, the loop, its ticker and heartbeats, Flush, Close and a
\* failing connection do, in any order: a frame that was queued is in one place
\* or was given back once, the counter counts those, and data frames are
\* written in the order they were queued.
THEOREM FramesAreSafe == FWSpec => [](CountedOnce /\ InOrder)
BY InitWriter, NextWriter, WriterIs, PTL DEF FWSpec

\* In the scenes of MCQueues the answer the reader sends is a control frame,
\* so that each step there is one of the writer's.
AckTyped == reader = "ack" => ack \in Control

LEMMA SceneStep == AckTyped /\ [MCNext]_<<vars, loopvars, scene>> => AckTyped' /\ [FWStep]_fwvars
<1> SUFFICES ASSUME AckTyped, [MCNext]_<<vars, loopvars, scene>> PROVE AckTyped' /\ [FWStep]_fwvars
  OBVIOUS
<1> USE DEF AckTyped, loopvars, connvars
<1>1. CASE UNCHANGED <<vars, loopvars, scene>>
  BY <1>1
<1>2. CASE UNCHANGED loopvars
  BY <1>2
<1>3. ASSUME UNCHANGED connvars,
             \/ LoopRuns \/ Tick \/ CloseCheck \/ Closes \/ WriteOk \/ WriteFails
             \/ \E f \in {f1, f2, c1} : CallCheck(f) \/ Calling(f)
             \/ FlushCheck \/ Flushes \/ HeartbeatTick \/ ToggleFlag \/ ToggleSignal
      PROVE  AckTyped' /\ FWStep
  BY <1>3, MCQueuesAssumption DEF FWStep
<1>4. ASSUME FLStep PROVE AckTyped' /\ [FWStep]_fwvars
  <2>1. CASE PeerChanges \/ ReadEnds \/ ReaderOver \/ CloseBegins \/ SetDeadline \/ CloseConn
    BY <2>1 DEF PeerChanges, ReadEnds, ReaderOver, CloseBegins, SetDeadline, CloseConn
  <2>2. CASE ConnTakes \/ ConnFails \/ WriterRuns \/ CloseWriter
    BY <2>2 DEF ConnTakes, ConnFails, WriterRuns, CloseWriter, FWStep
  <2>3. CASE SendAck
    BY <2>3 DEF SendAck, FWStep, Frame
  <2>4. CASE Acked
    BY <2>4 DEF Acked
  <2>5. CASE \E f \in Control : ReadHeartbeat(f)
    BY <2>5 DEF ReadHeartbeat
  <2> QED
    BY <1>4, <2>1, <2>2, <2>3, <2>4, <2>5 DEF FLStep, CloseGoesOn
<1> QED
  <2>1. CASE scene = "pool" /\ Next /\ UNCHANGED loopvars
    BY <1>2, <2>1
  <2>2. CASE /\ scene \notin {"pool", "frames"} /\ UNCHANGED <<vars, connvars>>
             /\ \/ LoopRuns \/ Tick \/ CloseCheck \/ Closes \/ WriteOk
                \/ ~failed /\ WriteFails
                \/ \E f \in IF scene = "beats" THEN {f1} ELSE {f1, f2, c1} : CallCheck(f) \/ Calling(f)
                \/ scene = "writer" /\ (FlushCheck \/ Flushes)
                \/ scene = "beats" /\ (HeartbeatTick \/ ToggleFlag \/ ToggleSignal)
    <3>1. (IF scene = "beats" THEN {f1} ELSE {f1, f2, c1}) \subseteq {f1, f2, c1}
      OBVIOUS
    <3> QED
      BY <1>3, <2>2, <3>1
  <2>3. CASE scene = "frames" /\ FLStep /\ UNCHANGED vars
    BY <1>4, <2>3
  <2> QED
    BY <1>1, <2>1, <2>2, <2>3 DEF MCNext

LEMMA InitScene == MCInit => AckTyped /\ FWInit
BY DEF MCInit, FLInit, AckTyped

LEMMA SceneWriter == MCSpec => []WriterInv
<1>1. AckTyped /\ WriterInv /\ [MCNext]_<<vars, loopvars, scene>> => (AckTyped /\ WriterInv)'
  BY SceneStep, NextWriter
<1>2. MCInit => AckTyped /\ WriterInv
  BY InitScene, InitWriter
<1> QED
  BY <1>1, <1>2, PTL DEF MCSpec

\* The same in the scenes that are model-checked: a frame that was queued is in
\* one place or was given back once, and the counter of the backlog is exact.
THEOREM FramesCounted == MCSpec => []CountedOnce
BY SceneWriter, WriterIs, PTL

\* Data frames reach the connection in the order they were queued.
THEOREM FramesInOrder == MCSpec => []InOrder
BY SceneWriter, WriterIs, PTL

=============================================================================
