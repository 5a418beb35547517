--------------------------- MODULE RateLimiterProofs ---------------------------
(***************************************************************************)
(* Theorems about RateLimiter: for any number of requests, slots and any   *)
(* interval no slot is lost and no burst is larger than the slots allow.   *)
(***************************************************************************)
EXTENDS RateLimiter, FiniteSetTheorems, SequenceTheorems, TLAPS

\* Nobody waits twice.
LineInv == \A i, j \in DOMAIN line : line[i] = line[j] => i = j

SlotInv == TypeOK /\ LineInv /\ SlotsConserved

\* A set of requests of this specification is finite.
LEMMA RequestSets ==
  ASSUME NEW S, S \subseteq Requests
  PROVE  IsFiniteSet(S) /\ Cardinality(S) \in Nat
  BY LimitsAssumption, FS_Subset, FS_CardinalityType

\* A sequence with one element taken out.
LEMMA TakenOut ==
  ASSUME NEW S, NEW s \in Seq(S), NEW i \in 1 .. Len(s)
  PROVE  LET t == SubSeq(s, 1, i - 1) \o SubSeq(s, i + 1, Len(s))
         IN  /\ t \in Seq(S) /\ Len(t) = Len(s) - 1
             /\ \A j \in 1 .. Len(t) : t[j] = IF j < i THEN s[j] ELSE s[j + 1]
  <1> DEFINE a == SubSeq(s, 1, i - 1)
             b == SubSeq(s, i + 1, Len(s))
  <1>1. /\ a \in Seq(S) /\ Len(a) = i - 1
        /\ \A j \in 1 .. i - 1 : a[j] = s[j]
    BY SubSeqProperties
  <1>2. /\ b \in Seq(S) /\ Len(b) = Len(s) - i
        /\ \A j \in 1 .. Len(s) - i : b[j] = s[i + j]
    BY SubSeqProperties
  <1>3. Len(s) \in Nat /\ i \in Nat
    BY LenProperties
  <1>4. a \o b \in Seq(S) /\ Len(a \o b) = Len(s) - 1
    <2> HIDE DEF a, b
    <2>1. a \o b \in Seq(S) /\ Len(a \o b) = Len(a) + Len(b)
      BY <1>1, <1>2, ConcatProperties, Zenon
    <2>2. Len(a) + Len(b) = Len(s) - 1
      BY <1>1, <1>2, <1>3
    <2> QED BY <2>1, <2>2
  <1>5. \A j \in 1 .. Len(s) - 1 : (a \o b)[j] = IF j <= i - 1 THEN a[j] ELSE b[j - (i - 1)]
    <2> HIDE DEF a, b
    <2>1. \A j \in 1 .. Len(a) + Len(b) :
            (a \o b)[j] = IF j <= Len(a) THEN a[j] ELSE b[j - Len(a)]
      BY <1>1, <1>2, ConcatProperties
    <2> QED BY <1>1, <1>2, <1>3, <2>1
  <1>6. ASSUME NEW j \in 1 .. Len(s) - 1
        PROVE  (a \o b)[j] = IF j < i THEN s[j] ELSE s[j + 1]
    <2> HIDE DEF a, b
    <2>1. CASE j < i
      BY <1>1, <1>3, <1>5, <2>1
    <2>2. CASE ~(j < i)
      <3>1. ~(j <= i - 1) /\ j - (i - 1) \in 1 .. Len(s) - i
        BY <1>3, <2>2
      <3>2. (a \o b)[j] = b[j - (i - 1)]
        BY <1>5, <3>1
      <3>3. b[j - (i - 1)] = s[i + (j - (i - 1))] /\ i + (j - (i - 1)) = j + 1
        BY <1>2, <1>3, <3>1
      <3> QED BY <2>2, <3>2, <3>3
    <2> QED BY <2>1, <2>2
  <1> QED BY <1>4, <1>6

\* What a claim does to the slots.
LEMMA ClaimHolds ==
  ASSUME TypeOK, NEW r \in Requests, r \notin Holding, sleeping \cap sending = {},
         Claim(r)
  PROVE  /\ Holding' = Holding \cup {r}
         /\ sleeping' \subseteq Requests /\ sending' \subseteq Requests
         /\ sleeping' \cap sending' = {}
         /\ Cardinality(Holding') = Cardinality(Holding) + 1
         /\ delay' \in [Requests -> Nat] /\ ahead' \in Nat /\ load' \in Nat
  <1>1. /\ Holding' = Holding \cup {r}
        /\ sleeping' \subseteq Requests /\ sending' \subseteq Requests
        /\ sleeping' \cap sending' = {}
    BY DEF Claim, Holding, TypeOK
  <1>2. Cardinality(Holding') = Cardinality(Holding) + 1
    BY <1>1, RequestSets, FS_AddElement DEF Holding, TypeOK
  <1>3. delay' \in [Requests -> Nat] /\ ahead' \in Nat /\ load' \in Nat
    BY LimitsAssumption DEF Claim, TypeOK
  <1> QED BY <1>1, <1>2, <1>3

\* The slot invariant is inductive.
LEMMA SlotStep == SlotInv /\ [Next]_vars => SlotInv'
  <1> SUFFICES ASSUME SlotInv, [Next]_vars PROVE SlotInv'
    OBVIOUS
  <1> USE DEF SlotInv, SlotsConserved
  <1>h. Cardinality(Holding) \in Nat /\ IsFiniteSet(Holding)
    BY RequestSets DEF Holding, TypeOK
  <1>1. ASSUME NEW r \in Requests, Enter(r) PROVE SlotInv'
    <2>1. r \notin Holding /\ Claim(r) /\ line' = line /\ InLine' = InLine
      BY <1>1 DEF Enter, Idle, InLine
    <2>2. free > 0 /\ free' = free - 1 /\ r \notin InLine
      BY <1>1 DEF Enter, Idle
    <2> QED BY <1>h, <2>1, <2>2, ClaimHolds, LimitsAssumption DEF TypeOK, LineInv
  <1>2. ASSUME NEW r \in Requests, Wait(r) PROVE SlotInv'
    <2>1. r \notin InLine /\ r \notin Holding /\ line' = Append(line, r) /\ Holding' = Holding
      BY <1>2 DEF Wait, Idle, Holding
    <2>2. TypeOK'
      BY <1>2 DEF Wait, TypeOK
    <2>3. LineInv'
      BY <2>1 DEF LineInv, InLine, TypeOK
    <2>4. InLine' \subseteq InLine \cup {r}
      BY <2>1 DEF InLine, TypeOK
    <2> QED BY <1>2, <2>1, <2>2, <2>3, <2>4 DEF Wait
  <1>3. ASSUME NEW r \in Requests, Start(r) PROVE SlotInv'
    <2>1. Holding' = Holding /\ InLine' = InLine
      BY <1>3 DEF Start, Holding, InLine
    <2>2. TypeOK'
      BY <1>3, LimitsAssumption DEF Start, TypeOK
    <2> QED BY <1>3, <2>1, <2>2 DEF Start, LineInv
  <1>4. ASSUME NEW r \in Requests, CancelWaiting(r) PROVE SlotInv'
    <2> PICK i \in DOMAIN line :
          line' = SubSeq(line, 1, i - 1) \o SubSeq(line, i + 1, Len(line))
      BY <1>4 DEF CancelWaiting
    <2>1. line \in Seq(Requests) /\ i \in 1 .. Len(line)
      BY DEF TypeOK
    <2>2. line' \in Seq(Requests) /\ Len(line') = Len(line) - 1
      BY <2>1, TakenOut
    <2>3. /\ DOMAIN line' = 1 .. Len(line') /\ DOMAIN line = 1 .. Len(line)
          /\ Len(line) \in Nat /\ i \in Nat
      BY <2>1, <2>2, LenProperties
    <2>4. \A j \in DOMAIN line' : line'[j] = IF j < i THEN line[j] ELSE line[j + 1]
      <3> DEFINE t == SubSeq(line, 1, i - 1) \o SubSeq(line, i + 1, Len(line))
      <3>1. \A j \in 1 .. Len(t) : t[j] = IF j < i THEN line[j] ELSE line[j + 1]
        BY <2>1, TakenOut
      <3>2. line' = t
        OBVIOUS
      <3> QED BY <2>3, <3>1, <3>2
    <2>5. TypeOK'
      BY <1>4, <2>2 DEF CancelWaiting, TypeOK
    <2> DEFINE was(j) == IF j < i THEN j ELSE j + 1
    <2>6. ASSUME NEW j \in DOMAIN line'
          PROVE  was(j) \in DOMAIN line /\ line'[j] = line[was(j)]
      <3>1. j \in 1 .. Len(line) - 1
        BY <2>2, <2>3
      <3>2. was(j) \in 1 .. Len(line)
        BY <2>3, <3>1
      <3>3. line'[j] = line[was(j)]
        BY <2>4
      <3> QED BY <2>3, <3>2, <3>3
    <2>7. \A j, k \in DOMAIN line' : was(j) = was(k) => j = k
      BY <2>2, <2>3
    <2> HIDE DEF was
    <2>8. ASSUME NEW j \in DOMAIN line', NEW k \in DOMAIN line', line'[j] = line'[k]
          PROVE  j = k
      <3>1. was(j) = was(k)
        BY <2>8, <2>6 DEF LineInv
      <3> QED BY <2>7, <3>1
    <2>9. InLine' \subseteq InLine
      BY <2>6 DEF InLine
    <2>10. Holding' = Holding
      BY <1>4 DEF CancelWaiting, Holding
    <2> QED BY <1>4, <2>5, <2>8, <2>9, <2>10 DEF CancelWaiting, LineInv
  <1>5. ASSUME NEW r \in Requests, CancelSleeping(r) PROVE SlotInv'
    <2>1. Holding' = Holding \ {r} /\ r \in Holding /\ InLine' = InLine
      BY <1>5 DEF CancelSleeping, Holding, InLine
    <2>2. Cardinality(Holding') = Cardinality(Holding) - 1
      BY <1>h, <2>1, FS_RemoveElement
    <2>3. free' + Cardinality(Holding') = MaxConcurrent
      BY <1>5, <1>h, <2>2, LimitsAssumption DEF CancelSleeping, TypeOK
    <2>4. Cardinality(Holding') \in Nat
      BY <1>h, <2>1, FS_RemoveElement, FS_CardinalityType
    <2>5. TypeOK'
      BY <1>5, <2>3, <2>4, LimitsAssumption DEF CancelSleeping, TypeOK
    <2> QED BY <1>5, <2>1, <2>3, <2>5 DEF CancelSleeping, LineInv
  <1>6. ASSUME NEW r \in Requests, Leave(r) PROVE SlotInv'
    <2>1. Holding' = Holding \ {r} /\ r \in Holding /\ InLine' = InLine
      BY <1>6 DEF Leave, Holding, InLine
    <2>2. Cardinality(Holding') = Cardinality(Holding) - 1
      BY <1>h, <2>1, FS_RemoveElement
    <2>3. free' + Cardinality(Holding') = MaxConcurrent
      BY <1>6, <1>h, <2>2, LimitsAssumption DEF Leave, TypeOK
    <2>4. Cardinality(Holding') \in Nat
      BY <1>h, <2>1, FS_RemoveElement, FS_CardinalityType
    <2>5. TypeOK'
      BY <1>6, <2>3, <2>4, LimitsAssumption DEF Leave, TypeOK
    <2> QED BY <1>6, <2>1, <2>3, <2>5 DEF Leave, LineInv
  <1>7. CASE Admit
    <2> DEFINE r == Head(line)
    <2>1. r \in Requests /\ r \in InLine
      BY <1>7 DEF Admit, InLine, TypeOK
    <2>2. line' \in Seq(Requests) /\ Len(line') = Len(line) - 1
      BY <1>7 DEF Admit, TypeOK
    <2>3. \A j \in DOMAIN line' : line'[j] = line[j + 1] /\ j + 1 \in DOMAIN line
      BY <1>7 DEF Admit, TypeOK
    <2>4. LineInv'
      BY <2>2, <2>3 DEF LineInv, TypeOK
    <2>5. InLine' \subseteq InLine \ {r}
      BY <1>7, <2>2, <2>3 DEF Admit, InLine, LineInv, TypeOK
    <2>6. r \notin Holding /\ Claim(r) /\ free > 0 /\ free' = free - 1
      BY <1>7, <2>1 DEF Admit
    <2>7. /\ Holding' = Holding \cup {r}
          /\ sleeping' \subseteq Requests /\ sending' \subseteq Requests
          /\ sleeping' \cap sending' = {}
          /\ Cardinality(Holding') = Cardinality(Holding) + 1
          /\ delay' \in [Requests -> Nat] /\ ahead' \in Nat /\ load' \in Nat
      BY <2>1, <2>6, ClaimHolds
    <2> HIDE DEF r
    <2> QED BY <1>h, <2>2, <2>4, <2>5, <2>6, <2>7, LimitsAssumption DEF TypeOK
  <1>8. CASE Tick
    <2>1. Holding' = Holding /\ InLine' = InLine
      BY <1>8 DEF Tick, Holding, InLine
    <2>2. TypeOK'
      BY <1>8 DEF Tick, TypeOK, Less
    <2> QED BY <1>8, <2>1, <2>2 DEF Tick, LineInv
  <1>9. CASE UNCHANGED vars
    BY <1>9 DEF vars, TypeOK, LineInv, InLine, Holding
  <1> QED
    BY <1>1, <1>2, <1>3, <1>4, <1>5, <1>6, <1>7, <1>8, <1>9 DEF Next

\* The slot invariant holds at the start.
LEMMA SlotInit == Init => SlotInv
  BY LimitsAssumption, FS_EmptySet
  DEF Init, SlotInv, TypeOK, LineInv, SlotsConserved, InLine, Holding

\* Every variable keeps its type.
THEOREM LimiterTypeCorrect == Spec => []TypeOK
  <1>1. SlotInv => TypeOK
    BY DEF SlotInv
  <1> QED BY <1>1, SlotInit, SlotStep, PTL DEF Spec

\* No cancellation, failure or late wake-up loses a slot of the semaphore.
THEOREM SlotsAlwaysConserved == Spec => []SlotsConserved
  <1>1. SlotInv => SlotsConserved
    BY DEF SlotInv
  <1> QED BY <1>1, SlotInit, SlotStep, PTL DEF Spec

-------------------------------------------------------------------------------
(* The bound on bursts. A sleeper is a start that is still to be paid for,  *)
(* so it counts like one; a turn that lies ahead pays for one more. What a  *)
(* late sleeper may still use is bounded for every horizon x apart, because *)
(* cancelled sleepers leave their turns ahead and nobody uses them.         *)

Cost(S) == MinInterval * Cardinality(S)

Full == MinInterval * MaxConcurrent

Due(x) == {r \in sleeping : delay[r] <= x}

BurstInv ==
    /\ SlotInv
    /\ load + Cost(sleeping) <= ahead + Full
    /\ \A x \in Nat : load + Cost(Due(x)) <= x + Full + MinInterval

\* The cost of a set grows by one interval with each member.
LEMMA CostFacts ==
  ASSUME NEW S, S \subseteq Requests
  PROVE  /\ Cost(S) \in Nat
         /\ \A r \in Requests \ S : Cost(S \cup {r}) = Cost(S) + MinInterval
         /\ \A r \in S : Cost(S \ {r}) = Cost(S) - MinInterval
         /\ \A T : T \subseteq S => Cost(T) <= Cost(S)
  <1>1. IsFiniteSet(S) /\ Cardinality(S) \in Nat /\ MinInterval \in Nat
    BY RequestSets, LimitsAssumption
  <1>2. \A n \in Nat : /\ MinInterval * n \in Nat
                     /\ MinInterval * (n + 1) = MinInterval * n + MinInterval
    BY <1>1
  <1>3. \A m, n \in Nat : m <= n => MinInterval * m <= MinInterval * n
    BY <1>1
  <1>4. ASSUME NEW r \in Requests \ S PROVE Cost(S \cup {r}) = Cost(S) + MinInterval
    <2>1. Cardinality(S \cup {r}) = Cardinality(S) + 1
      BY <1>1, FS_AddElement
    <2> QED BY <1>1, <1>2, <2>1 DEF Cost
  <1>5. ASSUME NEW r \in S PROVE Cost(S \ {r}) = Cost(S) - MinInterval
    <2>1. Cardinality(S \ {r}) = Cardinality(S) - 1 /\ Cardinality(S \ {r}) \in Nat
      BY <1>1, FS_RemoveElement, FS_CardinalityType
    <2>2. Cost(S) = Cost(S \ {r}) + MinInterval
      BY <1>1, <1>2, <2>1 DEF Cost
    <2> QED BY <1>1, <1>2, <2>1, <2>2 DEF Cost
  <1>6. ASSUME NEW T, T \subseteq S PROVE Cost(T) <= Cost(S)
    <2>1. Cardinality(T) \in Nat /\ Cardinality(T) <= Cardinality(S)
      BY <1>1, <1>6, FS_Subset, FS_CardinalityType
    <2> QED BY <1>1, <1>3, <2>1 DEF Cost
  <1> QED BY <1>1, <1>2, <1>4, <1>5, <1>6 DEF Cost

\* No more than the slots sleep.
LEMMA SleepersBounded ==
  ASSUME SlotInv
  PROVE  Cost(sleeping) <= Full /\ Full \in Nat
  <1>1. Cardinality(sleeping) \in Nat /\ Cardinality(Holding) \in Nat
        /\ Cardinality(sleeping) <= Cardinality(Holding)
    BY RequestSets, FS_Subset DEF SlotInv, TypeOK, Holding
  <1>2. Cardinality(Holding) <= MaxConcurrent
    BY <1>1, LimitsAssumption DEF SlotInv, SlotsConserved, TypeOK
  <1>3. Cardinality(sleeping) <= MaxConcurrent
    BY <1>1, <1>2, LimitsAssumption
  <1>4. MinInterval \in Nat /\ MaxConcurrent \in Nat
    BY LimitsAssumption
  <1> QED BY <1>1, <1>3, <1>4 DEF Cost, Full

\* A claim keeps the bound.
LEMMA ClaimBurst ==
  ASSUME BurstInv, NEW r \in Requests, r \notin sleeping, Claim(r)
  PROVE  /\ load' + Cost(sleeping') <= ahead' + Full
         /\ \A x \in Nat : load' + Cost(Due(x)') <= x + Full + MinInterval
  <1>t. /\ load \in Nat /\ ahead \in Nat /\ MinInterval \in Nat /\ Full \in Nat
        /\ sleeping \subseteq Requests /\ Cost(sleeping) \in Nat
        /\ delay \in [Requests -> Nat]
    BY LimitsAssumption, SleepersBounded, CostFacts DEF BurstInv, SlotInv, TypeOK
  <1>1. CASE ahead = 0
    <2>1. /\ sleeping' = sleeping /\ load' = load + MinInterval
          /\ delay' = delay /\ ahead' = MinInterval
      BY <1>t, <1>1 DEF Claim
    <2>2. load' + Cost(sleeping') <= ahead' + Full
      BY <1>t, <1>1, <2>1 DEF BurstInv
    <2>3. ASSUME NEW x \in Nat PROVE load' + Cost(Due(x)') <= x + Full + MinInterval
      <3>1. Due(x)' = Due(x) /\ Due(x) \subseteq sleeping
        BY <2>1 DEF Due
      <3>2. Cost(Due(x)) \in Nat /\ Cost(Due(x)) <= Cost(sleeping)
        BY <1>t, <3>1, CostFacts
      <3> QED BY <1>t, <1>1, <2>1, <3>1, <3>2 DEF BurstInv
    <2> QED BY <2>2, <2>3
  <1>2. CASE ahead # 0
    <2>1. /\ sleeping' = sleeping \cup {r} /\ load' = load
          /\ delay' = [delay EXCEPT ![r] = ahead] /\ ahead' = ahead + MinInterval
      BY <1>2 DEF Claim
    <2>2. Cost(sleeping') = Cost(sleeping) + MinInterval /\ Cost(sleeping') \in Nat
      BY <1>t, <2>1, CostFacts
    <2>3. load' + Cost(sleeping') <= ahead' + Full
      BY <1>t, <2>1, <2>2 DEF BurstInv
    <2>4. ASSUME NEW x \in Nat PROVE load' + Cost(Due(x)') <= x + Full + MinInterval
      <3>1. CASE x < ahead
        <4>1. Due(x)' = Due(x)
          BY <1>t, <2>1, <3>1 DEF Due
        <4> QED BY <2>1, <4>1 DEF BurstInv
      <3>2. CASE ~(x < ahead)
        <4>1. Due(x)' \subseteq sleeping' /\ sleeping' \subseteq Requests
          BY <1>t, <2>1 DEF Due
        <4>2. Cost(Due(x)') \in Nat /\ Cost(Due(x)') <= Cost(sleeping')
          BY <4>1, CostFacts
        <4> QED BY <1>t, <2>1, <2>2, <3>2, <4>2 DEF BurstInv
      <3> QED BY <3>1, <3>2
    <2> QED BY <2>3, <2>4
  <1> QED BY <1>1, <1>2

\* The bound on bursts is inductive.
LEMMA BurstStep == BurstInv /\ [Next]_vars => BurstInv'
  <1> SUFFICES ASSUME BurstInv, [Next]_vars PROVE BurstInv'
    OBVIOUS
  <1>s. SlotInv /\ SlotInv'
    BY SlotStep DEF BurstInv
  <1>t. /\ load \in Nat /\ ahead \in Nat /\ MinInterval \in Nat /\ Full \in Nat
        /\ sleeping \subseteq Requests /\ Cost(sleeping) \in Nat
        /\ delay \in [Requests -> Nat]
    BY <1>s, LimitsAssumption, SleepersBounded, CostFacts DEF SlotInv, TypeOK
  <1>d. \A x : Due(x) \subseteq sleeping /\ Cost(Due(x)) \in Nat /\ Cost(Due(x)) <= Cost(sleeping)
    <2>1. \A x : Due(x) \subseteq sleeping
      BY DEF Due
    <2> QED BY <1>t, <2>1, CostFacts
  <1>1. ASSUME NEW r \in Requests, Enter(r) PROVE BurstInv'
    <2>1. r \notin sleeping /\ Claim(r)
      BY <1>1 DEF Enter, Idle, Holding
    <2> QED BY <1>s, <2>1, ClaimBurst DEF BurstInv
  <1>2. ASSUME NEW r \in Requests, Start(r) PROVE BurstInv'
    <2>1. /\ r \in sleeping /\ delay[r] = 0 /\ sleeping' = sleeping \ {r}
          /\ load' = load + MinInterval /\ delay' = delay /\ ahead' = ahead
      BY <1>2 DEF Start
    <2>2. Cost(sleeping') = Cost(sleeping) - MinInterval
      BY <1>t, <2>1, CostFacts
    <2>3. ASSUME NEW x \in Nat PROVE load' + Cost(Due(x)') <= x + Full + MinInterval
      <3>1. Due(x)' = Due(x) \ {r} /\ r \in Due(x)
        BY <2>1 DEF Due
      <3>2. Cost(Due(x)') = Cost(Due(x)) - MinInterval
        BY <1>t, <1>d, <3>1, CostFacts
      <3> QED BY <1>t, <1>d, <2>1, <3>2 DEF BurstInv
    <2> QED BY <1>s, <1>t, <2>1, <2>2, <2>3 DEF BurstInv
  <1>3. ASSUME NEW r \in Requests, CancelSleeping(r) PROVE BurstInv'
    <2>1. /\ sleeping' = sleeping \ {r} /\ load' = load /\ ahead' = ahead
          /\ \A q \in sleeping' : delay'[q] = delay[q]
      BY <1>3, <1>t DEF CancelSleeping
    <2>2. Cost(sleeping') \in Nat /\ Cost(sleeping') <= Cost(sleeping)
      BY <1>t, <2>1, CostFacts
    <2>3. ASSUME NEW x \in Nat PROVE load' + Cost(Due(x)') <= x + Full + MinInterval
      <3>1. Due(x)' \subseteq Due(x) /\ Due(x) \subseteq Requests
        BY <1>t, <1>d, <2>1 DEF Due
      <3>2. Cost(Due(x)') \in Nat /\ Cost(Due(x)') <= Cost(Due(x))
        BY <3>1, CostFacts
      <3> QED BY <1>t, <1>d, <2>1, <3>2 DEF BurstInv
    <2> QED BY <1>s, <1>t, <2>1, <2>2, <2>3 DEF BurstInv
  <1>4. CASE Admit
    <2>1. Head(line) \in Requests /\ Head(line) \in InLine /\ Claim(Head(line))
      BY <1>4, <1>s DEF Admit, InLine, SlotInv, TypeOK
    <2>2. Head(line) \notin sleeping
      BY <1>s, <2>1 DEF SlotInv, SlotsConserved, Holding
    <2> QED BY <1>s, <2>1, <2>2, ClaimBurst DEF BurstInv
  <1>5. CASE Tick
    <2>1. /\ sleeping' = sleeping /\ ahead' = Less(ahead, 1) /\ load' = Less(load, 1)
          /\ \A q \in sleeping : delay'[q] = Less(delay[q], 1)
      BY <1>5, <1>t DEF Tick
    <2>2. Cost(sleeping) <= Full
      BY <1>s, SleepersBounded
    <2>3. load' + Cost(sleeping') <= ahead' + Full
      BY <1>t, <2>1, <2>2 DEF BurstInv, Less
    <2>4. ASSUME NEW x \in Nat PROVE load' + Cost(Due(x)') <= x + Full + MinInterval
      <3>1. Due(x)' = Due(x + 1)
        BY <1>t, <2>1 DEF Due, Less
      <3>2. load + Cost(Due(x + 1)) <= (x + 1) + Full + MinInterval
        BY DEF BurstInv
      <3> QED BY <1>t, <1>d, <2>1, <2>2, <3>1, <3>2 DEF Less
    <2> QED BY <1>s, <2>3, <2>4 DEF BurstInv
  <1>6. CASE UNCHANGED <<sleeping, delay, ahead, load>>
    <2>1. Cost(sleeping') = Cost(sleeping) /\ \A x : Cost(Due(x)') = Cost(Due(x))
      BY <1>6 DEF Due
    <2> QED BY <1>s, <1>6, <2>1 DEF BurstInv
  <1> QED
    BY <1>1, <1>2, <1>3, <1>4, <1>5, <1>6 DEF Next, Wait, CancelWaiting, Leave, vars

\* The bound on bursts holds at the start.
LEMMA BurstInit == Init => BurstInv
  <1> SUFFICES ASSUME Init PROVE BurstInv
    OBVIOUS
  <1>1. SlotInv /\ load = 0 /\ ahead = 0 /\ sleeping = {}
    BY SlotInit DEF Init
  <1>2. Cost({}) = 0 /\ Full \in Nat /\ MinInterval \in Nat
    BY <1>1, FS_EmptySet, LimitsAssumption, SleepersBounded DEF Cost
  <1>3. \A x \in Nat : Due(x) = {}
    BY <1>1 DEF Due
  <1> QED BY <1>1, <1>2, <1>3 DEF BurstInv

\* Late sleepers catch up by no more than one start for every slot, and one.
THEOREM BurstAlwaysBounded == Spec => []BurstBounded
  <1>1. BurstInv => BurstBounded
    <2> SUFFICES ASSUME BurstInv PROVE BurstBounded
      OBVIOUS
    <2>1. load + Cost(Due(0)) <= 0 + Full + MinInterval
      BY DEF BurstInv
    <2>2. Cost(Due(0)) \in Nat /\ load \in Nat
      BY CostFacts DEF Due, BurstInv, SlotInv, TypeOK
    <2>3. (MaxConcurrent + 1) * MinInterval = Full + MinInterval /\ Full \in Nat
      BY LimitsAssumption DEF Full
    <2> QED BY <2>1, <2>2, <2>3, LimitsAssumption DEF BurstBounded
  <1> QED BY <1>1, BurstInit, BurstStep, PTL DEF Spec
===============================================================================
