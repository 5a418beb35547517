------------------------- MODULE ResourceHistoryProofs -------------------------
(***************************************************************************)
(* Theorems about ResourceHistory: how old what is withdrawn must be, and  *)
(* how old what is shown as current may be, for every set of resources and *)
(* all thresholds.                                                         *)
(***************************************************************************)
EXTENDS ResourceHistory, MOSCoordinatorProofs

-------------------------------------------------------------------------------
(* The record beside the machine.                                          *)

\* Recorded ages stop at their bound, which is beyond the grace period.
AgesOK ==
    /\ age \in [Optional -> 0..AgeBound]
    /\ pendingAge \in [Optional -> 0..AgeBound]
    /\ interrupted \subseteq Optional

\* A step of the machine with its record is a step of the machine.
LEMMA RecordedStep == [RNext]_rvars => [Next]_vars
  <1> SUFFICES ASSUME [RNext]_rvars PROVE [Next]_vars
    OBVIOUS
  <1>1. CASE \E r \in Results : RSurvives(r) \/ RFails(r)
    BY <1>1 DEF RSurvives, RFails, Next, AnswerPoll
  <1>2. CASE RPublish \/ RTick \/ RFinishUnload \/ ROther
    BY <1>2 DEF RPublish, RTick, RFinishUnload, ROther, Next
  <1>3. CASE UNCHANGED rvars
    BY <1>3 DEF rvars
  <1> QED BY <1>1, <1>2, <1>3 DEF RNext

\* The record of ages only observes: without it the behaviours are those of the
\* coordinator, which therefore keeps here all it promises (_update_stale_resources).
THEOREM AgeRecordObserves == RSpec => Spec
  <1>1. RInit => Init
    BY DEF RInit
  <1> QED BY <1>1, RecordedStep, PTL DEF RSpec, Spec

\* The retention invariant holds of the recorded machine as well.
LEMMA RecordedRetention == RetentionInv /\ [RNext]_rvars => RetentionInv'
  BY RecordedStep, RetentionStep

\* A failed cycle ends its coordinator or leaves the bookkeeping alone.
LEMMA FailedCycle ==
    ASSUME NEW r \in Results, RFails(r)
    PROVE  /\ phase = "polling"
           /\ interrupted' = data'
           /\ UNCHANGED <<age, pendingAge>>
           /\ \/ entry = "setup" /\ entry' \in {"retry", "error"} /\ CoordinatorGone
              \/ /\ entry # "setup" /\ phase' = "idle"
                 /\ UNCHANGED <<entry, due, data, pending>>
                 /\ UNCHANGED <<degraded, forbidden, answered, unsupported, stale>>
  <1>1. CASE CycleFails /\ phase = "polling"
    BY <1>1 DEF RFails, CycleFails, bookVars
  <1>2. CASE CycleEscalates(r)
    BY <1>2 DEF RFails, CycleEscalates, bookVars
  <1> QED
    BY <1>1, <1>2
    DEF RFails, CycleUnreachable, CycleRejectedUnstable, CycleRejected, CycleRefused

\* Ages of a tick are ages, one more at the most and never less.
LEMMA AgeTicks ==
    ASSUME NEW n \in 0..AgeBound
    PROVE  /\ Saturated(n, AgeBound) \in 0..AgeBound
           /\ Saturated(n, AgeBound) <= n + 1
           /\ n <= Saturated(n, AgeBound)
           /\ \A m \in 0..StaleGrace :
                 m <= n => Saturated(m, StaleGrace) <= Saturated(n, AgeBound)
  BY AgeBoundAssumption, ThresholdsAssumption DEF Saturated

\* Every step keeps the record's types.
LEMMA AgesStep == TypeOK /\ AgesOK /\ [RNext]_rvars => AgesOK'
  <1> SUFFICES ASSUME TypeOK, AgesOK, [RNext]_rvars PROVE AgesOK'
    OBVIOUS
  <1>0. 0 \in 0..AgeBound
    BY AgeBoundAssumption
  <1>1. ASSUME NEW r \in Results, RSurvives(r)
        PROVE  AgesOK'
    BY <1>0, <1>1 DEF RSurvives, AgesOK
  <1>2. ASSUME NEW r \in Results, RFails(r)
        PROVE  AgesOK'
    <2>1. TypeOK'
      BY RecordedStep, TypeStep
    <2> QED BY <1>2, <2>1, FailedCycle DEF AgesOK, TypeOK
  <1>3. CASE RPublish
    BY <1>0, <1>3 DEF RPublish, AgesOK, Zeroes
  <1>4. CASE RTick
    <2>1. \A k \in Optional : /\ Saturated(age[k], AgeBound) \in 0..AgeBound
                              /\ Saturated(pendingAge[k], AgeBound) \in 0..AgeBound
      BY AgeTicks DEF AgesOK
    <2> QED BY <1>0, <1>4, <2>1 DEF RTick, AgesOK
  <1>5. CASE RFinishUnload
    BY <1>0, <1>5 DEF RFinishUnload, AgesOK, Zeroes
  <1>6. CASE ROther \/ UNCHANGED rvars
    BY <1>6 DEF ROther, AgesOK, historyVars, rvars
  <1> QED BY <1>1, <1>2, <1>3, <1>4, <1>5, <1>6 DEF RNext

-------------------------------------------------------------------------------
(* What is withdrawn. What makes it inductive: no streak runs longer than   *)
(* the value it is about is old, in what is published and in what is about  *)
(* to be, and between two cycles a streak that was sustained stays so.      *)

EarnedInv ==
    /\ RetentionInv
    /\ AgesOK
    /\ entry \notin {"setup", "loaded", "unloading"} => stale = {}
    /\ \A k \in stale \ forbidden : Sustained(degraded[k], StaleGrace, StaleMin)
    /\ \A k \in data : degraded[k].age <= age[k]
    /\ \A k \in pending : degraded[k].age <= pendingAge[k]

\* What a surviving cycle makes of the streaks: a failing resource keeps its
\* timer, any other loses its streak, and only a sustained streak is stale.
LEMMA StreaksKept ==
    ASSUME TypeOK, NEW r \in Results, CycleSurvives(r)
    PROVE  /\ \A k \in Transient(r) : degraded'[k] = Counted(degraded[k], StaleMin)
           /\ \A k \in Optional \ Transient(r) : degraded'[k] = NoStreak
           /\ \A k \in Optional : degraded'[k].age <= degraded[k].age
           /\ \A k \in stale' \ forbidden' :
                 Sustained(degraded'[k], StaleGrace, StaleMin) /\ k \in Transient(r)
           /\ \A k \in Optional \ stale' :
                 ~Sustained(degraded'[k], StaleGrace, StaleMin) /\ k \notin forbidden'
  <1>1. /\ degraded' = Degraded(r) /\ stale' = Stale(degraded', forbidden')
        /\ Transient(r) \subseteq Optional
    BY ResultSets DEF CycleSurvives
  <1>2. ASSUME NEW k \in Optional
        PROVE  degraded[k] \in [age : 0..StaleGrace, failures : 0..StaleMin]
    BY DEF TypeOK, Streaks
  <1>3. \A k \in Transient(r) : degraded'[k] = Counted(degraded[k], StaleMin)
    BY <1>1 DEF Degraded
  <1>4. \A k \in Optional \ Transient(r) : degraded'[k] = NoStreak
    BY <1>1 DEF Degraded
  <1>5. \A k \in Optional : degraded'[k].age <= degraded[k].age
    <2> TAKE k \in Optional
    <2>1. degraded[k].age \in Nat /\ degraded[k].age <= degraded[k].age
      BY <1>2, ThresholdsAssumption
    <2>2. CASE k \in Transient(r)
      <3>1. degraded'[k].age = degraded[k].age
        BY <1>2, <1>3, <2>2 DEF Counted
      <3> QED BY <2>1, <3>1
    <2>3. CASE k \notin Transient(r)
      BY <1>4, <2>1, <2>3 DEF NoStreak
    <2> QED BY <2>2, <2>3
  <1>6. \A k \in stale' \ forbidden' :
           Sustained(degraded'[k], StaleGrace, StaleMin) /\ k \in Transient(r)
    <2> TAKE k \in stale' \ forbidden'
    <2>1. k \in Optional /\ Sustained(degraded'[k], StaleGrace, StaleMin)
      BY <1>1 DEF Stale
    <2>2. ~Sustained(NoStreak, StaleGrace, StaleMin)
      BY ThresholdsAssumption DEF Sustained, NoStreak
    <2> QED BY <1>4, <2>1, <2>2
  <1>7. \A k \in Optional \ stale' :
           ~Sustained(degraded'[k], StaleGrace, StaleMin) /\ k \notin forbidden'
    BY <1>1 DEF Stale
  <1> QED BY <1>3, <1>4, <1>5, <1>6, <1>7

\* Time passing makes no streak shorter nor less often counted.
LEMMA StreakAges ==
    ASSUME NEW s \in Streaks(StaleGrace, StaleMin)
    PROVE  /\ Aged(s, StaleGrace).failures = s.failures
           /\ s.age <= Aged(s, StaleGrace).age
           /\ Aged(s, StaleGrace).age \in {s.age, Saturated(s.age, StaleGrace)}
           /\ Failing(s) => Aged(s, StaleGrace).age = Saturated(s.age, StaleGrace)
           /\ Sustained(s, StaleGrace, StaleMin)
                 => Sustained(Aged(s, StaleGrace), StaleGrace, StaleMin)
  <1>1. s \in [age : 0..StaleGrace, failures : 0..StaleMin]
    BY DEF Streaks
  <1>2. s.age \in Nat /\ s.age <= Saturated(s.age, StaleGrace)
    BY <1>1, ThresholdsAssumption DEF Saturated
  <1>3. /\ Aged(s, StaleGrace).failures = s.failures
        /\ Aged(s, StaleGrace).age \in {s.age, Saturated(s.age, StaleGrace)}
        /\ Failing(s) => Aged(s, StaleGrace).age = Saturated(s.age, StaleGrace)
    BY <1>1 DEF Aged
  <1>4. s.age <= Aged(s, StaleGrace).age
    BY <1>2, <1>3
  <1>5. Sustained(s, StaleGrace, StaleMin)
           => Sustained(Aged(s, StaleGrace), StaleGrace, StaleMin)
    <2>1. Aged(s, StaleGrace).age \in Nat
      BY <1>1, <1>2, <1>3, SaturatedInRange, ThresholdsAssumption
    <2> QED BY <1>2, <1>3, <1>4, <2>1, ThresholdsAssumption DEF Sustained
  <1> QED BY <1>3, <1>4, <1>5

\* A coordinator that goes leaves nothing that is stale or published.
LEMMA EarnedGone ==
    ASSUME CoordinatorGone, RetentionInv', AgesOK'
    PROVE  EarnedInv'
  BY DEF CoordinatorGone, EarnedInv

\* The invariant of what is withdrawn is inductive.
LEMMA EarnedStep == EarnedInv /\ [RNext]_rvars => EarnedInv'
  <1> SUFFICES ASSUME EarnedInv, [RNext]_rvars PROVE EarnedInv'
    OBVIOUS
  <1>0. TypeOK /\ RetentionInv' /\ AgesOK'
    BY RecordedRetention, AgesStep DEF EarnedInv, RetentionInv
  <1>1. ASSUME NEW r \in Results, RSurvives(r)
        PROVE  EarnedInv'
    <2>1. CycleSurvives(r)
      BY <1>1 DEF RSurvives
    <2>2. entry' \in {"setup", "loaded", "unloading"}
      BY <2>1 DEF CycleSurvives, EarnedInv, RetentionInv
    <2>3. \A k \in stale' \ forbidden' : Sustained(degraded'[k], StaleGrace, StaleMin)
      BY <1>0, <2>1, StreaksKept
    <2>4. \A k \in Optional : degraded[k].age \in Nat /\ degraded'[k].age \in Nat
      BY <1>0, ThresholdsAssumption DEF TypeOK, Streaks, RetentionInv
    <2>5. \A k \in data' : degraded'[k].age <= age'[k]
      <3> SUFFICES ASSUME NEW k \in data PROVE degraded'[k].age <= age[k]
        BY <1>1, <2>1 DEF RSurvives, CycleSurvives
      <3>1. k \in Optional /\ degraded[k].age <= age[k] /\ age[k] \in Nat
        BY <1>0, AgeBoundAssumption DEF EarnedInv, TypeOK, AgesOK
      <3>2. degraded'[k].age <= degraded[k].age
        BY <1>0, <2>1, <3>1, StreaksKept
      <3> QED BY <2>4, <3>1, <3>2
    <2>6. \A k \in pending' : degraded'[k].age <= pendingAge'[k]
      <3> TAKE k \in pending'
      <3>1. /\ k \in Optional /\ pending' = Retained(r, forbidden')
            /\ pendingAge'[k] = IF k \in Fresh(r, forbidden') THEN 0 ELSE age[k]
        BY <1>0, <1>1, <2>1 DEF RSurvives, CycleSurvives, TypeOK, RetentionInv
      <3>2. CASE k \in Fresh(r, forbidden')
        <4>1. k \notin Transient(r)
          BY <3>2 DEF Fresh, Payload, Transient, Ending
        <4>2. degraded'[k].age = 0
          BY <1>0, <2>1, <3>1, <4>1, StreaksKept DEF NoStreak
        <4> QED BY <3>1, <3>2, <4>2
      <3>3. CASE k \notin Fresh(r, forbidden')
        <4>1. k \in data
          BY <3>1, <3>3 DEF Retained
        <4> QED BY <1>1, <2>1, <2>5, <3>1, <3>3, <4>1 DEF RSurvives, CycleSurvives
      <3> QED BY <3>2, <3>3
    <2> QED BY <1>0, <2>2, <2>3, <2>5, <2>6 DEF EarnedInv
  <1>2. ASSUME NEW r \in Results, RFails(r)
        PROVE  EarnedInv'
    BY <1>0, <1>2, FailedCycle, EarnedGone DEF EarnedInv
  <1>3. CASE RPublish
    BY <1>0, <1>3 DEF RPublish, Publish, EarnedInv, bookVars
  <1>4. CASE RTick
    <2>1. /\ UNCHANGED <<entry, stale, forbidden, data, pending>>
          /\ degraded' = [k \in Optional |-> Aged(degraded[k], StaleGrace)]
          /\ age' = [k \in Optional |->
                       IF k \in data THEN Saturated(age[k], AgeBound) ELSE 0]
          /\ pendingAge' = [k \in Optional |->
                              IF k \in pending THEN Saturated(pendingAge[k], AgeBound)
                              ELSE 0]
      BY <1>4 DEF RTick, Tick, viewVars
    <2>2. \A k \in stale' \ forbidden' : Sustained(degraded'[k], StaleGrace, StaleMin)
      <3> TAKE k \in stale' \ forbidden'
      <3>1. k \in Optional /\ Sustained(degraded[k], StaleGrace, StaleMin)
            /\ degraded[k] \in Streaks(StaleGrace, StaleMin)
        BY <1>0, <2>1 DEF EarnedInv, TypeOK
      <3> QED BY <2>1, <3>1, StreakAges
    <2>3. ASSUME NEW k \in Optional, NEW n \in 0..AgeBound, degraded[k].age <= n
          PROVE  degraded'[k].age <= Saturated(n, AgeBound)
      <3>1. degraded[k] \in Streaks(StaleGrace, StaleMin)
            /\ degraded[k].age \in 0..StaleGrace
        BY <1>0 DEF TypeOK, Streaks
      <3>2. degraded'[k].age \in {degraded[k].age, Saturated(degraded[k].age, StaleGrace)}
        BY <2>1, <3>1, StreakAges
      <3>3. /\ Saturated(degraded[k].age, StaleGrace) <= Saturated(n, AgeBound)
            /\ n <= Saturated(n, AgeBound) /\ Saturated(n, AgeBound) \in 0..AgeBound
        BY <2>3, <3>1, AgeTicks
      <3> QED BY <2>3, <3>1, <3>2, <3>3, AgeBoundAssumption, ThresholdsAssumption
    <2>4. \A k \in data' : degraded'[k].age <= age'[k]
      BY <1>0, <2>1, <2>3 DEF EarnedInv, TypeOK, AgesOK
    <2>5. \A k \in pending' : degraded'[k].age <= pendingAge'[k]
      BY <1>0, <2>1, <2>3 DEF EarnedInv, TypeOK, AgesOK
    <2> QED BY <1>0, <2>1, <2>2, <2>4, <2>5 DEF EarnedInv
  <1>5. CASE RFinishUnload
    BY <1>0, <1>5, EarnedGone DEF RFinishUnload, FinishUnload
  <1>6. CASE ROther
    <2>1. UNCHANGED <<degraded, stale, data, pending, age, pendingAge>>
          /\ stale \ forbidden' \subseteq stale \ forbidden
          /\ (stale # {} => entry' \in {"setup", "loaded", "unloading"})
      BY <1>6
      DEF ROther, historyVars, SetupEntry, StartUnload, UnloadFailedSetup, StartPoll,
          DeliverNotice, bookVars, viewVars, entryVars, EarnedInv
    <2> QED BY <1>0, <2>1 DEF EarnedInv
  <1>7. CASE UNCHANGED rvars
    BY <1>0, <1>7
    DEF EarnedInv, rvars, vars, entryVars, bookVars, viewVars, historyVars
  <1> QED BY <1>1, <1>2, <1>3, <1>4, <1>5, <1>6, <1>7 DEF RNext

\* The invariant of what is withdrawn holds initially.
LEMMA EarnedInit == RInit => EarnedInv
  <1> SUFFICES ASSUME RInit PROVE EarnedInv
    OBVIOUS
  <1>1. RetentionInv
    BY TypeInit DEF RInit, Init, RetentionInv
  <1>2. AgesOK
    BY AgeBoundAssumption DEF RInit, Zeroes, AgesOK
  <1> QED BY <1>1, <1>2 DEF RInit, Init, EarnedInv

\* No passing hiccup withdraws a resource, for any resources and thresholds,
\* however polls, failed cycles, recoveries and reloads follow each other: the
\* value withdrawn is at least a grace period old (_update_stale_resources).
THEOREM WithdrawalAlwaysEarned == RSpec => []StaleEarned
  <1>1. EarnedInv /\ [RNext]_rvars => EarnedInv'
    BY EarnedStep
  <1>2. EarnedInv => StaleEarned
    <2> SUFFICES ASSUME EarnedInv, NEW k \in (stale \ forbidden) \cap data
                 PROVE  age[k] >= StaleGrace
      BY DEF StaleEarned
    <2>1. degraded[k].age >= StaleGrace /\ degraded[k].age <= age[k]
      BY DEF EarnedInv, Sustained
    <2>2. degraded[k].age \in Nat /\ age[k] \in Nat
      BY ThresholdsAssumption, AgeBoundAssumption
      DEF EarnedInv, RetentionInv, TypeOK, AgesOK, Streaks
    <2> QED BY <2>1, <2>2, ThresholdsAssumption
  <1> QED BY <1>1, <1>2, EarnedInit, PTL DEF RSpec

-------------------------------------------------------------------------------
(* What is shown as current. What makes it inductive: since the last cycle  *)
(* that survived at most Elapsed ticks have passed, up to that cycle a      *)
(* failing value has aged by a tick per failure counted, and from its first *)
(* failure on as fast as its streak.                                        *)

Elapsed == (IF phase = "polling" THEN 1 ELSE 0) + (IF due THEN 1 ELSE 0)

\* A value of age n is no older than its streak d and the ticks t explain.
Explained(d, n, t) ==
    /\ d.failures < StaleMin => n <= d.failures + t
    /\ d.failures >= StaleMin => n <= StaleGrace + 1 + t
    /\ Failing(d) => (n <= d.age + 2 \/ d.age >= StaleGrace)

\* The timer that stands still stands still on failure, and both what is published
\* and what is about to be are explained where no failed cycle came between.
RecentInv ==
    /\ EarnedInv
    /\ entry = "loaded" /\ phase # "enriching" =>
          /\ ~scheduled => data \subseteq interrupted
          /\ \A k \in (data \ stale) \ interrupted :
                Explained(degraded[k], age[k], Elapsed)
    /\ entry \in {"setup", "loaded"} /\ phase = "enriching" =>
          \A k \in (pending \ stale) \ interrupted :
             Explained(degraded[k], pendingAge[k], Elapsed)

\* Whatever explains an age in fewer ticks explains it in more.
LEMMA MoreTicks ==
    ASSUME NEW d, d.failures \in 0..StaleMin, NEW n \in 0..AgeBound,
           NEW t \in Nat, NEW u \in Nat, t <= u, Explained(d, n, t)
    PROVE  Explained(d, n, u)
  BY ThresholdsAssumption, AgeBoundAssumption DEF Explained, Failing

\* A new value needs no failure to be explained.
LEMMA ExplainedAnswer == \A t \in Nat : Explained(NoStreak, 0, t)
  <1> TAKE t \in Nat
  <1>1. NoStreak.failures = 0 /\ StaleMin \in Nat \ {0}
    BY ThresholdsAssumption DEF NoStreak
  <1> QED BY <1>1 DEF Explained, Failing

\* A tick adds at most one to an age and exactly one to what explains it.
LEMMA ExplainedTick ==
    ASSUME TypeOK, Tick, Waiting, NEW k \in Optional, NEW n \in 0..AgeBound,
           Explained(degraded[k], n, Elapsed)
    PROVE  Explained(degraded'[k], Saturated(n, AgeBound), Elapsed')
  <1> DEFINE d == degraded[k]
             m == Saturated(n, AgeBound)
  <1>1. /\ d \in Streaks(StaleGrace, StaleMin)
        /\ d.age \in 0..StaleGrace /\ d.failures \in 0..StaleMin
    BY DEF TypeOK, Streaks
  <1>2. /\ degraded'[k] = Aged(d, StaleGrace)
        /\ ~due /\ due' /\ phase' = phase
    BY DEF Tick
  <1>3. /\ Elapsed \in Nat /\ Elapsed' = Elapsed + 1
    BY <1>2 DEF Elapsed
  <1>4. m \in 0..AgeBound /\ m <= n + 1
    BY AgeTicks
  <1>5. /\ degraded'[k].failures = d.failures
        /\ Failing(d) => degraded'[k].age = Saturated(d.age, StaleGrace)
    BY <1>1, <1>2, StreakAges
  <1>6. d.failures < StaleMin => m <= d.failures + Elapsed'
    BY <1>1, <1>3, <1>4, ThresholdsAssumption, AgeBoundAssumption DEF Explained
  <1>7. d.failures >= StaleMin => m <= StaleGrace + 1 + Elapsed'
    BY <1>1, <1>3, <1>4, ThresholdsAssumption, AgeBoundAssumption DEF Explained
  <1>8. Failing(d) => (m <= degraded'[k].age + 2 \/ degraded'[k].age >= StaleGrace)
    <2> SUFFICES ASSUME Failing(d)
                 PROVE  m <= degraded'[k].age + 2 \/ degraded'[k].age >= StaleGrace
      OBVIOUS
    <2>1. n <= d.age + 2 \/ d.age >= StaleGrace
      BY DEF Explained
    <2>2. degraded'[k].age = IF d.age < StaleGrace THEN d.age + 1 ELSE d.age
      BY <1>5 DEF Saturated
    <2> QED BY <1>1, <1>4, <2>1, <2>2, ThresholdsAssumption, AgeBoundAssumption
  <1> QED BY <1>5, <1>6, <1>7, <1>8 DEF Explained, Failing

\* A refresh that starts leaves every value explained.
LEMMA ExplainedStart ==
    ASSUME TypeOK, phase = "idle", phase' = "polling", due' = FALSE, degraded' = degraded,
           NEW k \in Optional, NEW n \in 0..AgeBound,
           Explained(degraded[k], n, Elapsed)
    PROVE  Explained(degraded'[k], n, Elapsed')
  <1>1. degraded[k].failures \in 0..StaleMin
    BY DEF TypeOK, Streaks
  <1>2. Elapsed \in Nat /\ Elapsed' \in Nat /\ Elapsed <= Elapsed'
    BY DEF Elapsed
  <1> QED BY <1>1, <1>2, MoreTicks

\* One more failure explains one more tick, and the last that does not make the
\* resource stale comes before its streak is a grace period old.
LEMMA ExplainedCount ==
    ASSUME TypeOK, phase = "polling", phase' = "enriching", due' = due,
           NEW k \in Optional, NEW n \in 0..AgeBound,
           Explained(degraded[k], n, Elapsed),
           degraded'[k] = Counted(degraded[k], StaleMin),
           ~Sustained(degraded'[k], StaleGrace, StaleMin)
    PROVE  Explained(degraded'[k], n, Elapsed')
  <1> DEFINE d == degraded[k]
             e == degraded'[k]
  <1>1. /\ d \in [age : 0..StaleGrace, failures : 0..StaleMin]
        /\ d.age \in 0..StaleGrace /\ d.failures \in 0..StaleMin
    BY DEF TypeOK, Streaks
  <1>2. /\ e.age = d.age
        /\ e.failures = IF d.failures < StaleMin THEN d.failures + 1 ELSE d.failures
    BY <1>1 DEF Counted, Saturated
  <1>3. Elapsed \in 1..2 /\ Elapsed' = Elapsed - 1
    BY DEF Elapsed
  <1>4. StaleMin \in Nat \ {0} /\ StaleGrace \in Nat /\ n \in Nat
    BY ThresholdsAssumption, AgeBoundAssumption
  <1>5. Failing(e) => n <= e.age + 2 \/ e.age >= StaleGrace
    <2>1. CASE Failing(d)
      BY <1>2, <2>1 DEF Explained
    <2>2. CASE ~Failing(d)
      <3>1. d.failures = 0
        BY <1>1, <2>2 DEF Failing
      <3>2. n <= 2
        BY <1>3, <1>4, <3>1 DEF Explained
      <3> QED BY <1>1, <1>2, <1>4, <3>2
    <2> QED BY <2>1, <2>2
  <1>6. e.failures < StaleMin => n <= e.failures + Elapsed'
    BY <1>1, <1>2, <1>3, <1>4 DEF Explained
  <1>7. e.failures >= StaleMin => n <= StaleGrace + 1 + Elapsed'
    <2> SUFFICES ASSUME e.failures >= StaleMin PROVE n <= StaleGrace + 1 + Elapsed'
      OBVIOUS
    <2>1. ~(e.age >= StaleGrace)
      BY DEF Sustained
    <2>2. Failing(e)
      BY <1>1, <1>2, <1>4 DEF Failing
    <2>3. n <= e.age + 2
      BY <1>5, <2>1, <2>2
    <2> QED BY <1>1, <1>2, <1>3, <1>4, <2>1, <2>3
  <1> QED BY <1>5, <1>6, <1>7 DEF Explained

\* The invariant of what is shown as current is inductive.
LEMMA RecentStep == RecentInv /\ [RNext]_rvars => RecentInv'
  <1> SUFFICES ASSUME RecentInv, [RNext]_rvars PROVE RecentInv'
    OBVIOUS
  <1>0. /\ TypeOK /\ AgesOK /\ EarnedInv /\ RetentionInv
        /\ EarnedInv' /\ TypeOK'
    BY EarnedStep DEF RecentInv, EarnedInv, RetentionInv
  <1>1. ASSUME NEW r \in Results, RSurvives(r)
        PROVE  RecentInv'
    <2>1. /\ CycleSurvives(r) /\ phase = "polling" /\ phase' = "enriching"
          /\ entry' = entry /\ due' = due /\ pending' = Retained(r, forbidden')
          /\ forbidden \subseteq forbidden'
      BY <1>1 DEF RSurvives, CycleSurvives
    <2>2. ASSUME NEW k \in (pending' \ stale') \ interrupted',
                 entry \in {"setup", "loaded"}
          PROVE  Explained(degraded'[k], pendingAge'[k], Elapsed')
      <3>1. k \in Optional
        BY <1>0, <2>2 DEF TypeOK
      <3>2. /\ pendingAge'[k] = IF k \in Fresh(r, forbidden') THEN 0 ELSE age[k]
            /\ interrupted' = interrupted \ Fresh(r, forbidden')
        BY <1>1, <2>2, <3>1 DEF RSurvives
      <3>3. k \notin forbidden' /\ ~Sustained(degraded'[k], StaleGrace, StaleMin)
        BY <1>0, <2>1, <2>2, <3>1, StreaksKept
      <3>4. CASE k \in Fresh(r, forbidden')
        <4>1. k \notin Transient(r)
          BY <3>4 DEF Fresh, Payload, Transient, Ending
        <4>2. degraded'[k] = NoStreak
          BY <1>0, <2>1, <3>1, <4>1, StreaksKept
        <4>3. Elapsed' \in Nat
          BY DEF Elapsed
        <4> QED BY <3>2, <3>4, <4>2, <4>3, ExplainedAnswer
      <3>5. CASE k \notin Fresh(r, forbidden')
        <4>1. k \in data /\ k \in Transient(r) /\ k \notin interrupted
          BY <2>1, <2>2, <3>2, <3>3, <3>5 DEF Retained
        <4>2. degraded'[k] = Counted(degraded[k], StaleMin)
          BY <1>0, <2>1, <4>1, StreaksKept
        <4>3. k \notin stale
          <5> SUFFICES ASSUME k \in stale PROVE FALSE
            OBVIOUS
          <5>1. Sustained(degraded[k], StaleGrace, StaleMin)
            BY <1>0, <2>1, <3>3 DEF EarnedInv
          <5>2. degraded[k] \in [age : 0..StaleGrace, failures : 0..StaleMin]
            BY <1>0, <3>1 DEF TypeOK, Streaks
          <5>3. Sustained(Counted(degraded[k], StaleMin), StaleGrace, StaleMin)
            BY <5>1, <5>2, ThresholdsAssumption DEF Sustained, Counted, Saturated
          <5> QED BY <3>3, <4>2, <5>3
        <4>4. entry = "loaded"
          BY <1>0, <2>2, <4>1 DEF RetentionInv
        <4>5. Explained(degraded[k], age[k], Elapsed) /\ age[k] \in 0..AgeBound
          BY <1>0, <2>1, <3>1, <4>1, <4>3, <4>4 DEF RecentInv, AgesOK
        <4>6. Explained(degraded'[k], age[k], Elapsed')
          BY <1>0, <2>1, <3>1, <3>3, <4>2, <4>5, ExplainedCount
        <4> QED BY <3>2, <3>5, <4>6
      <3> QED BY <3>4, <3>5
    <2> QED BY <1>0, <2>1, <2>2 DEF RecentInv
  <1>2. ASSUME NEW r \in Results, RFails(r)
        PROVE  RecentInv'
    <2>1. interrupted' = data' /\ phase' # "enriching"
      BY <1>2, FailedCycle DEF CoordinatorGone
    <2> QED BY <1>0, <2>1 DEF RecentInv
  <1>3. CASE RPublish
    <2>1. /\ phase = "enriching" /\ phase' = "idle" /\ scheduled' = TRUE
          /\ due' = due /\ data' = pending /\ age' = pendingAge
          /\ UNCHANGED <<degraded, stale, interrupted>>
          /\ entry' = "loaded" => entry \in {"setup", "loaded"}
      BY <1>3 DEF RPublish, Publish, bookVars
    <2>2. Elapsed' = Elapsed
      BY <2>1 DEF Elapsed
    <2> QED BY <1>0, <2>1, <2>2 DEF RecentInv, Explained
  <1>4. CASE RTick
    <2>1. /\ Tick
          /\ UNCHANGED <<entry, phase, scheduled, stale, interrupted, data, pending>>
          /\ \A k \in data : age'[k] = Saturated(age[k], AgeBound)
          /\ \A k \in pending : pendingAge'[k] = Saturated(pendingAge[k], AgeBound)
      BY <1>0, <1>4 DEF RTick, Tick, viewVars, TypeOK
    <2>2. ASSUME NEW k \in (data \ stale) \ interrupted,
                 entry = "loaded", phase # "enriching"
          PROVE  Explained(degraded'[k], age'[k], Elapsed')
      <3>1. Waiting
        BY <2>2 DEF RecentInv, Waiting
      <3>2. k \in Optional /\ age[k] \in 0..AgeBound
            /\ Explained(degraded[k], age[k], Elapsed)
        BY <1>0, <2>2 DEF RecentInv, TypeOK, AgesOK
      <3>3. Explained(degraded'[k], Saturated(age[k], AgeBound), Elapsed')
        BY <1>0, <2>1, <3>1, <3>2, ExplainedTick
      <3> QED BY <2>1, <2>2, <3>3
    <2>3. ASSUME NEW k \in (pending \ stale) \ interrupted,
                 entry \in {"setup", "loaded"}, phase = "enriching"
          PROVE  Explained(degraded'[k], pendingAge'[k], Elapsed')
      <3>1. Waiting
        BY <2>3 DEF Waiting
      <3>2. k \in Optional /\ pendingAge[k] \in 0..AgeBound
            /\ Explained(degraded[k], pendingAge[k], Elapsed)
        BY <1>0, <2>3 DEF RecentInv, TypeOK, AgesOK
      <3>3. Explained(degraded'[k], Saturated(pendingAge[k], AgeBound), Elapsed')
        BY <1>0, <2>1, <3>1, <3>2, ExplainedTick
      <3> QED BY <2>1, <2>3, <3>3
    <2> QED BY <1>0, <2>1, <2>2, <2>3 DEF RecentInv
  <1>5. CASE RFinishUnload
    BY <1>0, <1>5 DEF RFinishUnload, FinishUnload, RecentInv
  <1>6. CASE ROther
    <2>1. UNCHANGED <<age, pendingAge, interrupted>>
      BY <1>6 DEF ROther, historyVars
    <2>2. CASE SetupEntry \/ StartUnload \/ UnloadFailedSetup
      BY <1>0, <2>1, <2>2
      DEF SetupEntry, StartUnload, UnloadFailedSetup, RecentInv
    <2>3. CASE StartPoll
      <3>1. /\ phase = "idle" /\ phase' = "polling" /\ due' = FALSE /\ entry = "loaded"
            /\ UNCHANGED <<entry, scheduled, degraded, stale, data>>
        BY <2>3 DEF StartPoll, entryVars, bookVars, viewVars
      <3>2. ASSUME NEW k \in (data \ stale) \ interrupted
            PROVE  Explained(degraded'[k], age'[k], Elapsed')
        <4>1. k \in Optional /\ age[k] \in 0..AgeBound
              /\ Explained(degraded[k], age[k], Elapsed)
          BY <1>0, <3>1, <3>2 DEF RecentInv, TypeOK, AgesOK
        <4>2. Explained(degraded'[k], age[k], Elapsed')
          BY <1>0, <3>1, <4>1, ExplainedStart
        <4> QED BY <2>1, <4>2
      <3> QED BY <1>0, <2>1, <3>1, <3>2 DEF RecentInv
    <2>4. CASE DeliverNotice
      BY <1>0, <2>1, <2>4
      DEF DeliverNotice, entryVars, refreshVars, bookVars, RecentInv, Explained, Elapsed
    <2> QED BY <1>6, <2>2, <2>3, <2>4 DEF ROther
  <1>7. CASE UNCHANGED rvars
    BY <1>0, <1>7
    DEF RecentInv, Explained, Elapsed, rvars, vars, entryVars, refreshVars, bookVars,
        viewVars, historyVars
  <1> QED BY <1>1, <1>2, <1>3, <1>4, <1>5, <1>6, <1>7 DEF RNext

\* What is shown as current on a server that answers is at most a grace period and
\* two polls old, for any resources and thresholds for which counting the failures
\* takes no longer than that: RESOURCE_STALE_MIN_FAILURES is 3, and the grace
\* period at least one tick.
THEOREM CurrentAlwaysRecent ==
    ASSUME StaleMin <= StaleGrace + 2
    PROVE  RSpec => []CurrentIsRecent
  <1>1. RInit => RecentInv
    BY EarnedInit DEF RInit, Init, RecentInv
  <1>2. RecentInv /\ [RNext]_rvars => RecentInv'
    BY RecentStep
  <1>3. RecentInv => CurrentIsRecent
    <2> SUFFICES ASSUME RecentInv, entry = "loaded", phase # "enriching",
                        NEW k \in (data \ stale) \ interrupted
                 PROVE  age[k] <= StaleGrace + Slack
      BY DEF CurrentIsRecent
    <2>1. Explained(degraded[k], age[k], Elapsed)
      BY DEF RecentInv
    <2>2. degraded[k].failures \in 0..StaleMin /\ age[k] \in 0..AgeBound
      BY DEF RecentInv, EarnedInv, RetentionInv, TypeOK, AgesOK, Streaks
    <2>3. Elapsed \in 0..2
      BY DEF Elapsed
    <2> QED
      BY <2>1, <2>2, <2>3, ThresholdsAssumption, AgeBoundAssumption
      DEF Explained, Slack
  <1> QED BY <1>1, <1>2, <1>3, PTL DEF RSpec
===============================================================================
