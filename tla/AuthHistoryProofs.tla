--------------------------- MODULE AuthHistoryProofs ---------------------------
(***************************************************************************)
(* The reauth prompt is earned, for every grace period, minimum of         *)
(* failures and set of resources. The code's streak never runs ahead of    *)
(* what the polls have said, over all coordinators of the entry.           *)
(***************************************************************************)
EXTENDS AuthHistory, MOSCoordinatorProofs

StreakInv ==
    /\ AuthTypeOK
    /\ streak.age <= quiet
    /\ streak.failures <= rejections

\* A step of the history is a step of the coordinator.
LEMMA HistoryStepIsStep == [ANext]_avars => [Next]_vars
  <1>1. AAnswerPoll => AnswerPoll
    BY DEF AAnswerPoll, AnswerPoll
  <1> QED BY <1>1 DEF ANext, ATick, AReload, AOther, Next, avars

\* The record of what the polls said only observes: without it the behaviours are
\* those of the coordinator, which keeps here all it promises (_record_auth_failure).
THEOREM AuthRecordObserves == ASpec => Spec
  <1>1. AInit => Init
    BY DEF AInit
  <1> QED BY <1>1, HistoryStepIsStep, PTL DEF ASpec, Spec

\* The history variables keep their types.
LEMMA HistoryType == AuthTypeOK /\ [ANext]_avars => AuthTypeOK'
  <1> SUFFICES ASSUME AuthTypeOK, [ANext]_avars PROVE AuthTypeOK'
    OBVIOUS
  <1>0. TypeOK'
    BY HistoryStepIsStep, TypeStep DEF AuthTypeOK
  <1>1. /\ Saturated(quiet, AuthGrace) \in 0..AuthGrace
        /\ Saturated(rejections, AuthMin) \in 0..AuthMin
        /\ Saturated(renewed, AuthMin) \in 0..AuthMin
    BY SaturatedInRange, ThresholdsAssumption DEF AuthTypeOK
  <1>2. 0 \in 0..AuthGrace /\ 0 \in 0..AuthMin
    BY ThresholdsAssumption
  <1>3. CASE AAnswerPoll
    <2>1. RecordDoubt \/ RecordSilence \/ RecordRejection
      BY <1>3 DEF AAnswerPoll
    <2> QED BY <1>0, <1>1, <1>2, <2>1
            DEF AuthTypeOK, RecordDoubt, RecordSilence, RecordRejection
  <1>4. CASE ATick
    BY <1>0, <1>1, <1>4 DEF ATick, AuthTypeOK
  <1>5. CASE AReload
    BY <1>0, <1>2, <1>5 DEF AReload, AuthTypeOK
  <1>6. CASE AOther \/ UNCHANGED avars
    BY <1>0, <1>6 DEF AOther, AuthTypeOK, avars, historyVars
  <1> QED BY <1>3, <1>4, <1>5, <1>6 DEF ANext

\* The history variables, and all of the coordinator's under them, keep their types over
\* every poll, retry and reload, for any thresholds (_AuthFailureStreak).
THEOREM AuthTypeCorrect == ASpec => []AuthTypeOK
  <1>1. AInit => AuthTypeOK
    BY TypeInit, ThresholdsAssumption DEF AInit, AuthTypeOK
  <1> QED BY <1>1, HistoryType, PTL DEF ASpec

\* Saturating at the same bound keeps an order.
LEMMA SaturatedMonotone ==
    ASSUME NEW bound \in Nat, NEW m \in 0..bound, NEW n \in 0..bound, m <= n
    PROVE  Saturated(m, bound) <= Saturated(n, bound)
  BY DEF Saturated

\* The absent streak is behind any history.
LEMMA AbsentStreakBehind ==
    ASSUME AuthTypeOK', streak' = NoStreak
    PROVE  StreakInv'
  BY ThresholdsAssumption DEF NoStreak, StreakInv, AuthTypeOK

\* A streak and a history left alone keep their order.
LEMMA UnchangedStreakBehind ==
    ASSUME StreakInv, AuthTypeOK', UNCHANGED <<streak, quiet, rejections>>
    PROVE  StreakInv'
  BY DEF StreakInv

\* A rejected poll counts in the streak and in the history.
LEMMA CountedStreakBehind ==
    ASSUME StreakInv, AuthTypeOK', streak' = Counted(streak, AuthMin),
           RecordRejection
    PROVE  StreakInv'
  <1>1. /\ streak \in [age : 0..AuthGrace, failures : 0..AuthMin]
        /\ rejections \in 0..AuthMin
    BY DEF StreakInv, AuthTypeOK, TypeOK, Streaks
  <1>2. Saturated(streak.failures, AuthMin) <= Saturated(rejections, AuthMin)
    BY <1>1, SaturatedMonotone, ThresholdsAssumption DEF StreakInv
  <1>3. /\ streak'.failures = Saturated(streak.failures, AuthMin)
        /\ streak'.age = streak.age
    BY <1>1 DEF Counted
  <1> QED BY <1>2, <1>3 DEF StreakInv, RecordRejection

\* Time passes for the streak and for the history.
LEMMA AgedStreakBehind ==
    ASSUME StreakInv, AuthTypeOK', ATick
    PROVE  StreakInv'
  <1>1. /\ streak \in [age : 0..AuthGrace, failures : 0..AuthMin]
        /\ quiet \in 0..AuthGrace
    BY DEF StreakInv, AuthTypeOK, TypeOK, Streaks
  <1>2. /\ Saturated(streak.age, AuthGrace) <= Saturated(quiet, AuthGrace)
        /\ streak.age <= Saturated(quiet, AuthGrace)
    <2>1. Saturated(streak.age, AuthGrace) <= Saturated(quiet, AuthGrace)
      BY <1>1, SaturatedMonotone, ThresholdsAssumption DEF StreakInv
    <2>2. streak.age <= Saturated(quiet, AuthGrace)
      BY <1>1, ThresholdsAssumption DEF StreakInv, Saturated
    <2> QED BY <2>1, <2>2
  <1>3. /\ streak'.age \in {streak.age, Saturated(streak.age, AuthGrace)}
        /\ streak'.failures = streak.failures
    <2>1. streak' = Aged(streak, AuthGrace)
      BY DEF ATick, Tick
    <2> QED BY <1>1, <2>1 DEF Aged
  <1> QED BY <1>2, <1>3 DEF StreakInv, ATick

\* The streak invariant is inductive.
LEMMA StreakStep == StreakInv /\ [ANext]_avars => StreakInv'
  <1> SUFFICES ASSUME StreakInv, [ANext]_avars PROVE StreakInv'
    OBVIOUS
  <1>0. AuthTypeOK'
    BY HistoryType DEF StreakInv
  <1>1. CASE AAnswerPoll
    <2>1. PICK r \in Results :
            \/ CycleUnreachable(r) /\ Unstable(r) /\ RecordDoubt
            \/ CycleUnreachable(r) /\ ~Unstable(r) /\ RecordSilence
            \/ CycleRejectedUnstable(r) /\ RecordDoubt
            \/ CycleRejected(r) /\ RecordRejection
            \/ CycleEscalates(r) /\ RecordRejection
            \/ CycleRefused(r) /\ Unstable(r) /\ RecordDoubt
            \/ CycleRefused(r) /\ ~Unstable(r) /\ RecordSilence
            \/ CycleSurvives(r) /\ RecordDoubt
      BY <1>1 DEF AAnswerPoll
    <2>2. CASE (CycleUnreachable(r) \/ CycleRefused(r)) /\ Unstable(r)
      BY <1>0, <2>2, AbsentStreakBehind
      DEF CycleUnreachable, CycleRefused, AfterInstability
    <2>3. CASE CycleRejectedUnstable(r) \/ CycleSurvives(r)
      BY <1>0, <2>3, AbsentStreakBehind DEF CycleRejectedUnstable, CycleSurvives
    <2>4. CASE (CycleUnreachable(r) \/ CycleRefused(r)) /\ ~Unstable(r) /\ RecordSilence
      BY <1>0, <2>4, UnchangedStreakBehind
      DEF CycleUnreachable, CycleRefused, AfterInstability, RecordSilence
    <2>5. CASE (CycleRejected(r) \/ CycleEscalates(r)) /\ RecordRejection
      BY <1>0, <2>5, CountedStreakBehind DEF CycleRejected, CycleEscalates
    <2> QED BY <2>1, <2>2, <2>3, <2>4, <2>5
  <1>2. CASE ATick
    BY <1>0, <1>2, AgedStreakBehind
  <1>3. CASE AReload
    <2>1. CASE StartUnload
      BY <1>0, <2>1, AbsentStreakBehind DEF StartUnload
    <2>2. CASE UnloadFailedSetup
      BY <1>0, <1>3, <2>2, UnchangedStreakBehind DEF UnloadFailedSetup, AReload
    <2> QED BY <1>3, <2>1, <2>2 DEF AReload
  <1>4. CASE AOther
    BY <1>0, <1>4, UnchangedStreakBehind
    DEF AOther, historyVars, SetupEntry, FinishUnload, StartPoll, DeliverNotice,
        Publish, entryVars
  <1>5. CASE UNCHANGED avars
    BY <1>0, <1>5, UnchangedStreakBehind DEF avars, vars, entryVars, historyVars
  <1> QED BY <1>1, <1>2, <1>3, <1>4, <1>5 DEF ANext

\* A step that opens the prompt is one the history justifies.
LEMMA EscalationStep ==
    ASSUME StreakInv, StreakInv', [ANext]_avars, ~reauth, reauth'
    PROVE  quiet' >= AuthGrace /\ rejections' >= AuthMin
  <1>1. PICK r \in Results : CycleEscalates(r)
    BY DEF ANext, AAnswerPoll, ATick, AReload, AOther, avars, vars, entryVars,
           CycleUnreachable, CycleRejectedUnstable, CycleRejected, CycleRefused,
           CycleSurvives, Tick, StartUnload, UnloadFailedSetup, SetupEntry,
           FinishUnload, StartPoll, DeliverNotice, Publish
  <1>2. streak'.age >= AuthGrace /\ streak'.failures >= AuthMin
    BY <1>1 DEF CycleEscalates, Sustained
  <1>3. /\ streak'.age \in Nat /\ quiet' \in Nat
        /\ streak'.failures \in Nat /\ rejections' \in Nat
    BY ThresholdsAssumption DEF StreakInv, AuthTypeOK, TypeOK, Streaks
  <1> QED BY <1>2, <1>3, ThresholdsAssumption DEF StreakInv

\* Whatever coordinators come and go, the prompt opens only after a grace period
\* and a minimum of rejected polls in which nothing spoke for the token.
THEOREM EscalationAlwaysEarned == ASpec => EscalationEarned
  <1>1. AInit => StreakInv
    BY TypeInit, ThresholdsAssumption
    DEF AInit, Init, StreakInv, AuthTypeOK, NoStreak
  <1>2. StreakInv /\ [ANext]_avars => StreakInv'
    BY StreakStep
  <1>3. StreakInv /\ StreakInv' /\ [ANext]_avars
          => [(~reauth /\ reauth')
                => quiet' >= AuthGrace /\ rejections' >= AuthMin]_avars
    BY EscalationStep
  <1> QED BY <1>1, <1>2, <1>3, PTL DEF ASpec, EscalationEarned
===============================================================================
