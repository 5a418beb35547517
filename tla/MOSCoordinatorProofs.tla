------------------------- MODULE MOSCoordinatorProofs -------------------------
(***************************************************************************)
(* Theorems about MOSCoordinator, for every set of resources, every scope  *)
(* map and all thresholds.                                                 *)
(***************************************************************************)
EXTENDS MOSCoordinator, TLAPS

-------------------------------------------------------------------------------
(* Streaks.                                                                *)

\* A saturating counter stays within its bound.
LEMMA SaturatedInRange ==
    ASSUME NEW bound \in Nat, NEW n \in 0..bound
    PROVE  Saturated(n, bound) \in 0..bound
  BY DEF Saturated

\* The absent streak has the type of a streak.
LEMMA NoStreakType ==
    ASSUME NEW grace \in Nat, NEW min \in Nat
    PROVE  NoStreak \in Streaks(grace, min)
  BY DEF NoStreak, Streaks

\* Counting a failure keeps a streak's type.
LEMMA CountedType ==
    ASSUME NEW grace \in Nat, NEW min \in Nat, NEW s \in Streaks(grace, min)
    PROVE  Counted(s, min) \in Streaks(grace, min)
  <1>1. s.failures \in 0..min
    BY DEF Streaks
  <1>2. Saturated(s.failures, min) \in 0..min
    BY <1>1, SaturatedInRange
  <1> QED BY <1>2 DEF Counted, Streaks

\* Ageing a streak keeps its type.
LEMMA AgedType ==
    ASSUME NEW grace \in Nat, NEW min \in Nat, NEW s \in Streaks(grace, min)
    PROVE  Aged(s, grace) \in Streaks(grace, min)
  <1>1. s.age \in 0..grace
    BY DEF Streaks
  <1>2. Saturated(s.age, grace) \in 0..grace
    BY <1>1, SaturatedInRange
  <1> QED BY <1>2 DEF Aged, Streaks

-------------------------------------------------------------------------------
(* What one cycle's results are made of.                                   *)

\* Results classify requested keys only, and the bookkeeping sets they give
\* are sets of optional resources.
LEMMA ResultSets ==
    ASSUME TypeOK, NEW r \in Results
    PROVE  /\ Denied(r) \subseteq Optional
           /\ Unsupported(r) \subseteq Optional
           /\ Transient(r) \subseteq Optional
           /\ Degraded(r) \in [Optional -> Streaks(StaleGrace, StaleMin)]
           /\ \A f : Fresh(r, f) \subseteq Optional
           /\ \A f : Retained(r, f) \subseteq Optional
           /\ AfterInstability(r) \in Streaks(AuthGrace, AuthMin)
  <1>1. DOMAIN r \subseteq Resources
    BY DEF TypeOK, Results
  <1>2. \A kinds : Ending(r, kinds) \subseteq Resources
    BY <1>1 DEF Ending
  <1>3. Denied(r) \subseteq Optional
    BY DEF Denied
  <1>4. Unsupported(r) \subseteq Optional /\ Transient(r) \subseteq Optional
    BY <1>2 DEF Unsupported, Transient, Resources
  <1>5. Degraded(r) \in [Optional -> Streaks(StaleGrace, StaleMin)]
    <2>1. ASSUME NEW k \in Optional
          PROVE  /\ Counted(degraded[k], StaleMin) \in Streaks(StaleGrace, StaleMin)
                 /\ NoStreak \in Streaks(StaleGrace, StaleMin)
      <3>1. degraded[k] \in Streaks(StaleGrace, StaleMin)
        BY DEF TypeOK
      <3> QED BY <3>1, CountedType, NoStreakType, ThresholdsAssumption
    <2> QED BY <2>1 DEF Degraded
  <1>6. \A f : Fresh(r, f) \subseteq Optional
    BY DEF Fresh
  <1>7. \A f : Retained(r, f) \subseteq Optional
    BY <1>6 DEF Retained, TypeOK
  <1>8. AfterInstability(r) \in Streaks(AuthGrace, AuthMin)
    <2>1. NoStreak \in Streaks(AuthGrace, AuthMin)
      BY NoStreakType, ThresholdsAssumption
    <2> QED BY <2>1 DEF AfterInstability, TypeOK
  <1> QED BY <1>3, <1>4, <1>5, <1>6, <1>7, <1>8

-------------------------------------------------------------------------------
(* Type correctness.                                                       *)

\* A coordinator that goes leaves well-typed variables behind.
LEMMA GoneType ==
    ASSUME CoordinatorGone, entry' \in {"unloaded", "retry", "error"},
           reauth' \in BOOLEAN, streak' \in Streaks(AuthGrace, AuthMin)
    PROVE  TypeOK'
  <1>1. NoStreak \in Streaks(StaleGrace, StaleMin)
    BY NoStreakType, ThresholdsAssumption
  <1> QED BY <1>1 DEF CoordinatorGone, TypeOK

\* What a failing cycle leaves on display has the type of a display.
LEMMA ShownFailureType ==
    ASSUME TypeOK
    PROVE  (IF success THEN [success |-> FALSE, stale |-> stale] ELSE shown)
              \in [success : BOOLEAN, stale : SUBSET Optional]
  BY DEF TypeOK

\* A cycle that fails keeps the types, whatever it did to the auth streak.
LEMMA FailedCycleType ==
    ASSUME TypeOK, CycleFails, reauth' = reauth,
           streak' \in Streaks(AuthGrace, AuthMin)
    PROVE  TypeOK'
  <1>1. CASE entry = "setup"
    BY <1>1, GoneType DEF CycleFails, TypeOK
  <1>2. CASE entry # "setup"
    <2>1. shown' \in [success : BOOLEAN, stale : SUBSET Optional]
      BY <1>2, ShownFailureType DEF CycleFails
    <2>2. phase' = "idle" /\ requested' = {} /\ scheduled' \in BOOLEAN
          /\ success' \in BOOLEAN
      BY <1>2 DEF CycleFails
    <2>3. UNCHANGED <<entry, due, bookVars, notice, data, pending>>
      BY <1>2 DEF CycleFails
    <2> QED BY <2>1, <2>2, <2>3 DEF TypeOK, bookVars, Resources
  <1> QED BY <1>1, <1>2

\* Every answer to a poll keeps the types.
LEMMA AnswerPollType == TypeOK /\ AnswerPoll => TypeOK'
  <1> SUFFICES ASSUME TypeOK, NEW r \in Results,
                      \/ CycleUnreachable(r) \/ CycleRejectedUnstable(r)
                      \/ CycleRejected(r) \/ CycleEscalates(r)
                      \/ CycleRefused(r) \/ CycleSurvives(r)
               PROVE  TypeOK'
    BY DEF AnswerPoll
  <1>1. /\ AfterInstability(r) \in Streaks(AuthGrace, AuthMin)
        /\ NoStreak \in Streaks(AuthGrace, AuthMin)
        /\ Counted(streak, AuthMin) \in Streaks(AuthGrace, AuthMin)
    BY ResultSets, NoStreakType, CountedType, ThresholdsAssumption DEF TypeOK
  <1>2. CASE CycleUnreachable(r)
    BY <1>1, <1>2, FailedCycleType DEF CycleUnreachable
  <1>3. CASE CycleRejectedUnstable(r)
    BY <1>1, <1>3, FailedCycleType DEF CycleRejectedUnstable
  <1>4. CASE CycleRejected(r)
    BY <1>1, <1>4, FailedCycleType DEF CycleRejected
  <1>5. CASE CycleRefused(r)
    BY <1>1, <1>5, FailedCycleType DEF CycleRefused
  <1>6. CASE CycleEscalates(r)
    <2>1. CASE entry = "setup"
      BY <1>1, <1>6, <2>1, GoneType DEF CycleEscalates
    <2>2. CASE entry # "setup"
      <3>1. shown' \in [success : BOOLEAN, stale : SUBSET Optional]
        BY <1>6, <2>2, ShownFailureType DEF CycleEscalates
      <3>2. phase' = "idle" /\ requested' = {} /\ scheduled' \in BOOLEAN
            /\ success' \in BOOLEAN /\ reauth' \in BOOLEAN
        BY <1>6, <2>2 DEF CycleEscalates
      <3>3. UNCHANGED <<entry, due, bookVars, notice, data, pending>>
        BY <1>6, <2>2 DEF CycleEscalates
      <3>4. streak' \in Streaks(AuthGrace, AuthMin)
        BY <1>1, <1>6 DEF CycleEscalates
      <3> QED BY <3>1, <3>2, <3>3, <3>4 DEF TypeOK, bookVars, Resources
    <2> QED BY <2>1, <2>2
  <1>7. CASE CycleSurvives(r)
    <2>1. /\ forbidden' \subseteq Optional
          /\ degraded' \in [Optional -> Streaks(StaleGrace, StaleMin)]
          /\ unsupported' \subseteq Optional
          /\ pending' \subseteq Optional
      BY <1>7, ResultSets DEF CycleSurvives, TypeOK
    <2>2. answered' \subseteq Optional
      BY <1>7 DEF CycleSurvives, TypeOK
    <2>3. stale' \subseteq Optional
      BY <1>7, <2>1 DEF CycleSurvives, Stale
    <2>4. requested' \subseteq Resources
      BY <1>7 DEF CycleSurvives
    <2>5. notice' \in BOOLEAN
      BY <1>7 DEF CycleSurvives, Notifies, TypeOK
    <2>6. streak' \in Streaks(AuthGrace, AuthMin) /\ phase' = "enriching"
      BY <1>1, <1>7 DEF CycleSurvives
    <2>7. UNCHANGED <<entry, reauth, scheduled, due, success, data, shown>>
      BY <1>7 DEF CycleSurvives
    <2> QED BY <2>1, <2>2, <2>3, <2>4, <2>5, <2>6, <2>7 DEF TypeOK, Resources
  <1> QED BY <1>2, <1>3, <1>4, <1>5, <1>6, <1>7

\* Every other step keeps the types.
LEMMA OtherStepType ==
    ASSUME TypeOK, NEW A,
           A <=> \/ SetupEntry \/ StartUnload \/ FinishUnload \/ UnloadFailedSetup
                 \/ StartPoll \/ DeliverNotice \/ Publish \/ Tick,
           A
    PROVE  TypeOK'
  <1>1. CASE SetupEntry
    <2>1. forbidden' \subseteq Optional
      BY <1>1 DEF SetupEntry
    <2>2. requested' \subseteq Resources
      BY <1>1, ResourcesAssumption DEF SetupEntry, Wanted, Resources
    <2> QED BY <1>1, <2>1, <2>2 DEF SetupEntry, TypeOK, viewVars, Resources
  <1>2. CASE StartUnload
    <2>1. streak' \in Streaks(AuthGrace, AuthMin)
      BY <1>2, NoStreakType, ThresholdsAssumption DEF StartUnload
    <2> QED BY <1>2, <2>1
            DEF StartUnload, TypeOK, refreshVars, bookVars, viewVars, Resources
  <1>3. CASE FinishUnload
    BY <1>3, GoneType DEF FinishUnload, TypeOK
  <1>4. CASE UnloadFailedSetup
    BY <1>4 DEF UnloadFailedSetup, TypeOK, refreshVars, bookVars, viewVars, Resources
  <1>5. CASE StartPoll
    <2>1. requested' \subseteq Resources
      BY <1>5, ResourcesAssumption DEF StartPoll, Wanted, Resources
    <2> QED BY <1>5, <2>1 DEF StartPoll, TypeOK, entryVars, bookVars, viewVars, Resources
  <1>6. CASE DeliverNotice
    BY <1>6 DEF DeliverNotice, TypeOK, entryVars, refreshVars, bookVars, Resources
  <1>7. CASE Publish
    BY <1>7 DEF Publish, TypeOK, bookVars, Resources
  <1>8. CASE Tick
    <2>1. streak' \in Streaks(AuthGrace, AuthMin)
      BY <1>8, AgedType, ThresholdsAssumption DEF Tick, TypeOK
    <2>2. ASSUME NEW k \in Optional
          PROVE  Aged(degraded[k], StaleGrace) \in Streaks(StaleGrace, StaleMin)
      BY AgedType, ThresholdsAssumption DEF TypeOK
    <2>3. degraded' \in [Optional -> Streaks(StaleGrace, StaleMin)]
      BY <1>8, <2>2 DEF Tick
    <2>4. due' \in BOOLEAN
      BY <1>8 DEF Tick, Waiting, TypeOK
    <2> QED BY <1>8, <2>1, <2>3, <2>4 DEF Tick, TypeOK, viewVars, Resources
  <1> QED BY <1>1, <1>2, <1>3, <1>4, <1>5, <1>6, <1>7, <1>8

\* Every step keeps the types.
LEMMA TypeStep == TypeOK /\ [Next]_vars => TypeOK'
  <1> SUFFICES ASSUME TypeOK, [Next]_vars PROVE TypeOK'
    OBVIOUS
  <1>1. CASE AnswerPoll
    BY <1>1, AnswerPollType
  <1>2. CASE \/ SetupEntry \/ StartUnload \/ FinishUnload \/ UnloadFailedSetup
             \/ StartPoll \/ DeliverNotice \/ Publish \/ Tick
    BY <1>2, OtherStepType
  <1>3. CASE UNCHANGED vars
    BY <1>3 DEF TypeOK, vars, entryVars, refreshVars, bookVars, viewVars, Resources
  <1> QED BY <1>1, <1>2, <1>3 DEF Next

\* The initial state is well typed.
LEMMA TypeInit == Init => TypeOK
  <1> SUFFICES ASSUME Init PROVE TypeOK
    OBVIOUS
  <1>1. /\ NoStreak \in Streaks(AuthGrace, AuthMin)
        /\ NoStreak \in Streaks(StaleGrace, StaleMin)
    BY NoStreakType, ThresholdsAssumption
  <1>2. shown \in [success : BOOLEAN, stale : SUBSET Optional]
    BY DEF Init
  <1>3. degraded \in [Optional -> Streaks(StaleGrace, StaleMin)]
    BY <1>1 DEF Init
  <1> QED BY <1>1, <1>2, <1>3 DEF Init, TypeOK

\* Type correctness of the coordinator and of the entry that owns it.
THEOREM TypeCorrect == Spec => []TypeOK
  <1>1. Init => TypeOK
    BY TypeInit
  <1>2. TypeOK /\ [Next]_vars => TypeOK'
    BY TypeStep
  <1> QED BY <1>1, <1>2, PTL DEF Spec

-------------------------------------------------------------------------------
(* Last-known-good data. What makes it inductive: a published value belongs *)
(* to a key that was asked for and has answered, a refresh runs only where  *)
(* a coordinator lives, and the payload being enriched already holds        *)
(* everything the coordinator has.                                          *)

RetentionInv ==
    /\ TypeOK
    /\ data \cup pending \subseteq (Enabled \ Merged) \cap answered
    /\ entry \notin {"loaded", "unloading"} => data = {}
    /\ phase # "idle" => entry \in {"setup", "loaded", "unloading"}
    /\ phase = "polling" => requested = Wanted(forbidden)
    /\ phase = "enriching" => data \subseteq pending

\* Whatever a surviving cycle's results are, the payload it builds keeps every
\* key the coordinator has a value for.
LEMMA RetainedKeeps ==
    ASSUME RetentionInv, NEW r \in Results, CycleSurvives(r)
    PROVE  data \subseteq pending'
  <1> SUFFICES ASSUME NEW k \in data PROVE k \in pending'
    OBVIOUS
  <1>1. /\ pending' = Retained(r, forbidden')
        /\ forbidden' = forbidden \cup Denied(r)
        /\ requested = Wanted(forbidden)
        /\ ~Rejected(r)
    BY DEF CycleSurvives, RetentionInv
  <1>2. k \in Enabled /\ k \notin Merged /\ k \in answered /\ k \in Optional
    BY DEF RetentionInv, TypeOK
  <1>3. CASE k \in forbidden
    BY <1>1, <1>3 DEF Retained
  <1>4. CASE k \notin forbidden
    <2>1. k \in DOMAIN r /\ r[k] \in OutcomeKinds /\ k \notin Required
      BY <1>1, <1>2, <1>4, ResourcesAssumption DEF Results, Wanted
    <2>2. r[k] # "rejected"
      BY <1>1, <2>1 DEF Rejected, Ending
    <2>3. CASE r[k] = "ok"
      BY <1>1, <1>2, <2>1, <2>3 DEF Retained, Fresh, Payload, Ending
    <2>4. CASE r[k] = "denied"
      <3>1. k \in Denied(r)
        BY <1>2, <1>4, <2>1, <2>4 DEF Denied, Ending
      <3> QED BY <1>1, <3>1 DEF Retained
    <2>5. CASE r[k] \in {"limited", "missing", "unreachable"}
      <3>1. k \notin Unsupported(r)
        BY <1>2 DEF Unsupported
      <3>2. k \in Transient(r) \cup Denied(r)
        BY <2>1, <2>5, <3>1 DEF Transient, Ending
      <3> QED BY <1>1, <3>2 DEF Retained
    <2> QED BY <2>1, <2>2, <2>3, <2>4, <2>5 DEF OutcomeKinds
  <1> QED BY <1>3, <1>4

\* What a surviving cycle is about to publish was asked for and has answered.
LEMMA RetainedAnswered ==
    ASSUME RetentionInv, NEW r \in Results, CycleSurvives(r)
    PROVE  pending' \subseteq (Enabled \ Merged) \cap answered'
  <1>1. /\ pending' = Retained(r, forbidden')
        /\ answered' = answered \cup (Payload(r) \cap Optional)
        /\ requested = Wanted(forbidden)
    BY DEF CycleSurvives, RetentionInv
  <1>2. Payload(r) \cap Optional \subseteq Enabled
    BY <1>1, ResourcesAssumption DEF Payload, Ending, Results, Wanted
  <1>3. Fresh(r, forbidden') \subseteq (Enabled \ Merged) \cap answered'
    BY <1>1, <1>2 DEF Fresh
  <1> QED BY <1>1, <1>3 DEF Retained, RetentionInv

\* The retention invariant survives a coordinator's end.
LEMMA RetentionGone ==
    ASSUME CoordinatorGone, TypeOK'
    PROVE  RetentionInv'
  BY DEF CoordinatorGone, RetentionInv

\* The retention invariant is inductive.
LEMMA RetentionStep == RetentionInv /\ [Next]_vars => RetentionInv'
  <1> SUFFICES ASSUME RetentionInv, [Next]_vars PROVE RetentionInv'
    OBVIOUS
  <1> USE DEF Wanted
  <1>0. TypeOK'
    BY TypeStep DEF RetentionInv
  <1>1. CASE SetupEntry
    BY <1>0, <1>1 DEF SetupEntry, RetentionInv, viewVars
  <1>2. CASE StartUnload
    BY <1>0, <1>2 DEF StartUnload, RetentionInv, refreshVars, bookVars, viewVars
  <1>3. CASE FinishUnload
    BY <1>0, <1>3, RetentionGone DEF FinishUnload
  <1>4. CASE UnloadFailedSetup
    BY <1>0, <1>4 DEF UnloadFailedSetup, RetentionInv, refreshVars, bookVars, viewVars
  <1>5. CASE StartPoll
    BY <1>0, <1>5 DEF StartPoll, RetentionInv, entryVars, bookVars, viewVars
  <1>6. CASE DeliverNotice
    BY <1>0, <1>6 DEF DeliverNotice, RetentionInv, entryVars, refreshVars, bookVars
  <1>7. CASE Publish
    BY <1>0, <1>7 DEF Publish, RetentionInv, bookVars
  <1>8. CASE Tick
    BY <1>0, <1>8 DEF Tick, RetentionInv, viewVars
  <1>9. CASE AnswerPoll
    <2> SUFFICES ASSUME NEW r \in Results,
                        \/ CycleUnreachable(r) \/ CycleRejectedUnstable(r)
                        \/ CycleRejected(r) \/ CycleEscalates(r)
                        \/ CycleRefused(r) \/ CycleSurvives(r)
                 PROVE  RetentionInv'
      BY <1>9 DEF AnswerPoll
    <2>1. CASE CycleFails
      BY <1>0, <2>1, RetentionGone DEF CycleFails, RetentionInv, bookVars
    <2>2. CASE CycleEscalates(r)
      BY <1>0, <2>2, RetentionGone DEF CycleEscalates, RetentionInv, bookVars
    <2>3. CASE CycleSurvives(r)
      <3>1. data \subseteq pending' /\ data' = data /\ entry' = entry
        BY <2>3, RetainedKeeps DEF CycleSurvives
      <3>2. pending' \subseteq (Enabled \ Merged) \cap answered'
        BY <2>3, RetainedAnswered
      <3>3. /\ phase = "polling" /\ phase' = "enriching"
            /\ answered \subseteq answered'
        BY <2>3 DEF CycleSurvives
      <3> QED BY <1>0, <3>1, <3>2, <3>3 DEF RetentionInv
    <2> QED
      BY <2>1, <2>2, <2>3
      DEF CycleUnreachable, CycleRejectedUnstable, CycleRejected, CycleRefused
  <1>10. CASE UNCHANGED vars
    BY <1>0, <1>10 DEF RetentionInv, vars, entryVars, refreshVars, bookVars, viewVars
  <1> QED
    BY <1>1, <1>2, <1>3, <1>4, <1>5, <1>6, <1>7, <1>8, <1>9, <1>10 DEF Next

\* No step of a coordinator with data takes a value away.
LEMMA RetentionKeepsStep ==
    ASSUME RetentionInv, [Next]_vars,
           entry \in {"loaded", "unloading"}, entry' # "unloaded"
    PROVE  data \subseteq data'
  <1>1. CASE Publish
    BY <1>1 DEF Publish, RetentionInv
  <1>2. CASE AnswerPoll
    BY <1>2
    DEF AnswerPoll, CycleUnreachable, CycleRejectedUnstable, CycleRejected,
        CycleEscalates, CycleRefused, CycleSurvives, CycleFails
  <1>3. CASE \/ SetupEntry \/ StartUnload \/ FinishUnload \/ UnloadFailedSetup
             \/ StartPoll \/ DeliverNotice \/ Tick
    BY <1>3
    DEF SetupEntry, StartUnload, FinishUnload, UnloadFailedSetup, StartPoll,
        DeliverNotice, Tick, viewVars
  <1>4. CASE UNCHANGED vars
    BY <1>4 DEF vars, viewVars
  <1> QED BY <1>1, <1>2, <1>3, <1>4 DEF Next

\* The retention invariant holds throughout.
LEMMA RetentionAlways == Spec => []RetentionInv
  <1>1. Init => RetentionInv
    BY TypeInit DEF Init, RetentionInv
  <1>2. RetentionInv /\ [Next]_vars => RetentionInv'
    BY RetentionStep
  <1> QED BY <1>1, <1>2, PTL DEF Spec

\* A coordinator never lets go of a value the server sent, for any resources,
\* scopes and thresholds: the dynamic-entity sync never removes a device because
\* a request failed.
THEOREM LastKnownGoodAlwaysKept == Spec => LastKnownGoodKept
  <1>1. RetentionInv /\ [Next]_vars
          => [(entry \in {"loaded", "unloading"} /\ entry' # "unloaded")
                => data \subseteq data']_vars
    BY RetentionKeepsStep
  <1> QED BY <1>1, RetentionAlways, PTL DEF Spec, LastKnownGoodKept

-------------------------------------------------------------------------------
(* Denied scopes. What makes it inductive: the first surviving cycle marks  *)
(* the seeded denials stale before the entry is loaded.                     *)

ScopeInv ==
    /\ RetentionInv
    /\ phase # "polling" => requested = {}
    /\ (entry = "loaded" \/ phase = "enriching") => forbidden \subseteq stale
    /\ \A j, k \in Optional :
          j \in forbidden /\ ScopeOf[j] = ScopeOf[k] => k \in forbidden

\* The scope invariant is inductive.
LEMMA ScopeStep == ScopeInv /\ [Next]_vars => ScopeInv'
  <1> SUFFICES ASSUME ScopeInv, [Next]_vars PROVE ScopeInv'
    OBVIOUS
  <1>0. RetentionInv'
    BY RetentionStep DEF ScopeInv
  <1>1. CASE SetupEntry
    <2>1. PICK listed \in SUBSET Scopes :
             forbidden' = {k \in Optional : ScopeOf[k] \in listed}
      BY <1>1 DEF SetupEntry
    <2>2. entry' = "setup" /\ phase' = "polling"
      BY <1>1 DEF SetupEntry
    <2> QED BY <1>0, <2>1, <2>2 DEF ScopeInv
  <1>2. CASE StartUnload
    BY <1>0, <1>2 DEF StartUnload, ScopeInv, refreshVars, bookVars
  <1>3. CASE FinishUnload
    BY <1>0, <1>3 DEF FinishUnload, CoordinatorGone, ScopeInv
  <1>4. CASE UnloadFailedSetup
    BY <1>0, <1>4 DEF UnloadFailedSetup, ScopeInv, refreshVars, bookVars
  <1>5. CASE StartPoll
    BY <1>0, <1>5 DEF StartPoll, ScopeInv, entryVars, bookVars
  <1>6. CASE DeliverNotice
    BY <1>0, <1>6 DEF DeliverNotice, ScopeInv, entryVars, refreshVars, bookVars
  <1>7. CASE Publish
    BY <1>0, <1>7 DEF Publish, ScopeInv, bookVars
  <1>8. CASE Tick
    BY <1>0, <1>8 DEF Tick, ScopeInv
  <1>9. CASE AnswerPoll
    <2> SUFFICES ASSUME NEW r \in Results,
                        \/ CycleUnreachable(r) \/ CycleRejectedUnstable(r)
                        \/ CycleRejected(r) \/ CycleEscalates(r)
                        \/ CycleRefused(r) \/ CycleSurvives(r)
                 PROVE  ScopeInv'
      BY <1>9 DEF AnswerPoll
    <2>1. CASE CycleFails
      BY <1>0, <2>1 DEF CycleFails, CoordinatorGone, ScopeInv, bookVars
    <2>2. CASE CycleEscalates(r)
      BY <1>0, <2>2 DEF CycleEscalates, CoordinatorGone, ScopeInv, bookVars
    <2>3. CASE CycleSurvives(r)
      <3>1. /\ forbidden' = forbidden \cup Denied(r)
            /\ forbidden' \subseteq stale'
            /\ requested' = {} /\ phase' = "enriching"
        BY <2>3 DEF CycleSurvives, Stale
      <3>2. \A j, k \in Optional :
              j \in forbidden' /\ ScopeOf[j] = ScopeOf[k] => k \in forbidden'
        BY <3>1 DEF ScopeInv, Denied
      <3> QED BY <1>0, <3>1, <3>2 DEF ScopeInv
    <2> QED
      BY <2>1, <2>2, <2>3
      DEF CycleUnreachable, CycleRejectedUnstable, CycleRejected, CycleRefused
  <1>10. CASE UNCHANGED vars
    BY <1>0, <1>10 DEF ScopeInv, vars, entryVars, refreshVars, bookVars
  <1> QED
    BY <1>1, <1>2, <1>3, <1>4, <1>5, <1>6, <1>7, <1>8, <1>9, <1>10 DEF Next

\* What the token may not read stays withdrawn as a whole scope, whichever of
\* its keys was refused and whenever.
THEOREM ForbiddenAlwaysWithdrawn == Spec => []ForbiddenWithdrawn
  <1>1. Init => ScopeInv
    BY TypeInit DEF Init, RetentionInv, ScopeInv
  <1>2. ScopeInv /\ [Next]_vars => ScopeInv'
    BY ScopeStep
  <1>3. ScopeInv => ForbiddenWithdrawn
    <2>1. ScopeInv => requested \cap forbidden = {}
      BY ResourcesAssumption DEF ScopeInv, RetentionInv, TypeOK, Wanted
    <2> QED BY <2>1 DEF ScopeInv, ForbiddenWithdrawn
  <1> QED BY <1>1, <1>2, <1>3, PTL DEF Spec

-------------------------------------------------------------------------------
(* Availability on display. What makes it inductive: while a notice is      *)
(* queued only the outright failure has to be on display.                   *)

DisplayInv ==
    /\ TypeOK
    /\ entry = "loaded" =>
          /\ shown.success <=> success
          /\ success /\ ~notice => shown.stale = stale

\* The display invariant is inductive.
LEMMA DisplayStep == DisplayInv /\ [Next]_vars => DisplayInv'
  <1> SUFFICES ASSUME DisplayInv, [Next]_vars PROVE DisplayInv'
    OBVIOUS
  <1>0. TypeOK'
    BY TypeStep DEF DisplayInv
  <1>1. CASE SetupEntry
    BY <1>0, <1>1 DEF SetupEntry, DisplayInv
  <1>2. CASE StartUnload
    BY <1>0, <1>2 DEF StartUnload, DisplayInv
  <1>3. CASE FinishUnload
    BY <1>0, <1>3 DEF FinishUnload, DisplayInv
  <1>4. CASE UnloadFailedSetup
    BY <1>0, <1>4 DEF UnloadFailedSetup, DisplayInv
  <1>5. CASE StartPoll
    BY <1>0, <1>5 DEF StartPoll, DisplayInv, entryVars, bookVars, viewVars
  <1>6. CASE DeliverNotice
    BY <1>0, <1>6 DEF DeliverNotice, DisplayInv, entryVars, bookVars
  <1>7. CASE Publish
    BY <1>0, <1>7 DEF Publish, DisplayInv, bookVars
  <1>8. CASE Tick
    BY <1>0, <1>8 DEF Tick, DisplayInv, viewVars
  <1>9. CASE AnswerPoll
    <2> SUFFICES ASSUME NEW r \in Results,
                        \/ CycleUnreachable(r) \/ CycleRejectedUnstable(r)
                        \/ CycleRejected(r) \/ CycleEscalates(r)
                        \/ CycleRefused(r) \/ CycleSurvives(r)
                 PROVE  DisplayInv'
      BY <1>9 DEF AnswerPoll
    <2>1. CASE CycleFails
      BY <1>0, <2>1 DEF CycleFails, DisplayInv, bookVars
    <2>2. CASE CycleEscalates(r)
      BY <1>0, <2>2 DEF CycleEscalates, DisplayInv, bookVars
    <2>3. CASE CycleSurvives(r)
      BY <1>0, <2>3 DEF CycleSurvives, Notifies, DisplayInv
    <2> QED
      BY <2>1, <2>2, <2>3
      DEF CycleUnreachable, CycleRejectedUnstable, CycleRejected, CycleRefused
  <1>10. CASE UNCHANGED vars
    BY <1>0, <1>10 DEF DisplayInv, vars, entryVars, bookVars, viewVars
  <1> QED
    BY <1>1, <1>2, <1>3, <1>4, <1>5, <1>6, <1>7, <1>8, <1>9, <1>10 DEF Next

\* Home Assistant shows the availability the coordinator has, although it is
\* told of a change only where the code tells it.
THEOREM AvailabilityAlwaysShown == Spec => []ShownAvailability
  <1>1. Init => DisplayInv
    BY TypeInit DEF Init, DisplayInv
  <1>2. DisplayInv /\ [Next]_vars => DisplayInv'
    BY DisplayStep
  <1>3. DisplayInv => ShownAvailability
    BY DEF DisplayInv, ShownAvailability, ShownAvailable, Available
  <1> QED BY <1>1, <1>2, <1>3, PTL DEF Spec
===============================================================================
