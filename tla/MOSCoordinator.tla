---------------------------- MODULE MOSCoordinator ----------------------------
(***************************************************************************)
(* The poll cycle of MOSDataUpdateCoordinator and the config entry that    *)
(* owns it (coordinator/base.py, __init__.py).                             *)
(*                                                                         *)
(* A refresh has three steps, because the code awaits between them:        *)
(*                                                                         *)
(*   StartPoll      _build_update_tasks and the gather that awaits it      *)
(*   Cycle...       triage, the cycle-fatal checks and the per-resource    *)
(*                  bookkeeping: one run of code without an await          *)
(*   Publish        the enrichment awaits (templates, stats, icons) are    *)
(*                  over and Home Assistant assigns the returned data      *)
(*                                                                         *)
(* One refresh at a time is modelled here; what overlapping refreshes and  *)
(* switch actions do to each other is another module's question.           *)
(*                                                                         *)
(* A duration is an age in ticks, a tick being the longest time between    *)
(* the starts of two successive refreshes; an age or a failure count stops *)
(* at the threshold it is compared with, for the code only asks whether it *)
(* has been reached.                                                       *)
(***************************************************************************)
EXTENDS Naturals, FiniteSets

CONSTANTS
    Optional,        \* resources that fail for themselves only
    Required,        \* ALWAYS_FETCHED_RESOURCES
    Scopes,          \* resource names of a token's permission block
    ScopeOf,         \* PERMISSION_RESOURCE_BY_KEY, on the optional resources
    Enabled,         \* optional resources the options ask for
    Merged,          \* fetched for another key's items, popped before publishing
    Outcomes,        \* how a request may end in this instance
    AuthGrace,       \* AUTH_FAILURE_GRACE_PERIOD
    AuthMin,         \* AUTH_FAILURE_MIN_FAILURES
    StaleGrace,      \* RESOURCE_STALE_GRACE_PERIOD
    StaleMin         \* RESOURCE_STALE_MIN_FAILURES

\* The exception classes _triage_results tells apart, and success.
OutcomeKinds ==
    {"ok", "rejected", "denied", "limited", "missing", "unreachable"}

ASSUME ResourcesAssumption ==
    /\ IsFiniteSet(Optional) /\ IsFiniteSet(Required)
    /\ Optional \cap Required = {}
    /\ Enabled \subseteq Optional /\ Merged \subseteq Optional
    /\ ScopeOf \in [Optional -> Scopes]
    /\ Outcomes \subseteq OutcomeKinds

ASSUME ThresholdsAssumption ==
    /\ AuthGrace \in Nat /\ AuthMin \in Nat \ {0}
    /\ StaleGrace \in Nat /\ StaleMin \in Nat \ {0}

VARIABLES
    entry,        \* state of the config entry
    reauth,       \* a reauth flow is open for the entry
    streak,       \* hass.data[AUTH_FAILURE_STORE][entry_id]: outlives coordinators
    phase,        \* where the coordinator's refresh is
    requested,    \* keys of the tasks the running refresh awaits
    scheduled,    \* the refresh timer is armed, or a refresh will arm it
    due,          \* a tick has passed since the last refresh started
    degraded,     \* _degraded_resources
    forbidden,    \* forbidden_resources
    answered,     \* _answered_resources
    unsupported,  \* _unsupported_resources
    stale,        \* _stale_resources
    notice,       \* a call_soon(async_update_listeners) is queued
    success,      \* last_update_success
    data,         \* keys whose value in self.data came from the server
    pending,      \* the same, of the payload being enriched
    shown         \* what the entities last wrote to the state machine

entryVars == <<entry, reauth, streak>>
refreshVars == <<phase, requested, scheduled, due>>
bookVars == <<degraded, forbidden, answered, unsupported, stale>>
viewVars == <<success, data, pending, shown>>
vars == <<entryVars, refreshVars, bookVars, notice, viewVars>>

Resources == Optional \cup Required

-------------------------------------------------------------------------------
(* Failure streaks: _AuthFailureStreak and _DegradedResource.              *)

Streaks(grace, min) == [age : 0..grace, failures : 0..min]

NoStreak == [age |-> 0, failures |-> 0]

Saturated(n, bound) == IF n < bound THEN n + 1 ELSE n

Failing(s) == s.failures > 0

\* Mutant: every failed poll starts the timer again.
CountedAnew(s, min) == [age |-> 0, failures |-> Saturated(s.failures, min)]

\* One more failed poll: the first starts the timer, a later one keeps it.
Counted(s, min) == [s EXCEPT !.failures = Saturated(@, min)]

\* Time passing on a running timer.
Aged(s, grace) ==
    IF Failing(s) THEN [s EXCEPT !.age = Saturated(@, grace)] ELSE s

\* Mutant: the count alone decides.
SustainedByCount(s, grace, min) == s.failures >= min

\* Both halves of a guard.
Sustained(s, grace, min) == s.age >= grace /\ s.failures >= min

-------------------------------------------------------------------------------
(* One cycle's results r, a function from the requested keys to outcomes.  *)

Results == [requested -> Outcomes]

Ending(r, kinds) == {k \in DOMAIN r : r[k] \in kinds}

Payload(r) == Ending(r, {"ok"})

RequiredUnreachable(r) == Ending(r, {"unreachable", "missing"}) \cap Required # {}

Rejected(r) == Ending(r, {"rejected"}) # {}

Unstable(r) == Ending(r, {"unreachable"}) # {}

RequiredRefused(r) == Ending(r, {"denied", "limited"}) \cap Required # {}

\* Mutant: only a poll that gets through clears the streak.
AfterInstabilityKept(r) == streak

\* _handle_failed_resources: a communication error clears the streak first.
AfterInstability(r) == IF Unstable(r) THEN NoStreak ELSE streak

\* Mutant: a refusal settles the key that was refused.
DeniedAlone(r) == Ending(r, {"denied"}) \ (Required \cup forbidden)

\* _absorb_scope_denials: one refusal settles every key of the same scope.
Denied(r) ==
    LET refused == Ending(r, {"denied"}) \ (Required \cup forbidden)
    IN  {k \in Optional : \E d \in refused : ScopeOf[k] = ScopeOf[d]}

\* Mutant: any 404 means that the server does not offer the endpoint.
UnsupportedEveryMiss(r) == Ending(r, {"missing"}) \ (Payload(r) \cup Required)

\* _classify_unsupported_resources: a 404 from an endpoint that never answered.
Unsupported(r) ==
    Ending(r, {"missing"}) \ (answered \cup Payload(r) \cup Required)

\* _classify_transient_resource_failures: what keeps its last-known-good data.
Transient(r) ==
    Ending(r, {"denied", "limited", "missing", "unreachable"})
        \ (Required \cup Denied(r) \cup Unsupported(r))

\* _track_degraded_resources: rebuilt on every cycle that gets this far.
Degraded(r) ==
    [k \in Optional |->
        IF k \in Transient(r) THEN Counted(degraded[k], StaleMin) ELSE NoStreak]

\* _update_stale_resources.
Stale(d, f) == {k \in Optional : Sustained(d[k], StaleGrace, StaleMin)} \cup f

\* Mutant: the always-fetched keys are mixed up with the optional ones.
FreshAll(r, f) == Payload(r) \ f

\* The answers that are published: where there is previous data, which a loaded
\* entry has, a forbidden key keeps it even if a sibling's request was answered.
Fresh(r, f) ==
    (Payload(r) \cap Optional) \ (Merged \cup (IF entry = "setup" THEN {} ELSE f))

\* Mutant: entities are told of a resource going stale, not of its recovery.
NotifiesWorse(s) == notice \/ ~(s \subseteq stale)

\* _update_stale_resources: entities are told of any change of the stale set.
Notifies(s) == notice \/ s # stale

\* _retain_last_known_good.
Retained(r, f) == Fresh(r, f) \cup (data \cap (Transient(r) \cup f))

\* _build_update_tasks.
Wanted(f) == Required \cup (Enabled \ f)

-------------------------------------------------------------------------------
(* Coordinators come and go with the attempts to set the entry up.         *)

\* Home Assistant drops the coordinator together with its timer and its task.
CoordinatorGone ==
    /\ phase' = "idle" /\ requested' = {} /\ scheduled' = FALSE /\ due' = FALSE
    /\ degraded' = [k \in Optional |-> NoStreak]
    /\ forbidden' = {} /\ answered' = {} /\ unsupported' = {} /\ stale' = {}
    /\ notice' = FALSE
    /\ success' = TRUE /\ data' = {} /\ pending' = {}
    /\ shown' = [success |-> FALSE, stale |-> {}]

Init ==
    /\ entry = "unloaded" /\ reauth = FALSE /\ streak = NoStreak
    /\ phase = "idle" /\ requested = {} /\ scheduled = FALSE /\ due = FALSE
    /\ degraded = [k \in Optional |-> NoStreak]
    /\ forbidden = {} /\ answered = {} /\ unsupported = {} /\ stale = {}
    /\ notice = FALSE
    /\ success = TRUE /\ data = {} /\ pending = {}
    /\ shown = [success |-> FALSE, stale |-> {}]

\* Mutant: the streak lives on the coordinator, so each attempt starts without.
SetupEntryAfresh ==
    /\ entry \in {"unloaded", "retry"}
    /\ entry' = "setup" /\ streak' = NoStreak
    /\ \E listed \in SUBSET Scopes :
          forbidden' = {k \in Optional : ScopeOf[k] \in listed}
    /\ requested' = Wanted(forbidden')
    /\ phase' = "polling" /\ scheduled' = TRUE /\ due' = FALSE
    /\ UNCHANGED <<reauth, degraded, answered, unsupported, stale, notice, viewVars>>

\* async_setup_entry up to the gather of the first refresh: a new coordinator,
\* seeded with whatever scopes the token's own permission block denies.
SetupEntry ==
    /\ entry \in {"unloaded", "retry"}
    /\ entry' = "setup"
    /\ \E listed \in SUBSET Scopes :
          forbidden' = {k \in Optional : ScopeOf[k] \in listed}
    /\ requested' = Wanted(forbidden')
    /\ phase' = "polling" /\ scheduled' = TRUE /\ due' = FALSE
    /\ UNCHANGED <<reauth, streak, degraded, answered, unsupported, stale,
                   notice, viewVars>>

\* async_unload_entry: the streak is dropped before the platforms are awaited,
\* and a refresh in flight is cancelled only after that. The flow stays open
\* unless it is what asked for the reload.
StartUnload ==
    /\ entry = "loaded"
    /\ entry' = "unloading"
    /\ streak' = NoStreak
    /\ reauth' \in {reauth, FALSE}
    /\ UNCHANGED <<refreshVars, bookVars, notice, viewVars>>

FinishUnload ==
    /\ entry = "unloading"
    /\ entry' = "unloaded"
    /\ UNCHANGED <<reauth, streak>>
    /\ CoordinatorGone

\* An entry that never finished setup is unloaded without async_unload_entry.
UnloadFailedSetup ==
    /\ entry \in {"retry", "error"}
    /\ entry' = "unloaded"
    /\ reauth' \in {reauth, FALSE}
    /\ UNCHANGED <<streak, refreshVars, bookVars, notice, viewVars>>

-------------------------------------------------------------------------------
(* The refresh.                                                            *)

\* The timer fires, or update_entity asks for a refresh: the latter is how a
\* coordinator whose polling stopped may still poll.
StartPoll ==
    /\ entry = "loaded" /\ phase = "idle" /\ ~notice
    /\ phase' = "polling"
    /\ requested' = Wanted(forbidden)
    /\ due' = FALSE
    /\ UNCHANGED <<entryVars, scheduled, bookVars, notice, viewVars>>

\* UpdateFailed. During setup it becomes ConfigEntryNotReady; on a loaded entry
\* the timer is armed again and listeners hear only of the first failure.
CycleFails ==
    IF entry = "setup"
    THEN entry' = "retry" /\ CoordinatorGone
    ELSE /\ phase' = "idle" /\ requested' = {} /\ scheduled' = TRUE
         /\ success' = FALSE
         /\ shown' = IF success THEN [success |-> FALSE, stale |-> stale] ELSE shown
         /\ UNCHANGED <<entry, due, bookVars, notice, data, pending>>

\* _raise_if_required_resource_unreachable.
CycleUnreachable(r) ==
    /\ phase = "polling" /\ RequiredUnreachable(r)
    /\ streak' = AfterInstability(r)
    /\ UNCHANGED reauth
    /\ CycleFails

\* A 401 next to a communication error counts for nothing.
CycleRejectedUnstable(r) ==
    /\ phase = "polling" /\ ~RequiredUnreachable(r) /\ Rejected(r) /\ Unstable(r)
    /\ streak' = NoStreak
    /\ UNCHANGED reauth
    /\ CycleFails

\* A 401 counts toward the streak; inside the grace period the poll is retried.
CycleRejected(r) ==
    /\ phase = "polling" /\ ~RequiredUnreachable(r) /\ Rejected(r) /\ ~Unstable(r)
    /\ streak' = Counted(streak, AuthMin)
    /\ ~Sustained(streak', AuthGrace, AuthMin)
    /\ UNCHANGED reauth
    /\ CycleFails

\* ConfigEntryAuthFailed: the flow opens and the timer is not armed again.
CycleEscalates(r) ==
    /\ phase = "polling" /\ ~RequiredUnreachable(r) /\ Rejected(r) /\ ~Unstable(r)
    /\ streak' = Counted(streak, AuthMin)
    /\ Sustained(streak', AuthGrace, AuthMin)
    /\ reauth' = TRUE
    /\ IF entry = "setup"
       THEN entry' = "error" /\ CoordinatorGone
       ELSE /\ phase' = "idle" /\ requested' = {} /\ scheduled' = FALSE
            /\ success' = FALSE
            /\ shown' = IF success THEN [success |-> FALSE, stale |-> stale] ELSE shown
            /\ UNCHANGED <<entry, due, bookVars, notice, data, pending>>

\* _raise_if_required_resource_failed: it leaves the auth streak as it is.
CycleRefused(r) ==
    /\ phase = "polling" /\ ~RequiredUnreachable(r) /\ ~Rejected(r) /\ RequiredRefused(r)
    /\ streak' = AfterInstability(r)
    /\ UNCHANGED reauth
    /\ CycleFails

\* Everything an always-fetched resource needed came back: the per-resource
\* bookkeeping, up to the first await of the enrichment.
CycleSurvives(r) ==
    /\ phase = "polling"
    /\ ~RequiredUnreachable(r) /\ ~Rejected(r) /\ ~RequiredRefused(r)
    /\ phase' = "enriching"
    /\ requested' = {}
    /\ streak' = NoStreak
    /\ forbidden' = forbidden \cup Denied(r)
    /\ answered' = answered \cup (Payload(r) \cap Optional)
    /\ unsupported' = Unsupported(r)
    /\ degraded' = Degraded(r)
    /\ stale' = Stale(degraded', forbidden')
    /\ notice' = Notifies(stale')
    /\ pending' = Retained(r, forbidden')
    /\ UNCHANGED <<entry, reauth, scheduled, due, success, data, shown>>

\* async_update_listeners, run by call_soon as soon as the refresh yields.
DeliverNotice ==
    /\ notice
    /\ notice' = FALSE
    /\ shown' = IF entry = "setup" THEN shown
                ELSE [success |-> success, stale |-> stale]
    /\ UNCHANGED <<entryVars, refreshVars, bookVars, success, data, pending>>

\* Home Assistant assigns the data and, with always_update off, notifies only
\* if it differs or the update had been failing. Setup creates the entities.
Publish ==
    /\ phase = "enriching"
    /\ phase' = "idle"
    /\ scheduled' = TRUE
    /\ success' = TRUE
    /\ data' = pending
    /\ pending' = {}
    /\ entry' = IF entry = "setup" THEN "loaded" ELSE entry
    /\ \E differs \in BOOLEAN :
          /\ data' # data => differs
          /\ shown' = IF differs \/ ~success \/ entry = "setup"
                      THEN [success |-> TRUE, stale |-> stale] ELSE shown
    /\ UNCHANGED <<reauth, streak, requested, due, bookVars, notice>>

-------------------------------------------------------------------------------
Waiting == phase # "idle" \/ (entry = "loaded" /\ scheduled)

\* At most one tick passes from the start of a refresh to the start of the next,
\* or to its end; the loop runs what call_soon queued before it waits.
Tick ==
    /\ ~notice
    /\ ~(due /\ Waiting)
    /\ due' = Waiting
    /\ streak' = Aged(streak, AuthGrace)
    /\ degraded' = [k \in Optional |-> Aged(degraded[k], StaleGrace)]
    /\ UNCHANGED <<entry, reauth, phase, requested, scheduled, forbidden, answered,
                   unsupported, stale, notice, viewVars>>

AnswerPoll ==
    \E r \in Results :
        \/ CycleUnreachable(r)
        \/ CycleRejectedUnstable(r)
        \/ CycleRejected(r)
        \/ CycleEscalates(r)
        \/ CycleRefused(r)
        \/ CycleSurvives(r)

Next ==
    \/ SetupEntry
    \/ StartUnload
    \/ FinishUnload
    \/ UnloadFailedSetup
    \/ StartPoll
    \/ AnswerPoll
    \/ DeliverNotice
    \/ Publish
    \/ Tick

\* Home Assistant retries a failed setup, fires the refresh timer it armed and
\* runs what is queued on the loop; every request ends, by its timeout at the
\* latest; time passes. Users and servers owe nothing.
Fairness ==
    /\ WF_vars(entry = "retry" /\ SetupEntry)
    /\ WF_vars(scheduled /\ StartPoll)
    /\ WF_vars(AnswerPoll)
    /\ WF_vars(DeliverNotice)
    /\ WF_vars(Publish)
    /\ WF_vars(FinishUnload)
    /\ WF_vars(Tick)

Spec == Init /\ [][Next]_vars
FairSpec == Spec /\ Fairness

-------------------------------------------------------------------------------
\* Every variable holds what its declaration says.
TypeOK ==
    /\ entry \in {"unloaded", "setup", "retry", "error", "loaded", "unloading"}
    /\ reauth \in BOOLEAN
    /\ streak \in Streaks(AuthGrace, AuthMin)
    /\ phase \in {"idle", "polling", "enriching"}
    /\ requested \subseteq Resources
    /\ scheduled \in BOOLEAN /\ due \in BOOLEAN
    /\ degraded \in [Optional -> Streaks(StaleGrace, StaleMin)]
    /\ forbidden \subseteq Optional
    /\ answered \subseteq Optional
    /\ unsupported \subseteq Optional
    /\ stale \subseteq Optional
    /\ notice \in BOOLEAN
    /\ success \in BOOLEAN
    /\ data \subseteq Optional /\ pending \subseteq Optional
    /\ shown \in [success : BOOLEAN, stale : SUBSET Optional]

\* A coordinator that has data never lets go of a resource the server has ever
\* filled: whatever fails, and however long, the key keeps a value the server
\* sent, so the dynamic-entity sync never sees the empty default that would
\* remove its devices (_retain_last_known_good, _classify_unsupported_resources,
\* _absorb_scope_denials, and the 401 that fails the cycle instead).
LastKnownGoodKept ==
    [][(entry \in {"loaded", "unloading"} /\ entry' # "unloaded")
          => data \subseteq data']_vars

\* MOSEntity.available, as the coordinator has it and as Home Assistant shows it.
Available(k) == success /\ k \notin stale
ShownAvailable(k) == shown.success /\ k \notin shown.stale

\* With always_update off nothing tells the entities that a resource went stale
\* or came back unless the coordinator does: once what call_soon queued has run,
\* the availability on display is the coordinator's (_update_stale_resources).
ShownAvailability ==
    entry = "loaded" /\ ~notice
        => \A k \in Optional : ShownAvailable(k) <=> Available(k)

\* What the token's scope denies, by its own listing or by a refusal the listing
\* did not announce, is neither asked for nor shown as current until a reload,
\* its siblings of the same scope included (_absorb_scope_denials).
ForbiddenWithdrawn ==
    entry = "loaded" =>
        /\ forbidden \subseteq stale
        /\ requested \cap forbidden = {}
        /\ \A j, k \in Optional :
              j \in forbidden /\ ScopeOf[j] = ScopeOf[k] => k \in forbidden

\* A resource that keeps failing goes stale, however the failures are mixed and
\* whatever fails with it, as long as the server keeps answering enough for
\* cycles to survive (_track_degraded_resources, _update_stale_resources).
FailingGoesStale ==
    \A k \in Optional :
        []<>(phase = "enriching") =>
            (Failing(degraded[k]) ~> (k \in stale \/ ~Failing(degraded[k])))

\* Every poll that ends finds nothing wrong.
AllWell ==
    (phase = "polling" /\ phase' # "polling")
        => phase' = "enriching" /\ \A k \in Optional : ~Failing(degraded'[k])

\* Whatever went wrong before, once the server answers every request again the
\* entry loads and its entities come back by themselves, but for what the token
\* may not read, unless a prompt or a user's unload intervened: no failure stops
\* the timer for good, and a recovery is shown although the data did not change
\* (_update_stale_resources; README, "everything comes back on its own").
RecoversAlone ==
    <>[][AllWell]_vars /\ <>[](entry \in {"setup", "retry", "loaded"} /\ ~reauth)
        => <>[](entry = "loaded" /\ shown.success /\ shown.stale \subseteq forbidden)
===============================================================================
