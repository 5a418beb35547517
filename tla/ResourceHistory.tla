---------------------------- MODULE ResourceHistory ----------------------------
(***************************************************************************)
(* MOSCoordinator with a record of how old every published value is and    *)
(* how its resource's failures were observed, for the properties of        *)
(* last-known-good data and of the staleness guard.                        *)
(***************************************************************************)
EXTENDS MOSCoordinator

CONSTANT AgeBound      \* where the recorded ages stop

ASSUME AgeBoundAssumption == AgeBound \in Nat /\ AgeBound > StaleGrace

VARIABLES
    age,          \* ticks since the server sent the value in self.data
    pendingAge,   \* the same for the payload being enriched
    counted,      \* failures counted since the last cycle that failed
    interrupted   \* resources with a failed cycle since their value was sent

historyVars == <<age, pendingAge, counted, interrupted>>
rvars == <<vars, historyVars>>

Zeroes == [k \in Optional |-> 0]

RInit ==
    /\ Init
    /\ age = Zeroes /\ pendingAge = Zeroes /\ counted = Zeroes
    /\ interrupted = {}

RSurvives(r) ==
    /\ CycleSurvives(r)
    /\ pendingAge' = [k \in Optional |->
                        IF k \in pending' \ Fresh(r, forbidden') THEN age[k] ELSE 0]
    /\ counted' = [k \in Optional |->
                     IF k \in Transient(r) THEN Saturated(counted[k], StaleMin) ELSE 0]
    /\ interrupted' = interrupted \ Fresh(r, forbidden')
    /\ UNCHANGED age

RFails(r) ==
    /\ \/ CycleUnreachable(r)
       \/ CycleRejectedUnstable(r)
       \/ CycleRejected(r)
       \/ CycleEscalates(r)
       \/ CycleRefused(r)
    /\ counted' = Zeroes
    /\ interrupted' = data'
    /\ UNCHANGED <<age, pendingAge>>

RPublish ==
    /\ Publish
    /\ age' = pendingAge
    /\ pendingAge' = Zeroes
    /\ UNCHANGED <<counted, interrupted>>

RTick ==
    /\ Tick
    /\ age' = [k \in Optional |-> IF k \in data THEN Saturated(age[k], AgeBound) ELSE 0]
    /\ pendingAge' = [k \in Optional |->
                        IF k \in pending THEN Saturated(pendingAge[k], AgeBound) ELSE 0]
    /\ UNCHANGED <<counted, interrupted>>

RFinishUnload ==
    /\ FinishUnload
    /\ age' = Zeroes /\ pendingAge' = Zeroes /\ counted' = Zeroes
    /\ interrupted' = {}

ROther ==
    /\ \/ SetupEntry \/ StartUnload \/ UnloadFailedSetup
       \/ StartPoll \/ DeliverNotice
    /\ UNCHANGED historyVars

RNext ==
    \/ \E r \in Results : RSurvives(r) \/ RFails(r)
    \/ RPublish \/ RTick \/ RFinishUnload \/ ROther

RSpec == RInit /\ [][RNext]_rvars

-------------------------------------------------------------------------------
\* A resource is withdrawn only when the value it would show is at least a
\* grace period old, unless the token's scope withdrew it: no passing hiccup
\* makes entities unavailable, however polls, failed cycles and recoveries
\* follow each other (_update_stale_resources).
StaleEarned ==
    \A k \in (stale \ forbidden) \cap data : age[k] >= StaleGrace

\* Up to two ticks from an answer to the first failure seen, and from the last
\* poll before the timer ran out to the one that sees it.
Slack == 3

\* What is shown as current is at most a grace period and two polls old, a poll
\* and its refresh taking up to two ticks, as long as no failed cycle came between
\* (_track_degraded_resources starts the timer at the first failure it sees).
CurrentIsRecent ==
    entry = "loaded" /\ success /\ phase # "enriching" =>
        \A k \in (data \ stale) \ interrupted : age[k] <= StaleGrace + Slack

\* const.py on RESOURCE_STALE_MIN_FAILURES: "an outage cannot age a resource into
\* staleness behind the coordinator's back; the streak has to be re-observed
\* after the server is answering again".
StaleReobserved ==
    [][\A k \in stale' \ (stale \cup forbidden') : counted'[k] >= StaleMin]_rvars
===============================================================================
