------------------------------ MODULE AuthHistory ------------------------------
(***************************************************************************)
(* MOSCoordinator with a record of what its polls have said about the      *)
(* token, kept apart from the streak the code keeps, for the properties of *)
(* the reauth prompt.                                                      *)
(***************************************************************************)
EXTENDS MOSCoordinator

VARIABLES
    last,        \* what the last poll that ended saw, over all coordinators
    quiet,       \* ticks since a poll last spoke against a revoked token
    rejections,  \* polls rejected since then
    renewed      \* polls rejected since a prompt was last answered

historyVars == <<last, quiet, rejections, renewed>>
avars == <<vars, historyVars>>

AInit ==
    /\ Init
    /\ last = "none" /\ quiet = 0 /\ rejections = 0 /\ renewed = 0

\* The poll was rejected and nothing excuses the rejection.
RecordRejection ==
    /\ last' = "rejected"
    /\ rejections' = Saturated(rejections, AuthMin)
    /\ renewed' = Saturated(renewed, AuthMin)
    /\ UNCHANGED quiet

\* The token was accepted, or the server was too unstable to tell.
RecordDoubt ==
    /\ last' = "doubt"
    /\ quiet' = 0 /\ rejections' = 0
    /\ UNCHANGED renewed

\* The cycle failed without a word about the token.
RecordSilence ==
    /\ last' = "silence"
    /\ UNCHANGED <<quiet, rejections, renewed>>

AAnswerPoll ==
    \E r \in Results :
        \/ CycleUnreachable(r) /\ Unstable(r) /\ RecordDoubt
        \/ CycleUnreachable(r) /\ ~Unstable(r) /\ RecordSilence
        \/ CycleRejectedUnstable(r) /\ RecordDoubt
        \/ CycleRejected(r) /\ RecordRejection
        \/ CycleEscalates(r) /\ RecordRejection
        \/ CycleRefused(r) /\ Unstable(r) /\ RecordDoubt
        \/ CycleRefused(r) /\ ~Unstable(r) /\ RecordSilence
        \/ CycleSurvives(r) /\ RecordDoubt

ATick ==
    /\ Tick
    /\ quiet' = Saturated(quiet, AuthGrace)
    /\ UNCHANGED <<last, rejections, renewed>>

AReload ==
    /\ StartUnload \/ UnloadFailedSetup
    /\ renewed' = IF reauth /\ ~reauth' THEN 0 ELSE renewed
    /\ UNCHANGED <<last, quiet, rejections>>

AOther ==
    /\ SetupEntry \/ FinishUnload \/ StartPoll \/ DeliverNotice \/ Publish
    /\ UNCHANGED historyVars

ANext == AAnswerPoll \/ ATick \/ AReload \/ AOther

ASpec == AInit /\ [][ANext]_avars
AFairSpec == ASpec /\ Fairness

-------------------------------------------------------------------------------
AuthTypeOK ==
    /\ TypeOK
    /\ last \in {"none", "rejected", "doubt", "silence"}
    /\ quiet \in 0..AuthGrace
    /\ rejections \in 0..AuthMin
    /\ renewed \in 0..AuthMin

\* The prompt is earned: when it opens, no poll of any coordinator of the entry
\* has had the token accepted, or met a communication error, for the grace
\* period, and at least the minimum of polls were rejected meanwhile
\* (_handle_failed_resources; AUTH_FAILURE_STORE outlives the coordinators).
EscalationEarned ==
    [][(~reauth /\ reauth')
          => quiet' >= AuthGrace /\ rejections' >= AuthMin]_avars

\* A token that stays revoked gets its prompt, also when the entry never
\* finishes setup and every attempt polls with a new coordinator.
RevokedTokenPrompts ==
    <>[](last = "rejected" /\ entry \notin {"unloaded", "unloading"})
        => []<>reauth

\* README: the prompt "appears once the server has rejected the token for at
\* least five minutes and on three consecutive polls". A token entered at a
\* prompt is a new token, and reloads the entry.
NewTokenGetsItsPolls ==
    [][(~reauth /\ reauth') => renewed' >= AuthMin]_avars
===============================================================================
