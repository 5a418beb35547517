------------------------------ MODULE DockerStats ------------------------------
(***************************************************************************)
(* What a Docker container costs (coordinator/docker_stats.py and          *)
(* _async_add_docker_stats in coordinator/base.py): the figures that come  *)
(* with the container list or, from a server too old for those, how far a  *)
(* cumulative counter moved between two readings of it.                    *)
(*                                                                         *)
(* One container. Its counter starts from zero whenever it is started. Of  *)
(* the machine's counter only differences matter: a reading keeps how far  *)
(* that has moved since. A reboot, which resets it, is not modelled.       *)
(***************************************************************************)
EXTENDS Integers

CONSTANTS
    MaxUsed,     \* how far the container's counter goes
    SampleTTL,   \* CPU_SAMPLE_TTL
    NoFigure,    \* None
    Reported     \* figures from a performance block

ASSUME StatsAssumption ==
    /\ MaxUsed \in Nat /\ SampleTTL \in Nat \ {0}
    /\ NoFigure \notin Int

VARIABLES
    used,        \* total_usage, as the engine has it
    runs,        \* the container runs
    modern,      \* the server sends performance blocks
    sample,      \* _cpu_samples: the usage then, and how far the machine came since
    state,       \* the container's state as the last poll merged it
    block,       \* its entry in the container list carries a performance block
    engineStale, \* docker_engine_containers is in stale_resources
    measuring,   \* the poll has asked the engine to measure the container
    figure,      \* stats_cpu_percent: two differences, or one of the constants
    spent,       \* history: what the container used since its sample was taken
    fair,        \* history: what it used between the readings of its figure
    asked        \* history: the last poll got its figure from the server

statsVars == <<used, runs, modern, sample, state, block, engineStale, measuring, figure,
               spent, fair, asked>>

NoSample == [usage |-> NoFigure, since |-> 0]
Capped(n, cap) == IF n > cap THEN cap ELSE n

StatsInit ==
    /\ used = 0 /\ runs = FALSE /\ modern \in BOOLEAN
    /\ sample = NoSample /\ state = FALSE /\ block = FALSE
    /\ engineStale = FALSE /\ measuring = FALSE
    /\ figure = NoFigure
    /\ spent = 0 /\ fair = 0 /\ asked = TRUE

\* The machine's counter moves on, and the container's may move with it.
Computes(work) ==
    /\ work > 0 => (runs /\ used < MaxUsed)
    /\ used' = used + work
    /\ spent' = Capped(spent + work, MaxUsed)
    /\ sample' = IF sample = NoSample THEN sample
                 ELSE [sample EXCEPT !.since = Capped(@ + 1, SampleTTL + 1)]
    /\ UNCHANGED <<runs, modern, state, block, engineStale, measuring, figure, fair, asked>>

StopContainer ==
    /\ runs
    /\ runs' = FALSE
    /\ UNCHANGED <<used, modern, sample, state, block, engineStale, measuring, figure,
                   spent, fair, asked>>

StartContainer ==
    /\ ~runs
    /\ runs' = TRUE /\ used' = 0
    /\ UNCHANGED <<modern, sample, state, block, engineStale, measuring, figure, spent, fair,
                   asked>>

\* The server is updated.
UpdateServer ==
    /\ ~modern
    /\ modern' = TRUE
    /\ UNCHANGED <<used, runs, sample, state, block, engineStale, measuring, figure, spent, fair,
                   asked>>

\* Mutant: a container that is not measured keeps its figures.
Unmeasured == figure

\* NO_DOCKER_STATS.
Blank == NoFigure

\* performance_stats: a server that sends figures sends them for what runs.
Performance == modern /\ runs

\* async_collect: only what runs is measured, and what a sensor wants (DockerStatsContext).
Collected(running, wanted) == running /\ wanted

\* _async_add_docker_stats up to its requests: engine says whether the engine's
\* list answered, and listed whether the container list did. One that failed is
\* retained with the block it had, one that the engine's list failed to update
\* with the state it had. stale is what _update_stale_resources made of the poll.
PollFigures(listed, engine, wanted, stale) ==
    /\ ~measuring
    /\ stale => ~engine
    /\ (engineStale /\ ~engine) => stale
    /\ engineStale' = stale
    /\ state' = IF engine THEN runs ELSE state
    /\ block' = IF listed THEN Performance ELSE block
    /\ measuring' = (~block' /\ ~stale /\ Collected(state', wanted))
    /\ figure' = IF block' THEN Reported ELSE IF measuring' THEN figure ELSE Blank
    /\ asked' = (listed /\ block')
    /\ UNCHANGED <<used, runs, modern, sample, spent, fair>>

\* Mutant: a counter that moved backwards is not told from one that moved on.
PercentOfAny(usage, since) ==
    IF usage = NoFigure \/ since = 0 THEN NoFigure
    ELSE [cpu |-> used - usage, system |-> since]

\* _cpu_percent, but for the division.
Percent(usage, since) ==
    IF usage = NoFigure \/ since = 0 \/ used < usage THEN NoFigure
    ELSE [cpu |-> used - usage, system |-> since]

\* async_measure: a reading with counters. Only a running container has them.
Measured ==
    /\ measuring /\ runs
    /\ measuring' = FALSE
    /\ figure' = Percent(sample.usage, sample.since)
    /\ sample' = [usage |-> used, since |-> 0]
    /\ fair' = spent /\ spent' = 0 /\ asked' = TRUE
    /\ UNCHANGED <<used, runs, modern, state, block, engineStale>>

\* _prune_cpu_samples, after the requests of every poll that makes any.
Pruned == IF sample.since > SampleTTL THEN NoSample ELSE sample

\* A request that failed, or that found no counters.
NotMeasured ==
    /\ measuring
    /\ measuring' = FALSE
    /\ figure' = Blank
    /\ sample' = Pruned
    /\ UNCHANGED <<used, runs, modern, state, block, engineStale, spent, fair, asked>>

\* The same poll measured other containers only.
OthersMeasured ==
    /\ ~measuring /\ sample # Pruned
    /\ sample' = Pruned
    /\ UNCHANGED <<used, runs, modern, state, block, engineStale, measuring, figure, spent, fair,
                   asked>>

StatsNext ==
    \/ \E work \in {0, 1} : Computes(work)
    \/ StopContainer \/ StartContainer \/ UpdateServer
    \/ \E listed, engine, wanted, stale \in BOOLEAN : PollFigures(listed, engine, wanted, stale)
    \/ Measured \/ NotMeasured \/ OthersMeasured

StatsSpec == StatsInit /\ [][StatsNext]_statsVars

-------------------------------------------------------------------------------
\* A CPU figure spans two readings between which the machine's counter moved, and
\* claims no more than the container used between them and no less than nothing,
\* however often it was restarted and requests failed (_cpu_percent).
FiguresHonest ==
    figure \notin {NoFigure, Reported} =>
        figure.system > 0 /\ figure.cpu >= 0 /\ figure.cpu <= fair

\* A figure that the engine measured is the last poll's: none is left in place by
\* a poll that could not measure it again (NO_DOCKER_STATS).
MeasuredThisPoll == (~measuring /\ figure \notin {NoFigure, Reported}) => asked
===============================================================================
