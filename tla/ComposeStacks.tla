----------------------------- MODULE ComposeStacks -----------------------------
(***************************************************************************)
(* A poll's Compose stacks (coordinator/compose.py and its callers in      *)
(* coordinator/base.py). The stack list, the container groups and the      *)
(* Docker engine's list are requests of their own: any of them may fail,   *)
(* and what it supplies is then taken from the previous poll's stacks.     *)
(*                                                                         *)
(* The server is free: a poll gets any answers that agree in themselves.   *)
(* Nothing happens to the stacks between two polls, so a poll is a step.   *)
(* update_available comes and goes with the group's counters, and images   *)
(* with those of the engine; neither has a field here.                     *)
(***************************************************************************)
EXTENDS Naturals, FiniteSets

CONSTANTS
    Stacks,      \* names of stacks
    Members,     \* the services of each
    None,        \* None, and a field that is not there
    Own,         \* figures that come with the stack list ("performance")
    Down         \* the answer of a request that failed

\* A stack has so many services, and no answer passes for none.
ASSUME StackAssumption ==
    IsFiniteSet(Members) /\ None \notin Nat /\ Down \notin [Stacks -> SUBSET Members]

VARIABLES
    stacks,      \* self.data["compose_stacks"]; None: not among them
    counted,     \* history: runningCount by the last poll's group list, or Down
    up           \* history: the services running by its engine list, or Down

stackVars == <<stacks, counted, up>>

Health == {"none", "healthy", "unhealthy"}
Services == {None} \cup [run : BOOLEAN, health : Health]

\* A stack as it comes, with figures of its own from a server that has them.
Fresh(own) ==
    [count |-> None, running |-> None, unhealthy |-> None, own |-> own, figure |-> {}]

StackInit ==
    /\ stacks = [s \in Stacks |-> None]
    /\ counted = Down /\ up = Down

\* What the previous stack says of a field that the poll had no source for.
Carry(new, old) == IF old = None THEN new ELSE old

\* merge_group_data: a stack without a group of its own is left as it is.
FromGroup(stack, running) ==
    IF running = None THEN stack
    ELSE [stack EXCEPT !.count = Cardinality(Members), !.running = running]

\* carry_forward_group_data.
GroupCarried(stack, before) ==
    IF before = None THEN stack
    ELSE [stack EXCEPT !.count = Carry(@, before.count), !.running = Carry(@, before.running)]

\* The members of a stack that the engine says are running.
Up(members) == {m \in Members : members[m] # None /\ members[m].run}

\* _is_unhealthy: no verdict unless a running member has a healthcheck.
Unhealthy(members) ==
    LET verdicts == {members[m].health : m \in Up(members)} \ {"none"}
    IN  IF verdicts = {} THEN None ELSE "unhealthy" \in verdicts

\* merge_engine_state.
FromEngine(stack, members) ==
    [stack EXCEPT !.count = Cardinality(Members), !.running = Cardinality(Up(members)),
                  !.unhealthy = Unhealthy(members)]

\* Mutant: the verdict is carried forward and the counters are not.
EngineCarriedApart(stack, before) ==
    IF before = None THEN stack
    ELSE [stack EXCEPT !.unhealthy = Carry(@, before.unhealthy)]

\* carry_forward_engine_state: over the group's counters of this very poll.
EngineCarried(stack, before) ==
    IF before = None THEN stack
    ELSE [stack EXCEPT !.count = Carry(@, before.count), !.running = Carry(@, before.running),
                       !.unhealthy = Carry(@, before.unhealthy)]

\* stats_targets and merge_stats: the services whose figures are summed, those
\* that run and that a request measured; without the engine's list there are none.
Summed(members, measured) ==
    IF members = Down THEN {} ELSE Up(members) \cap measured

\* _async_add_compose_stats: a stack with figures of its own keeps those.
Figured(stack, members, measured) ==
    [stack EXCEPT !.figure = IF stack.own THEN {Own} ELSE Summed(members, measured)]

\* _async_add_compose_stack_data, for one stack.
Enriched(stack, before, running, members, measured) ==
    LET grouped == IF running = Down THEN GroupCarried(stack, before) ELSE FromGroup(stack, running)
        merged == IF members = Down THEN EngineCarried(grouped, before)
                  ELSE FromEngine(grouped, members)
    IN  Figured(merged, members, measured)

\* A poll. A stack list that failed is retained as the last poll left it.
PollStacks(answered, groups, engine, measured) ==
    LET listed == IF answered = Down THEN stacks ELSE answered
        Of(s, answer) == IF answer = Down THEN Down ELSE answer[s]
    IN  /\ stacks' = [s \in Stacks |->
                IF listed[s] = None THEN None
                ELSE Enriched(listed[s], stacks[s], Of(s, groups), Of(s, engine), measured)]
        /\ counted' = groups
        /\ up' = IF engine = Down THEN Down ELSE [s \in Stacks |-> Up(engine[s])]

StackNext ==
    \E answered \in {Down} \cup [Stacks -> {None} \cup {Fresh(own) : own \in BOOLEAN}],
       groups \in {Down} \cup [Stacks -> {None} \cup 0..Cardinality(Members)],
       engine \in {Down} \cup [Stacks -> [Members -> Services]],
       measured \in SUBSET Members :
        PollStacks(answered, groups, engine, measured)

StackSpec == StackInit /\ [][StackNext]_stackVars

-------------------------------------------------------------------------------
\* What a stack's entities show agrees, whichever lists failed and for how long: no
\* more services running than it has, a health verdict only on a stack with a
\* service running, and a sum only over services the engine's list of this poll
\* has running (merge_engine_state, carry_forward_engine_state, merge_stats).
StacksAgree ==
    \A s \in Stacks :
        LET stack == stacks[s] IN
        stack # None =>
            /\ stack.running # None => stack.running <= stack.count
            /\ stack.unhealthy # None => stack.running # None /\ stack.running > 0
            /\ stack.figure \notin {{}, {Own}} => up # Down /\ stack.figure \subseteq up[s]

\* The counters of the group are a "fallback for a poll where the engine proxy is
\* unavailable but the group list is not" (_GROUP_FIELDS): then a stack shows them.
GroupCountersUsed ==
    \A s \in Stacks :
        (stacks[s] # None /\ up = Down /\ counted # Down)
            => counted[s] \in {None, stacks[s].running}
===============================================================================
