----------------------------- MODULE SwitchActions -----------------------------
(***************************************************************************)
(* Switches, the actions they start and the refreshes they meet            *)
(* (coordinator/base.py, switch/).                                         *)
(*                                                                         *)
(* An action awaits the server's answer. For a container or a stack the    *)
(* answer is followed by an optimistic patch of self.data; for a VM by a   *)
(* request to refresh. Meanwhile a refresh may have sampled the item       *)
(* before the server acted, and will publish that sample afterwards.       *)
(*                                                                         *)
(* Refreshes never overlap: the timer's take the lock of the coordinator's *)
(* debouncer, and a requested one is dropped while that lock is taken, or  *)
(* put off to the end of the debouncer's cooldown. Those two rules, and    *)
(* when listeners are notified, are Home Assistant's.                      *)
(***************************************************************************)
EXTENDS FiniteSets

CONSTANTS
    Patched,     \* containers and stacks: _optimistically_patch_item
    Refreshed,   \* VMs: async_request_refresh
    Meddled,     \* those of them that others also start, stop, remove and create
    Calls        \* service calls, each one at a time

Items == Patched \cup Refreshed

ASSUME ItemsAssumption ==
    /\ IsFiniteSet(Items) /\ IsFiniteSet(Calls)
    /\ Patched \cap Refreshed = {}
    /\ Meddled \subseteq Items

Positions == {"on", "off"}
States == Positions \cup {"gone"}

VARIABLES
    server,     \* what each item is on the server
    call,       \* where each service call is
    refresh,    \* where the refresh that holds the lock is
    asked,      \* the debouncer runs it, not the timer
    sample,     \* its answers, then its payload
    before,     \* previous_data of the refresh
    wasOk,      \* previous_update_success of the refresh
    armed,      \* the refresh timer runs
    waiting,    \* a timer refresh waits for the lock
    cooldown,   \* the debouncer's timer runs
    again,      \* and a refresh is due at its end
    data,       \* self.data
    success,    \* last_update_success
    shown,      \* what the switches last wrote
    had,        \* history: states a patched item's value in self.data may be of
    lately      \* history: its states since the refresh in flight began

worldVars == <<server, call>>
refreshVars == <<refresh, asked, sample, before, wasOk>>
timerVars == <<armed, waiting, cooldown, again>>
viewVars == <<data, success, shown>>
progVars == <<worldVars, refreshVars, timerVars, viewVars>>
historyVars == <<had, lately>>
vars == <<progVars, historyVars>>

Nothing == [i \in Items |-> "none"]

NoCall == [stage |-> "idle", item |-> "none", goal |-> "none"]

\* MOSEntity.available and the switches' is_on; the sync removes what is gone.
Display(d, s) ==
    [i \in Items |->
        IF d[i] = "gone" THEN "gone" ELSE IF s THEN d[i] ELSE "unavailable"]

Init ==
    /\ server \in [Items -> Positions]
    /\ call = [c \in Calls |-> NoCall]
    /\ refresh = "idle" /\ asked = FALSE
    /\ sample = Nothing /\ before = Nothing /\ wasOk = FALSE
    /\ armed = TRUE /\ waiting = FALSE /\ cooldown = FALSE /\ again = FALSE
    /\ data = server /\ success = TRUE /\ shown = Display(data, success)
    /\ had = [i \in Patched |-> {server[i]}] /\ lately = [i \in Patched |-> {}]

-------------------------------------------------------------------------------
(* The refresh.                                                            *)

\* _async_refresh up to the gather: it stops the timers and remembers what was.
Begin(byDebouncer) ==
    /\ refresh' = "polling" /\ asked' = byDebouncer
    /\ sample' = Nothing /\ before' = data /\ wasOk' = success
    /\ armed' = FALSE /\ cooldown' = FALSE /\ again' = FALSE

\* A refresh over: the lock is free, the timer runs, and after a requested
\* refresh the cooldown does.
End ==
    /\ refresh' = "idle" /\ asked' = FALSE
    /\ sample' = Nothing /\ before' = Nothing /\ wasOk' = FALSE
    /\ armed' = TRUE /\ cooldown' = asked

TimerFires ==
    /\ armed /\ ~waiting
    /\ IF refresh = "idle"
       THEN Begin(FALSE) /\ UNCHANGED waiting
       ELSE /\ armed' = FALSE /\ waiting' = TRUE
            /\ UNCHANGED <<refreshVars, cooldown, again>>
    /\ UNCHANGED <<worldVars, viewVars>>

LockReleased ==
    /\ waiting /\ refresh = "idle"
    /\ waiting' = FALSE
    /\ Begin(FALSE)
    /\ UNCHANGED <<worldVars, viewVars>>

CooldownEnds ==
    /\ cooldown
    /\ IF again
       THEN Begin(TRUE)
       ELSE cooldown' = FALSE /\ UNCHANGED <<refreshVars, armed, again>>
    /\ UNCHANGED <<worldVars, waiting, viewVars>>

\* The server answers for an item, or its resource fails for itself.
Answer(i) ==
    /\ refresh = "polling" /\ sample[i] = "none"
    /\ \E answer \in {server[i], "failed"} : sample' = [sample EXCEPT ![i] = answer]
    /\ UNCHANGED <<worldVars, refresh, asked, before, wasOk, timerVars, viewVars>>

\* Mutant: what is known already is kept, not what the server just said.
PayloadKeepsKnown(i) == IF data[i] # "gone" THEN data[i] ELSE sample[i]

\* Mutant: a resource that failed is not carried forward.
PayloadUnretained(i) == sample[i]

\* _retain_last_known_good, on the data as the patches have left it by then.
Payload(i) == IF sample[i] = "failed" THEN data[i] ELSE sample[i]

\* The bookkeeping; the enrichment is awaited next.
Process ==
    /\ refresh = "polling" /\ \A i \in Items : sample[i] # "none"
    /\ refresh' = "enriching"
    /\ sample' = [i \in Items |-> Payload(i)]
    /\ UNCHANGED <<worldVars, asked, before, wasOk, timerVars, viewVars>>

\* UpdateFailed: listeners hear of it unless the refresh began in failure.
PollFails ==
    /\ refresh = "polling"
    /\ End
    /\ success' = FALSE
    /\ shown' = IF wasOk THEN Display(data, FALSE) ELSE shown
    /\ UNCHANGED <<worldVars, waiting, again, data>>

\* The payload becomes self.data, and listeners hear of it if it differs from
\* what the refresh began with, in these items or elsewhere.
Publish(differs) ==
    /\ refresh = "enriching"
    /\ End
    /\ data' = sample
    /\ success' = TRUE
    /\ shown' = IF sample # before \/ ~wasOk \/ differs
                THEN Display(data', TRUE) ELSE shown
    /\ UNCHANGED <<worldVars, waiting, again>>

-------------------------------------------------------------------------------
(* The actions.                                                            *)

\* async_turn_on, async_turn_off: Home Assistant calls no unavailable entity.
Ask(c, i, goal) ==
    /\ call[c].stage = "idle"
    /\ shown[i] \in Positions
    /\ call' = [call EXCEPT ![c] = [stage |-> "sent", item |-> i, goal |-> goal]]
    /\ UNCHANGED <<server, refreshVars, timerVars, viewVars>>

ServerActs(c) ==
    /\ call[c].stage = "sent"
    /\ server[call[c].item] # "gone"
    /\ server' = [server EXCEPT ![call[c].item] = call[c].goal]
    /\ call' = [call EXCEPT ![c].stage = "acted"]
    /\ UNCHANGED <<refreshVars, timerVars, viewVars>>

\* _optimistically_patch_item and async_set_updated_data: the refresh timer
\* starts again, and with it goes a refresh the debouncer had put off.
Patch(i, value) ==
    IF data[i] = "gone"
    THEN UNCHANGED <<data, success, shown, armed, cooldown, again>>
    ELSE /\ data' = [data EXCEPT ![i] = value]
         /\ success' = TRUE /\ shown' = Display(data', TRUE)
         /\ armed' = TRUE /\ cooldown' = FALSE /\ again' = FALSE

\* Mutant: the patch comes before the answer is known.
CallFailsPatched(c) ==
    /\ call[c].stage \in {"sent", "acted"}
    /\ call' = [call EXCEPT ![c] = NoCall]
    /\ Patch(call[c].item, call[c].goal)
    /\ UNCHANGED <<server, refreshVars, waiting>>

\* An error or the timeout, before or after the server acted: nothing changes.
CallFails(c) ==
    /\ call[c].stage \in {"sent", "acted"}
    /\ call' = [call EXCEPT ![c] = NoCall]
    /\ UNCHANGED <<server, refreshVars, timerVars, viewVars>>

\* The answer to an action on a container or a stack.
ConfirmPatched(c) ==
    /\ call[c].stage = "acted" /\ call[c].item \in Patched
    /\ call' = [call EXCEPT ![c] = NoCall]
    /\ Patch(call[c].item, call[c].goal)
    /\ UNCHANGED <<server, refreshVars, waiting>>

\* async_request_refresh.
RequestRefresh ==
    CASE cooldown -> again' = TRUE /\ UNCHANGED <<refreshVars, armed, cooldown>>
      [] ~cooldown /\ refresh = "idle" -> Begin(TRUE)
      [] OTHER -> UNCHANGED <<refreshVars, armed, cooldown, again>>

\* Mutant: a VM is patched like a container.
ConfirmRefreshedPatched(c) ==
    /\ call[c].stage = "acted" /\ call[c].item \in Refreshed
    /\ call' = [call EXCEPT ![c] = NoCall]
    /\ Patch(call[c].item, call[c].goal)
    /\ UNCHANGED <<server, refreshVars, waiting>>

\* The answer to an action on a VM.
ConfirmRefreshed(c) ==
    /\ call[c].stage = "acted" /\ call[c].item \in Refreshed
    /\ call' = [call EXCEPT ![c] = NoCall]
    /\ RequestRefresh
    /\ UNCHANGED <<server, waiting, viewVars>>

\* The item is started, stopped, removed or created by somebody else.
Elsewhere(i) ==
    /\ i \in Meddled
    /\ \E s \in States \ {server[i]} : server' = [server EXCEPT ![i] = s]
    /\ UNCHANGED <<call, refreshVars, timerVars, viewVars>>

-------------------------------------------------------------------------------
\* A refresh that answered for an item forgets what it was before the refresh;
\* one that retained it does not.
Recorded ==
    /\ lately' =
         [i \in Patched |->
            IF refresh' = "idle" THEN {}
            ELSE IF refresh = "idle" THEN {server'[i]}
            ELSE IF sample[i] = "failed" THEN lately[i] \cup had[i] \cup {server'[i]}
            ELSE lately[i] \cup {server'[i]}]
    /\ had' =
         [i \in Patched |->
            {server'[i]} \cup
               IF refresh = "enriching" /\ refresh' = "idle" THEN lately[i] ELSE had[i]]

\* An answered action vouches for its goal.
Vouched(c) ==
    /\ had' = [had EXCEPT ![call[c].item] = @ \cup {call[c].goal}]
    /\ UNCHANGED lately

Step ==
    \/ TimerFires
    \/ LockReleased
    \/ CooldownEnds
    \/ Process
    \/ PollFails
    \/ \E differs \in BOOLEAN : Publish(differs)
    \/ \E i \in Items : Answer(i) \/ Elsewhere(i)
    \/ \E c \in Calls :
          \/ \E i \in Items, goal \in Positions : Ask(c, i, goal)
          \/ ServerActs(c)
          \/ CallFails(c)
          \/ ConfirmRefreshed(c)

Next ==
    \/ Step /\ Recorded
    \/ \E c \in Calls : ConfirmPatched(c) /\ Vouched(c)

\* Home Assistant fires its timers and hands its lock on, requests are answered
\* or time out, and the rest of the payload, which has the CPU load in it, does
\* not stay the same in every poll.
Fairness ==
    /\ WF_vars(TimerFires /\ Recorded)
    /\ WF_vars(LockReleased /\ Recorded)
    /\ \A i \in Items : WF_vars(Answer(i) /\ Recorded)
    /\ WF_vars(Process /\ Recorded)
    /\ WF_vars((\E differs \in BOOLEAN : Publish(differs)) /\ Recorded)
    /\ SF_vars(Publish(TRUE) /\ Recorded)

Spec == Init /\ [][Next]_vars
FairSpec == Spec /\ Fairness

-------------------------------------------------------------------------------
\* Every variable holds what its declaration says.
TypeOK ==
    /\ server \in [Items -> States]
    /\ \A c \in Calls :
          \/ call[c] = NoCall
          \/ call[c] \in [stage : {"sent", "acted"}, item : Items, goal : Positions]
    /\ refresh \in {"idle", "polling", "enriching"}
    /\ sample \in [Items -> States \cup {"none", "failed"}]
    /\ before \in [Items -> States \cup {"none"}]
    /\ {asked, wasOk, armed, waiting, cooldown, again, success} \subseteq BOOLEAN
    /\ data \in [Items -> States]
    /\ shown \in [Items -> States \cup {"unavailable"}]
    /\ had \in [Patched -> SUBSET States] /\ lately \in [Patched -> SUBSET States]

\* However patches and samples overtake each other, the coordinator's state of
\* an item is one the item had since the last refresh that was answered for it
\* began, or that the server has confirmed since: nothing older comes back, and
\* an action that failed leaves no trace (_optimistically_patch_item after the
\* call, _retain_last_known_good).
DataIsRecent == \A i \in Patched : data[i] \in had[i]

\* The switch of a VM shows what the coordinator holds while the last update
\* succeeded, without waiting for anything else to change. That is not so for what
\* is patched: a sample taken before the action puts back what the refresh began
\* with, which differs from nothing, and the patch stays on display
\* (async_start_vm_machine refreshes where the others patch).
MachinesShowData ==
    success => \A i \in Refreshed : shown[i] = Display(data, success)[i]

\* Nothing changes on the server, no action begins and every poll succeeds.
Steady ==
    /\ server' = server
    /\ \A c \in Calls : call'[c] \in {call[c], NoCall}
    /\ \A i \in Items : sample'[i] # "failed"
    /\ refresh = "polling" => refresh' # "idle"

\* Once the server is left alone and answers, every switch ends up showing what
\* is the case there, although a publication that took a patch back without a
\* difference to what the refresh began with went unnoticed.
SwitchesSettle == <>[][Steady]_vars => <>[](shown = server)

\* What the docstring says of an action on a VM: a refresh follows, "so its new
\* state is reflected immediately", that is, not one that already has the VM's
\* state from before the action (async_start_vm_machine).
RefreshFollows ==
    [][\A c \in Calls :
          ConfirmRefreshed(c) =>
              again' \/ (/\ refresh' # "idle"
                         /\ sample'[call[c].item] \in {"none", "failed", call[c].goal})]_vars
===============================================================================
