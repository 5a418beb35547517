------------------------------ MODULE RateLimiter ------------------------------
(***************************************************************************)
(* _RateLimiter (api/client.py): every request to the server is made       *)
(* inside it.                                                              *)
(*                                                                         *)
(* A request first needs one of the semaphore's slots and then a turn: it  *)
(* claims the next start time and sleeps until that has come. The lock     *)
(* around the claim is never contended, for nothing awaits while it is     *)
(* held, so getting the slot and claiming the turn are one step. The       *)
(* semaphore is asyncio's: first come, first served.                       *)
(*                                                                         *)
(* Times are relative to the loop's clock, in ticks. A sleeper may wake    *)
(* late, as any callback does when the loop is busy, never early.          *)
(***************************************************************************)
EXTENDS Naturals, Sequences, FiniteSets

CONSTANTS
    Requests,        \* tasks that make requests, one at a time each
    MaxConcurrent,   \* API_MAX_CONCURRENT_REQUESTS
    MinInterval,     \* API_MIN_REQUEST_INTERVAL
    Horizon          \* no new request is made while claims reach further

ASSUME LimitsAssumption ==
    /\ IsFiniteSet(Requests)
    /\ MaxConcurrent \in Nat \ {0}
    /\ MinInterval \in Nat
    /\ Horizon \in Nat

VARIABLES
    free,       \* value of the semaphore
    line,       \* requests waiting for it
    sleeping,   \* requests that hold a slot and sleep until their turn
    sending,    \* requests between __aenter__ and __aexit__
    delay,      \* how long each sleeper still has to sleep
    ahead,      \* how far _next_start is in the future
    load        \* a history variable: starts not yet paid for, MinInterval each

vars == <<free, line, sleeping, sending, delay, ahead, load>>

InLine == {line[i] : i \in DOMAIN line}

Holding == sleeping \cup sending

Less(n, k) == IF n > k THEN n - k ELSE 0

Init ==
    /\ free = MaxConcurrent /\ line = <<>>
    /\ sleeping = {} /\ sending = {}
    /\ delay = [r \in Requests |-> 0]
    /\ ahead = 0 /\ load = 0

\* Mutant: the next turn is counted from now, not from the turn just claimed.
ClaimFromNow(r) ==
    IF ahead = 0
    THEN /\ sending' = sending \cup {r}
         /\ load' = load + MinInterval /\ ahead' = MinInterval
         /\ UNCHANGED <<sleeping, delay>>
    ELSE /\ sleeping' = sleeping \cup {r}
         /\ delay' = [delay EXCEPT ![r] = ahead] /\ ahead' = MinInterval
         /\ UNCHANGED <<sending, load>>

\* _wait_for_turn: the turn is claimed, and is slept for only if not yet come.
Claim(r) ==
    /\ ahead' = ahead + MinInterval
    /\ IF ahead = 0
       THEN /\ sending' = sending \cup {r}
            /\ load' = load + MinInterval
            /\ UNCHANGED <<sleeping, delay>>
       ELSE /\ sleeping' = sleeping \cup {r}
            /\ delay' = [delay EXCEPT ![r] = ahead]
            /\ UNCHANGED <<sending, load>>

\* A task asks to make a request.
Idle(r) == r \notin InLine \cup Holding /\ ahead <= Horizon

\* __aenter__ with a slot at hand.
Enter(r) ==
    /\ Idle(r)
    /\ free > 0 /\ line = <<>>
    /\ free' = free - 1
    /\ Claim(r)
    /\ UNCHANGED line

\* __aenter__ without.
Wait(r) ==
    /\ Idle(r)
    /\ free = 0 \/ line # <<>>
    /\ line' = Append(line, r)
    /\ UNCHANGED <<free, sleeping, sending, delay, ahead, load>>

\* The semaphore hands a slot to the request that has waited longest.
Admit ==
    /\ free > 0 /\ line # <<>>
    /\ free' = free - 1
    /\ line' = Tail(line)
    /\ Claim(Head(line))

\* The turn has come: __aenter__ returns and the request is sent.
Start(r) ==
    /\ r \in sleeping /\ delay[r] = 0
    /\ sleeping' = sleeping \ {r}
    /\ sending' = sending \cup {r}
    /\ load' = load + MinInterval
    /\ UNCHANGED <<free, line, delay, ahead>>

\* The task is cancelled while it waits for a slot.
CancelWaiting(r) ==
    /\ \E i \in DOMAIN line :
          /\ line[i] = r
          /\ line' = SubSeq(line, 1, i - 1) \o SubSeq(line, i + 1, Len(line))
    /\ UNCHANGED <<free, sleeping, sending, delay, ahead, load>>

\* Mutant: __aenter__ does not hand the slot back.
CancelSleepingLeaks(r) ==
    /\ r \in sleeping
    /\ sleeping' = sleeping \ {r}
    /\ delay' = [delay EXCEPT ![r] = 0]
    /\ UNCHANGED <<free, line, sending, ahead, load>>

\* Mutant: __aenter__ hands the slot back and __aexit__ does again.
CancelSleepingTwice(r) ==
    /\ r \in sleeping
    /\ sleeping' = sleeping \ {r}
    /\ free' = free + 2
    /\ delay' = [delay EXCEPT ![r] = 0]
    /\ UNCHANGED <<line, sending, ahead, load>>

\* The task is cancelled in its sleep: the slot is handed back, the turn is lost.
CancelSleeping(r) ==
    /\ r \in sleeping
    /\ sleeping' = sleeping \ {r}
    /\ free' = free + 1
    /\ delay' = [delay EXCEPT ![r] = 0]
    /\ UNCHANGED <<line, sending, ahead, load>>

\* __aexit__, after an answer, an error, the timeout or a cancellation.
Leave(r) ==
    /\ r \in sending
    /\ sending' = sending \ {r}
    /\ free' = free + 1
    /\ UNCHANGED <<line, sleeping, delay, ahead, load>>

Tick ==
    /\ delay' = [r \in Requests |-> Less(delay[r], 1)]
    /\ ahead' = Less(ahead, 1)
    /\ load' = Less(load, 1)
    /\ UNCHANGED <<free, line, sleeping, sending>>

Next ==
    \/ \E r \in Requests :
          \/ Enter(r)
          \/ Wait(r)
          \/ Start(r)
          \/ CancelWaiting(r)
          \/ CancelSleeping(r)
          \/ Leave(r)
    \/ Admit
    \/ Tick

\* Slots are handed on, sleeps end, requests end at their timeout, time passes.
Fairness ==
    /\ WF_vars(Admit)
    /\ WF_vars(Tick)
    /\ \A r \in Requests : WF_vars(Start(r)) /\ WF_vars(Leave(r))

Spec == Init /\ [][Next]_vars
FairSpec == Spec /\ Fairness

-------------------------------------------------------------------------------
\* Nobody is in two places, and no slot is lost or made up, however requests are
\* cancelled: a lost one would shrink the pool for as long as the entry is loaded
\* (the except clause of __aenter__).
SlotsConserved ==
    /\ free + Cardinality(Holding) = MaxConcurrent
    /\ sleeping \cap sending = {}
    /\ InLine \cap Holding = {}

\* Every variable holds what its declaration says.
TypeOK ==
    /\ free \in 0..MaxConcurrent
    /\ line \in Seq(Requests)
    /\ sleeping \subseteq Requests /\ sending \subseteq Requests
    /\ delay \in [Requests -> Nat]
    /\ ahead \in Nat /\ load \in Nat

\* How far the starts can run ahead of one per MinInterval when late sleepers
\* catch up: by one for every slot, and one. For any two moments the starts
\* between them, paid for at one MinInterval each, exceed the time between them
\* by no more than this, whoever is late or cancelled (_wait_for_turn).
BurstBounded == load <= (MaxConcurrent + 1) * MinInterval

\* Whoever waits for a slot or a turn gets it or is cancelled: nobody's
\* cancellation and no lateness holds the others up for good.
EveryTurnComes ==
    \A r \in Requests : (r \in InLine \cup sleeping) ~> (r \notin InLine \cup sleeping)
===============================================================================
