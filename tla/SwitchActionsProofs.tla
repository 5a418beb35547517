-------------------------- MODULE SwitchActionsProofs --------------------------
(***************************************************************************)
(* Proofs about SwitchActions, for any items and any number of calls.      *)
(***************************************************************************)
EXTENDS SwitchActions, TLAPS

\* A payload has the states of items only.
PayloadTyped == refresh = "enriching" => sample \in [Items -> States]

TypeInv == TypeOK /\ PayloadTyped

-------------------------------------------------------------------------------
(* Type correctness.                                                       *)

LEMMA BeginTyped ==
    ASSUME TypeInv, NEW b \in BOOLEAN, Begin(b)
    PROVE  /\ refresh' = "polling"
           /\ sample' \in [Items -> States \cup {"none", "failed"}]
           /\ before' \in [Items -> States \cup {"none"}]
           /\ {asked', wasOk', armed', cooldown', again'} \subseteq BOOLEAN
  BY DEF TypeInv, TypeOK, Begin, Nothing

LEMMA EndTyped ==
    ASSUME TypeInv, End
    PROVE  /\ refresh' = "idle"
           /\ sample' \in [Items -> States \cup {"none", "failed"}]
           /\ before' \in [Items -> States \cup {"none"}]
           /\ {asked', wasOk', armed', cooldown'} \subseteq BOOLEAN
  BY DEF TypeInv, TypeOK, End, Nothing

LEMMA PatchTyped ==
    ASSUME TypeInv, NEW i \in Items, NEW v \in Positions, Patch(i, v)
    PROVE  /\ data' \in [Items -> States]
           /\ shown' \in [Items -> States \cup {"unavailable"}]
           /\ {armed', cooldown', again', success'} \subseteq BOOLEAN
  <1>1. CASE data[i] = "gone"
    BY <1>1 DEF TypeInv, TypeOK, Patch
  <1>2. CASE data[i] # "gone"
    <2>1. data' \in [Items -> States]
      BY <1>2 DEF TypeInv, TypeOK, Patch, States
    <2>2. shown' \in [Items -> States \cup {"unavailable"}]
      BY <1>2, <2>1 DEF Patch, Display, States
    <2> QED
      BY <1>2, <2>1, <2>2 DEF TypeInv, TypeOK, Patch
  <1> QED
    BY <1>1, <1>2

LEMMA CallsTyped ==
    ASSUME TypeInv, NEW c \in Calls, call[c].stage # "idle"
    PROVE  call[c] \in [stage : {"sent", "acted"}, item : Items, goal : Positions]
  BY DEF TypeInv, TypeOK, NoCall

\* What TypeOK says of the calls survives one of them beginning, moving or ending.
CallTypes(k) ==
    \A c \in Calls :
        \/ k[c] = NoCall
        \/ k[c] \in [stage : {"sent", "acted"}, item : Items, goal : Positions]

LEMMA RecordedTyped ==
    ASSUME TypeInv, server' \in [Items -> States], Recorded
    PROVE  /\ had' \in [Patched -> SUBSET States]
           /\ lately' \in [Patched -> SUBSET States]
  BY DEF TypeInv, TypeOK, Recorded, Items

LEMMA TypeInit == Init => TypeInv
<1> SUFFICES ASSUME Init
             PROVE  TypeInv
  OBVIOUS
<1>1. server \in [Items -> States] /\ data = server /\ success
  BY DEF Init, States
<1>2. shown \in [Items -> States \cup {"unavailable"}]
  BY <1>1 DEF Init, Display
<1>3. sample = Nothing /\ before = Nothing /\ Nothing \in [Items -> {"none"}]
  BY DEF Init, Nothing
<1>4. /\ had \in [Patched -> SUBSET States]
      /\ lately \in [Patched -> SUBSET States]
  BY <1>1 DEF Init, Items
<1>5. \A c \in Calls : call[c] = NoCall
  BY DEF Init
<1> QED
  BY <1>1, <1>2, <1>3, <1>4, <1>5 DEF Init, TypeInv, TypeOK, PayloadTyped

LEMMA TypeStep == TypeInv /\ [Next]_vars => TypeInv'
<1> SUFFICES ASSUME TypeInv, [Next]_vars
             PROVE  TypeInv'
  OBVIOUS
<1> USE DEF TypeInv, TypeOK, PayloadTyped
<1>1. CASE UNCHANGED vars
  BY <1>1 DEF vars, progVars, worldVars, refreshVars, timerVars, viewVars, historyVars
<1>2. ASSUME Step, Recorded
      PROVE  TypeInv'
  <2>1. CASE TimerFires
    <3>1. CASE refresh = "idle"
      BY <1>2, <2>1, <3>1, BeginTyped, RecordedTyped
         DEF TimerFires, worldVars, viewVars
    <3>2. CASE refresh # "idle"
      BY <1>2, <2>1, <3>2, RecordedTyped
         DEF TimerFires, worldVars, viewVars, refreshVars
    <3> QED
      BY <3>1, <3>2
  <2>2. CASE LockReleased
    BY <1>2, <2>2, BeginTyped, RecordedTyped DEF LockReleased, worldVars, viewVars
  <2>3. CASE CooldownEnds
    <3>1. CASE again
      BY <1>2, <2>3, <3>1, BeginTyped, RecordedTyped
         DEF CooldownEnds, worldVars, viewVars
    <3>2. CASE ~again
      BY <1>2, <2>3, <3>2, RecordedTyped
         DEF CooldownEnds, worldVars, viewVars, refreshVars
    <3> QED
      BY <3>1, <3>2
  <2>4. CASE Process
    <3>1. \A i \in Items : Payload(i) \in States
      BY <2>4 DEF Process, Payload
    <3>2. sample' \in [Items -> States]
      BY <2>4, <3>1 DEF Process
    <3> QED
      BY <1>2, <2>4, <3>2, RecordedTyped DEF Process, worldVars, viewVars, timerVars
  <2>5. CASE PollFails
    <3>1. shown' \in [Items -> States \cup {"unavailable"}]
      BY <2>5 DEF PollFails, Display
    <3> QED
      BY <1>2, <2>5, <3>1, EndTyped, RecordedTyped DEF PollFails, worldVars
  <2>6. ASSUME NEW differs \in BOOLEAN, Publish(differs)
        PROVE  TypeInv'
    <3>1. data' \in [Items -> States]
      BY <2>6 DEF Publish
    <3>2. shown' \in [Items -> States \cup {"unavailable"}]
      BY <2>6, <3>1 DEF Publish, Display
    <3> QED
      BY <1>2, <2>6, <3>1, <3>2, EndTyped, RecordedTyped DEF Publish, worldVars
  <2>7. ASSUME NEW i \in Items, Answer(i)
        PROVE  TypeInv'
    <3>1. sample' \in [Items -> States \cup {"none", "failed"}]
      BY <2>7 DEF Answer
    <3> QED
      BY <1>2, <2>7, <3>1, RecordedTyped DEF Answer, worldVars, viewVars, timerVars
  <2>8. ASSUME NEW i \in Items, Elsewhere(i)
        PROVE  TypeInv'
    <3>1. server' \in [Items -> States]
      BY <2>8 DEF Elsewhere
    <3> QED
      BY <1>2, <2>8, <3>1, RecordedTyped
         DEF Elsewhere, refreshVars, viewVars, timerVars
  <2>9. ASSUME NEW c \in Calls, NEW i \in Items, NEW goal \in Positions, Ask(c, i, goal)
        PROVE  TypeInv'
    <3>1. CallTypes(call)'
      BY <2>9 DEF Ask, CallTypes
    <3> QED
      BY <1>2, <2>9, <3>1, RecordedTyped
         DEF Ask, CallTypes, refreshVars, viewVars, timerVars
  <2>10. ASSUME NEW c \in Calls, ServerActs(c)
         PROVE  TypeInv'
    <3>1. call[c] \in [stage : {"sent", "acted"}, item : Items, goal : Positions]
      BY <2>10, CallsTyped DEF ServerActs
    <3>2. server' \in [Items -> States]
      BY <2>10, <3>1 DEF ServerActs, States
    <3>3. CallTypes(call)'
      BY <2>10, <3>1 DEF ServerActs, CallTypes
    <3> QED
      BY <1>2, <2>10, <3>2, <3>3, RecordedTyped
         DEF ServerActs, CallTypes, refreshVars, viewVars, timerVars
  <2>11. ASSUME NEW c \in Calls, CallFails(c)
         PROVE  TypeInv'
    <3>1. CallTypes(call)'
      BY <2>11 DEF CallFails, CallTypes
    <3> QED
      BY <1>2, <2>11, <3>1, RecordedTyped
         DEF CallFails, CallTypes, refreshVars, viewVars, timerVars
  <2>12. ASSUME NEW c \in Calls, ConfirmRefreshed(c)
         PROVE  TypeInv'
    <3>1. CallTypes(call)'
      BY <2>12 DEF ConfirmRefreshed, CallTypes
    <3>2. CASE cooldown
      BY <1>2, <2>12, <3>1, <3>2, RecordedTyped
         DEF ConfirmRefreshed, RequestRefresh, CallTypes, refreshVars, viewVars
    <3>3. CASE ~cooldown /\ refresh = "idle"
      BY <1>2, <2>12, <3>1, <3>3, BeginTyped, RecordedTyped
         DEF ConfirmRefreshed, RequestRefresh, CallTypes, viewVars
    <3>4. CASE ~cooldown /\ refresh # "idle"
      BY <1>2, <2>12, <3>1, <3>4, RecordedTyped
         DEF ConfirmRefreshed, RequestRefresh, CallTypes, refreshVars, viewVars
    <3> QED
      BY <3>2, <3>3, <3>4
  <2> QED
    BY <1>2, <2>1, <2>2, <2>3, <2>4, <2>5, <2>6, <2>7, <2>8, <2>9, <2>10, <2>11,
       <2>12 DEF Step
<1>3. ASSUME NEW c \in Calls, ConfirmPatched(c), Vouched(c)
      PROVE  TypeInv'
  <2>1. call[c] \in [stage : {"sent", "acted"}, item : Items, goal : Positions]
    BY <1>3, CallsTyped DEF ConfirmPatched
  <2>2. CallTypes(call)'
    BY <1>3 DEF ConfirmPatched, CallTypes
  <2>3. had' \in [Patched -> SUBSET States]
    BY <1>3, <2>1 DEF ConfirmPatched, Vouched, States
  <2> QED
    BY <1>3, <2>1, <2>2, <2>3, PatchTyped
       DEF ConfirmPatched, Vouched, CallTypes, refreshVars
<1> QED
  BY <1>1, <1>2, <1>3 DEF Next

\* Every variable of the switches, actions and refreshes keeps its type.
THEOREM SwitchTypeCorrect == Spec => []TypeOK
<1>1. TypeInv => TypeOK
  BY DEF TypeInv
<1> QED
  BY <1>1, TypeInit, TypeStep, PTL DEF Spec

-------------------------------------------------------------------------------
(* The switches of VMs. Only a publication changes what the coordinator    *)
(* holds of a VM, so a silent one leaves it as it was when the refresh     *)
(* began, and nothing but the end of a refresh ends success.               *)

ShownInv ==
    /\ TypeInv
    /\ MachinesShowData
    /\ refresh # "idle" =>
          /\ \A i \in Refreshed : before[i] = data[i]
          /\ wasOk => success

LEMMA ShownInit == Init => ShownInv
  BY TypeInit DEF Init, ShownInv, MachinesShowData

LEMMA ShownStep == ShownInv /\ [Next]_vars => ShownInv'
<1> SUFFICES ASSUME ShownInv, [Next]_vars
             PROVE  ShownInv'
  OBVIOUS
<1> USE DEF ShownInv, MachinesShowData
<1>t. TypeInv'
  BY TypeStep
<1>r. Refreshed \subseteq Items /\ Refreshed \cap Patched = {}
  BY ItemsAssumption DEF Items
\* Steps that leave the view alone, and the refresh too or begin one.
<1>k. ASSUME UNCHANGED viewVars,
             \/ UNCHANGED <<refresh, before, wasOk>>
             \/ refresh = "polling" /\ UNCHANGED <<before, wasOk>>
             \/ before' = data /\ wasOk' = success
      PROVE  ShownInv'
  BY <1>k, <1>t DEF viewVars, Display
<1>1. CASE UNCHANGED vars
  BY <1>1, <1>k DEF vars, progVars, refreshVars
<1>2. ASSUME Step, Recorded
      PROVE  ShownInv'
  <2>1. CASE TimerFires
    BY <2>1, <1>k DEF TimerFires, Begin, refreshVars
  <2>2. CASE LockReleased
    BY <2>2, <1>k DEF LockReleased, Begin
  <2>3. CASE CooldownEnds
    BY <2>3, <1>k DEF CooldownEnds, Begin, refreshVars
  <2>4. CASE Process
    BY <2>4, <1>k DEF Process
  <2>5. CASE PollFails
    BY <2>5, <1>t DEF PollFails, End
  <2>6. ASSUME NEW differs \in BOOLEAN, Publish(differs)
        PROVE  ShownInv'
    <3>1. refresh' = "idle" /\ data' = sample /\ success' = TRUE
      BY <2>6 DEF Publish, End
    <3>2. CASE shown' = Display(data', TRUE)
      BY <1>t, <3>1, <3>2
    <3>3. CASE shown' # Display(data', TRUE)
      <4>1. sample = before /\ wasOk /\ shown' = shown
        BY <2>6, <3>3 DEF Publish
      <4>2. success /\ \A i \in Refreshed : data'[i] = data[i]
        BY <2>6, <3>1, <4>1 DEF Publish
      <4>3. \A i \in Refreshed : shown[i] = Display(data, TRUE)[i]
        BY <4>2, <1>r DEF Display
      <4> QED
        BY <1>t, <1>r, <3>1, <4>1, <4>2, <4>3 DEF Display
    <3> QED
      BY <3>2, <3>3
  <2>7. ASSUME NEW i \in Items, Answer(i)
        PROVE  ShownInv'
    BY <2>7, <1>k DEF Answer
  <2>8. ASSUME NEW i \in Items, Elsewhere(i)
        PROVE  ShownInv'
    BY <2>8, <1>k DEF Elsewhere, refreshVars
  <2>9. ASSUME NEW c \in Calls, NEW i \in Items, NEW goal \in Positions, Ask(c, i, goal)
        PROVE  ShownInv'
    BY <2>9, <1>k DEF Ask, refreshVars
  <2>10. ASSUME NEW c \in Calls, ServerActs(c)
         PROVE  ShownInv'
    BY <2>10, <1>k DEF ServerActs, refreshVars
  <2>11. ASSUME NEW c \in Calls, CallFails(c)
         PROVE  ShownInv'
    BY <2>11, <1>k DEF CallFails, refreshVars
  <2>12. ASSUME NEW c \in Calls, ConfirmRefreshed(c)
         PROVE  ShownInv'
    BY <2>12, <1>k DEF ConfirmRefreshed, RequestRefresh, Begin, refreshVars
  <2> QED
    BY <1>2, <2>1, <2>2, <2>3, <2>4, <2>5, <2>6, <2>7, <2>8, <2>9, <2>10, <2>11,
       <2>12 DEF Step
<1>3. ASSUME NEW c \in Calls, ConfirmPatched(c)
      PROVE  ShownInv'
  <2>1. call[c].item \in Patched /\ UNCHANGED refreshVars
    BY <1>3 DEF ConfirmPatched
  <2>2. Patch(call[c].item, call[c].goal)
    BY <1>3 DEF ConfirmPatched
  <2>3. CASE data[call[c].item] = "gone"
    BY <2>1, <2>2, <2>3, <1>k DEF Patch, refreshVars, viewVars
  <2>4. CASE data[call[c].item] # "gone"
    <3>1. /\ data' = [data EXCEPT ![call[c].item] = call[c].goal]
          /\ success' = TRUE /\ shown' = Display(data', TRUE)
      BY <2>2, <2>4 DEF Patch
    <3>2. \A i \in Refreshed : data'[i] = data[i]
      BY <2>1, <3>1, <1>r DEF TypeInv, TypeOK
    <3> QED
      BY <1>t, <2>1, <3>1, <3>2 DEF refreshVars
  <2> QED
    BY <2>3, <2>4
<1> QED
  BY <1>1, <1>2, <1>3 DEF Next

\* The switch of a VM never departs from the coordinator's data while the last
\* update succeeded, whatever actions and refreshes overlap (async_start_vm_machine,
\* _optimistically_patch_item).
THEOREM MachinesAlwaysShowData == Spec => []MachinesShowData
<1>1. ShownInv => MachinesShowData
  BY DEF ShownInv
<1> QED
  BY <1>1, ShownInit, ShownStep, PTL DEF Spec

-------------------------------------------------------------------------------
(* What patches and samples put into the data. Every sample is among what  *)
(* the item was since the refresh began, and what a refresh retains is     *)
(* among what it may be already.                                           *)

RecentInv ==
    /\ TypeInv
    /\ DataIsRecent
    /\ refresh # "idle" =>
          \A i \in Patched :
              /\ server[i] \in lately[i]
              /\ sample[i] \notin {"none", "failed"} => sample[i] \in lately[i]

LEMMA RecentInit == Init => RecentInv
  BY TypeInit DEF Init, RecentInv, DataIsRecent

\* The record over steps that do not publish: it only grows.
LEMMA RecordGrows ==
    ASSUME TypeInv, Recorded, ~(refresh = "enriching" /\ refresh' = "idle")
    PROVE  \A i \in Patched :
              /\ had[i] \subseteq had'[i]
              /\ refresh # "idle" /\ refresh' # "idle" =>
                    /\ lately[i] \subseteq lately'[i]
                    /\ sample[i] = "failed" => had[i] \subseteq lately'[i]
              /\ refresh' # "idle" => server'[i] \in lately'[i]
  BY DEF Recorded, TypeInv, TypeOK

LEMMA RecentStep == RecentInv /\ [Next]_vars => RecentInv'
<1> SUFFICES ASSUME RecentInv, [Next]_vars
             PROVE  RecentInv'
  OBVIOUS
<1> USE DEF RecentInv, DataIsRecent
<1>t. TypeInv'
  BY TypeStep
<1>r. Patched \subseteq Items
  BY DEF Items
\* Steps that leave the data alone and do not publish.
<1>k. ASSUME Recorded, UNCHANGED data,
             ~(refresh = "enriching" /\ refresh' = "idle"),
             \/ refresh' = "idle"
             \/ refresh # "idle" /\ refresh' # "idle" /\ UNCHANGED sample
             \/ sample' = Nothing
      PROVE  RecentInv'
  <2>1. \A i \in Patched : Nothing[i] = "none"
    BY <1>r DEF Nothing
  <2> QED
    BY <1>k, <1>t, <2>1, RecordGrows
<1>1. CASE UNCHANGED vars
  BY <1>1, <1>t
     DEF vars, progVars, worldVars, refreshVars, viewVars, historyVars
<1>2. ASSUME Step, Recorded
      PROVE  RecentInv'
  <2>1. CASE TimerFires
    BY <1>2, <2>1, <1>k DEF TimerFires, Begin, refreshVars, viewVars
  <2>2. CASE LockReleased
    BY <1>2, <2>2, <1>k DEF LockReleased, Begin, viewVars
  <2>3. CASE CooldownEnds
    BY <1>2, <2>3, <1>k DEF CooldownEnds, Begin, refreshVars, viewVars
  <2>4. CASE Process
    <3>1. \A i \in Patched : sample'[i] = Payload(i)
      BY <2>4, <1>r DEF Process
    <3>2. refresh = "polling" /\ refresh' = "enriching" /\ UNCHANGED data
      BY <2>4 DEF Process, viewVars
    <3>3. ASSUME NEW i \in Patched
          PROVE  sample'[i] \in lately'[i]
      <4>1. CASE sample[i] = "failed"
        BY <1>2, <3>1, <3>2, <4>1, RecordGrows DEF Payload
      <4>2. CASE sample[i] # "failed"
        <5>1. sample[i] # "none"
          BY <2>4, <1>r DEF Process
        <5> QED
          BY <1>2, <3>1, <3>2, <4>2, <5>1, RecordGrows DEF Payload
      <4> QED
        BY <4>1, <4>2
    <3> QED
      BY <1>2, <1>t, <3>2, <3>3, RecordGrows
  <2>5. CASE PollFails
    BY <1>2, <2>5, <1>k DEF PollFails, End
  <2>6. ASSUME NEW differs \in BOOLEAN, Publish(differs)
        PROVE  RecentInv'
    <3>1. refresh = "enriching" /\ refresh' = "idle" /\ data' = sample
      BY <2>6 DEF Publish, End
    <3>2. \A i \in Patched : sample[i] \in lately[i]
      BY <3>1, <1>r DEF TypeInv, PayloadTyped, States, Positions
    <3>3. \A i \in Patched : lately[i] \subseteq had'[i]
      BY <1>2, <3>1 DEF Recorded
    <3> QED
      BY <1>t, <3>1, <3>2, <3>3
  <2>7. ASSUME NEW j \in Items, Answer(j)
        PROVE  RecentInv'
    <3>1. /\ refresh = "polling" /\ refresh' = "polling"
          /\ UNCHANGED <<data, server>>
      BY <2>7 DEF Answer, viewVars, worldVars
    <3>2. ASSUME NEW i \in Patched, sample'[i] \notin {"none", "failed"}
          PROVE  sample'[i] \in lately'[i]
      <4>1. sample'[i] = sample[i] \/ sample'[i] = server[i]
        BY <2>7, <3>2, <1>r DEF Answer, TypeInv, TypeOK
      <4> QED
        BY <1>2, <3>1, <3>2, <4>1, RecordGrows
    <3> QED
      BY <1>2, <1>t, <3>1, <3>2, RecordGrows
  <2>8. ASSUME NEW i \in Items, Elsewhere(i)
        PROVE  RecentInv'
    BY <1>2, <2>8, <1>k DEF Elsewhere, refreshVars, viewVars
  <2>9. ASSUME NEW c \in Calls, NEW i \in Items, NEW goal \in Positions, Ask(c, i, goal)
        PROVE  RecentInv'
    BY <1>2, <2>9, <1>k DEF Ask, refreshVars, viewVars
  <2>10. ASSUME NEW c \in Calls, ServerActs(c)
         PROVE  RecentInv'
    BY <1>2, <2>10, <1>k DEF ServerActs, refreshVars, viewVars
  <2>11. ASSUME NEW c \in Calls, CallFails(c)
         PROVE  RecentInv'
    BY <1>2, <2>11, <1>k DEF CallFails, refreshVars, viewVars
  <2>12. ASSUME NEW c \in Calls, ConfirmRefreshed(c)
         PROVE  RecentInv'
    BY <1>2, <2>12, <1>k
       DEF ConfirmRefreshed, RequestRefresh, Begin, refreshVars, viewVars
  <2> QED
    BY <1>2, <2>1, <2>2, <2>3, <2>4, <2>5, <2>6, <2>7, <2>8, <2>9, <2>10, <2>11,
       <2>12 DEF Step
<1>3. ASSUME NEW c \in Calls, ConfirmPatched(c), Vouched(c)
      PROVE  RecentInv'
  <2> DEFINE p == call[c].item
  <2>1. p \in Patched /\ UNCHANGED <<refresh, sample, server, lately>>
    BY <1>3 DEF ConfirmPatched, Vouched, refreshVars
  <2>2. \A i \in Patched : had[i] \subseteq had'[i]
    BY <1>3, <2>1 DEF Vouched, TypeInv, TypeOK
  <2>3. call[c].goal \in had'[p]
    BY <1>3, <2>1 DEF Vouched, TypeInv, TypeOK
  <2>4. \A i \in Patched : data'[i] = data[i] \/ (i = p /\ data'[i] = call[c].goal)
    BY <1>3, <2>1, <1>r DEF ConfirmPatched, Patch, TypeInv, TypeOK
  <2> QED
    BY <1>t, <2>1, <2>2, <2>3, <2>4
<1> QED
  BY <1>1, <1>2, <1>3 DEF Next

\* No order of patches, samples, failures and publications brings back a state
\* that a later answered refresh or a confirmed action had replaced
\* (_optimistically_patch_item, _retain_last_known_good).
THEOREM DataAlwaysRecent == Spec => []DataIsRecent
<1>1. RecentInv => DataIsRecent
  BY DEF RecentInv
<1> QED
  BY <1>1, RecentInit, RecentStep, PTL DEF Spec
===============================================================================
