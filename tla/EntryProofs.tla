------------------------------ MODULE EntryProofs ------------------------------
(***************************************************************************)
(* Proofs about a config entry: how it is made and changed, what its token *)
(* may do, the devices it leaves in the registries and what its entities   *)
(* show. The parts share no variable; each has a section, an inductive     *)
(* invariant and theorems of its own.                                      *)
(***************************************************************************)
EXTENDS Devices, ConfigFlow, TokenScope, EntitySources, TLAPS

-------------------------------------------------------------------------------
(***************************************************************************)
(* Config flows, for any number of flows, entries, names, hosts and tokens: *)
(* what is stored together was accepted together, and no name is           *)
(* configured twice.                                                       *)
(***************************************************************************)

FlowTypeOK ==
    /\ entries \in [Slots -> Entries \cup {Unfilled}]
    /\ flows \in [Flows -> FlowStates \cup {NoFlow}]
    /\ accepts \in SUBSET Connections

\* A flow is for an entry that is still there, and one that tries the details of a
\* new entry knows its name.
FlowsAim ==
    \A f \in Flows : flows[f] # NoFlow =>
        /\ flows[f].kind # "user" => flows[f].target \in Taken
        /\ (flows[f].kind = "user" /\ flows[f].trying # Unfilled) => flows[f].name \in Names

FlowInv == FlowTypeOK /\ FlowsAim /\ StoredWasAccepted /\ IdentityUnique

-------------------------------------------------------------------------------
\* A new flow is a form.
LEMMA FormIsState ==
    ASSUME NEW kind \in Kinds, NEW target \in Slots \cup {Unfilled}
    PROVE  /\ Form(kind, target) \in FlowStates
           /\ Form(kind, target).kind = kind /\ Form(kind, target).target = target
           /\ Form(kind, target).trying = Unfilled
BY DEF Form, FlowStates

\* What the entries are matters to the invariant, so a step that leaves them alone, and
\* forgets nothing that was accepted, needs to look at the flows only.
LEMMA SameEntries ==
    ASSUME FlowInv, UNCHANGED entries, validated \subseteq validated'
    PROVE  (StoredWasAccepted /\ IdentityUnique)' /\ Taken' = Taken
BY DEF FlowInv, StoredWasAccepted, IdentityUnique, Taken, Connection

\* A flow starts, shows its form again, or ends.
LEMMA FlowShown ==
    ASSUME FlowInv, NEW f \in Flows, NEW state \in FlowStates \cup {NoFlow},
           flows' = [flows EXCEPT ![f] = state],
           UNCHANGED <<entries, accepts, validated>>,
           state # NoFlow =>
              /\ state.kind # "user" => state.target \in Taken
              /\ (state.kind = "user" /\ state.trying # Unfilled) => state.name \in Names
    PROVE  FlowInv'
<1>1. FlowTypeOK'
  BY DEF FlowInv, FlowTypeOK
<1>2. (StoredWasAccepted /\ IdentityUnique)' /\ Taken' = Taken
  BY SameEntries
<1>3. FlowsAim'
  BY <1>2 DEF FlowInv, FlowTypeOK, FlowsAim
<1> QED BY <1>1, <1>2, <1>3 DEF FlowInv

LEMMA StartStep ==
    ASSUME FlowInv, NEW f \in Flows, NEW kind \in Kinds, NEW target \in Slots \cup {Unfilled},
           StartFlow(f, kind, target)
    PROVE  FlowInv'
<1>1. flows' = [flows EXCEPT ![f] = Form(kind, target)] /\ UNCHANGED <<entries, accepts, validated>>
      /\ (kind # "user" => target \in Taken)
  BY DEF StartFlow
<1> QED BY <1>1, FormIsState, FlowShown

\* The details of a form are complete, whatever they are merged with.
LEMMA SubmitStep ==
    ASSUME FlowInv, NEW f \in Flows, NEW name \in Names, NEW input \in Connections,
           Submit(f, name, input)
    PROVE  FlowInv'
<1>1. flows[f] \in FlowStates /\ flows[f] # NoFlow
  BY DEF Submit, FlowInv, FlowTypeOK
<1>2. flows[f].kind # "user" => flows[f].target \in Slots /\ entries[flows[f].target] \in Entries
  BY <1>1 DEF FlowInv, FlowTypeOK, FlowsAim, Taken
<1>3. Merged(f, input) \in Connections
  BY <1>1, <1>2 DEF Merged, Connections, Entries
<1> DEFINE called == IF flows[f].name = Unfilled /\ flows[f].kind = "user" THEN name
                     ELSE flows[f].name
           state == [flows[f] EXCEPT !.name = called, !.trying = Merged(f, input)]
<1>4. flows' = [flows EXCEPT ![f] = state] /\ UNCHANGED <<entries, accepts, validated>>
  BY <1>1 DEF Submit, FlowInv, FlowTypeOK
<1>5. called \in Names \cup {Unfilled} /\ (flows[f].kind = "user" => called \in Names)
  BY <1>1 DEF FlowStates
<1> HIDE DEF called
<1>6. state \in FlowStates /\ state.kind = flows[f].kind /\ state.target = flows[f].target
      /\ state.name = called
  BY <1>1, <1>3, <1>5 DEF FlowStates
<1>7. state.kind # "user" => state.target \in Taken
  BY <1>1, <1>6 DEF FlowInv, FlowsAim
<1> HIDE DEF state
<1> QED BY <1>4, <1>5, <1>6, <1>7, FlowShown

\* A failure shows the form again, and a form that is closed takes its flow along.
LEMMA BackStep ==
    ASSUME FlowInv, NEW f \in Flows, ValidateFails(f) \/ CloseFlow(f)
    PROVE  FlowInv'
<1>1. CASE ValidateFails(f)
  <2>1. flows[f] \in FlowStates /\ flows[f] # NoFlow
    BY <1>1 DEF ValidateFails, FlowInv, FlowTypeOK
  <2>2. flows[f].kind \in Kinds /\ flows[f].target \in Slots \cup {Unfilled}
    BY <2>1 DEF FlowStates
  <2>3. flows[f].kind # "user" => flows[f].target \in Taken
    BY <2>1 DEF FlowInv, FlowsAim
  <2>4. flows' = [flows EXCEPT ![f] = Form(flows[f].kind, flows[f].target)]
        /\ UNCHANGED <<entries, accepts, validated>>
    BY <1>1 DEF ValidateFails
  <2> QED BY <2>2, <2>3, <2>4, FormIsState, FlowShown
<1>2. CASE CloseFlow(f)
  BY <1>2, FlowShown DEF CloseFlow
<1> QED BY <1>1, <1>2

\* What was accepted is stored as it was tried, under a name that is free or was its own.
LEMMA SucceedsStep ==
    ASSUME FlowInv, NEW f \in Flows, ValidateSucceeds(f)
    PROVE  FlowInv'
<1> DEFINE flow == flows[f]
<1>1. /\ flow # NoFlow /\ flow \in FlowStates /\ flow.trying \in accepts
      /\ validated' = validated \cup {flow.trying}
      /\ flows' = [flows EXCEPT ![f] = NoFlow] /\ accepts' = accepts
  BY DEF ValidateSucceeds, Validates, FlowInv, FlowTypeOK
<1>2. flow.trying \in Connections /\ flow.trying # Unfilled
  BY <1>1, FlowAssumption DEF FlowAssumption, FlowInv, FlowTypeOK
<1>3. flow.trying = [host |-> flow.trying.host, token |-> flow.trying.token]
      /\ flow.trying.host \in Hosts /\ flow.trying.token \in Secrets
  BY <1>2 DEF Connections
<1>4. CASE entries' = entries
  <2>1. (StoredWasAccepted /\ IdentityUnique)' /\ Taken' = Taken
    BY <1>1, <1>4, SameEntries
  <2>2. FlowTypeOK'
    BY <1>1, <1>4 DEF FlowInv, FlowTypeOK
  <2>3. FlowsAim'
    BY <1>1, <2>1 DEF FlowInv, FlowTypeOK, FlowsAim
  <2> QED BY <2>1, <2>2, <2>3 DEF FlowInv
<1>5. ASSUME NEW s \in Slots, NEW e \in Entries, entries' = [entries EXCEPT ![s] = e],
             Connection(e) = flow.trying, \A t \in Taken : entries[t].id = e.id => t = s
      PROVE  FlowInv'
  <2>1. e # Unfilled
    BY FlowAssumption DEF FlowAssumption
  <2>2. /\ Taken' = Taken \cup {s} /\ entries'[s] = e
        /\ \A t \in Slots \ {s} : entries'[t] = entries[t]
    BY <1>5, <2>1 DEF Taken, FlowInv, FlowTypeOK
  <2>3. FlowTypeOK'
    BY <1>1, <1>5 DEF FlowInv, FlowTypeOK
  <2>4. FlowsAim'
    BY <1>1, <2>2 DEF FlowInv, FlowTypeOK, FlowsAim
  <2>5. StoredWasAccepted'
    BY <1>1, <1>5, <2>2 DEF FlowInv, StoredWasAccepted, Connection, Taken
  <2>6. IdentityUnique'
    BY <1>5, <2>2 DEF FlowInv, IdentityUnique, Taken
  <2> QED BY <2>3, <2>4, <2>5, <2>6 DEF FlowInv
<1>6. CASE flow.kind # "user"
  <2> DEFINE e == [entries[flow.target] EXCEPT !.host = flow.trying.host,
                                               !.token = flow.trying.token]
  <2>1. flow.target \in Taken /\ flow.target \in Slots /\ entries[flow.target] \in Entries
    BY <1>1, <1>6 DEF FlowInv, FlowTypeOK, FlowsAim, Taken
  <2>2. entries' = [entries EXCEPT ![flow.target] = e]
    BY <1>6, <2>1 DEF ValidateSucceeds, Stored, FlowInv, FlowTypeOK
  <2>3. e \in Entries /\ e.id = entries[flow.target].id /\ Connection(e) = flow.trying
    BY <1>3, <2>1 DEF Entries, Connection
  <2>4. \A t \in Taken : entries[t].id = e.id => t = flow.target
    BY <2>1, <2>3 DEF FlowInv, IdentityUnique
  <2> QED BY <1>5, <2>1, <2>2, <2>3, <2>4
<1>7. CASE flow.kind = "user" /\ NameFree(flow.name)
  <2> DEFINE e == [id |-> flow.name, host |-> flow.trying.host, token |-> flow.trying.token]
  <2>1. PICK s \in Slots \ Taken : entries' = [entries EXCEPT ![s] = e]
    BY <1>7 DEF ValidateSucceeds, Stored
  <2>2. flow.name \in Names
    BY <1>1, <1>2, <1>7 DEF FlowInv, FlowsAim
  <2>3. e \in Entries /\ e.id = flow.name /\ Connection(e) = flow.trying
    BY <1>3, <2>2 DEF Entries, Connection
  <2>4. \A t \in Taken : entries[t].id # e.id
    BY <1>7, <2>3 DEF NameFree
  <2> QED BY <1>5, <2>1, <2>3, <2>4
<1>8. CASE flow.kind = "user" /\ ~NameFree(flow.name)
  BY <1>4, <1>8 DEF ValidateSucceeds
<1> QED BY <1>6, <1>7, <1>8

\* An entry that is deleted takes the flows along that are for it.
LEMMA DeleteStep == ASSUME FlowInv, NEW s \in Slots, DeleteEntry(s) PROVE FlowInv'
<1>1. /\ entries' = [entries EXCEPT ![s] = Unfilled] /\ UNCHANGED <<accepts, validated>>
      /\ flows' = [f \in Flows |-> IF flows[f] # NoFlow /\ flows[f].target = s THEN NoFlow
                                   ELSE flows[f]]
  BY DEF DeleteEntry
<1>2. FlowTypeOK'
  BY <1>1 DEF FlowInv, FlowTypeOK
<1>3. Taken' = Taken \ {s} /\ \A t \in Taken' : entries'[t] = entries[t]
  BY <1>1 DEF FlowInv, FlowTypeOK, Taken
<1>4. FlowsAim'
  BY <1>1, <1>3 DEF FlowInv, FlowsAim
<1>5. (StoredWasAccepted /\ IdentityUnique)'
  BY <1>1, <1>3 DEF FlowInv, StoredWasAccepted, IdentityUnique, Connection
<1> QED BY <1>2, <1>4, <1>5 DEF FlowInv

LEMMA FlowInvariant == FlowSpec => []FlowInv
<1>1. FlowInit => FlowInv
  BY DEF FlowInit, FlowInv, FlowTypeOK, FlowsAim, StoredWasAccepted, IdentityUnique, Taken
<1>2. FlowInv /\ [FlowNext]_flowVars => FlowInv'
  <2> SUFFICES ASSUME FlowInv, [FlowNext]_flowVars PROVE FlowInv'
    OBVIOUS
  <2>1. CASE UNCHANGED flowVars
    <3>1. UNCHANGED <<entries, flows, accepts, validated>>
      BY <2>1 DEF flowVars
    <3>2. (StoredWasAccepted /\ IdentityUnique)' /\ Taken' = Taken
      BY <3>1, SameEntries
    <3> QED BY <3>1, <3>2 DEF FlowInv, FlowTypeOK, FlowsAim
  <2>2. ASSUME NEW connection \in Connections, TokenChanges(connection) PROVE FlowInv'
    <3>1. UNCHANGED <<entries, flows, validated>> /\ accepts' \in SUBSET Connections
      BY <2>2 DEF TokenChanges, FlowInv, FlowTypeOK
    <3>2. (StoredWasAccepted /\ IdentityUnique)' /\ Taken' = Taken
      BY <3>1, SameEntries
    <3> QED BY <3>1, <3>2 DEF FlowInv, FlowTypeOK, FlowsAim
  <2> QED BY <2>1, <2>2, StartStep, SubmitStep, BackStep, SucceedsStep, DeleteStep DEF FlowNext
<1> QED BY <1>1, <1>2, PTL DEF FlowSpec

\* However flows that add, reconfigure and reauthenticate entries overlap, the host and
\* the token of an entry were accepted together (async_step_reauth_confirm merges before
\* it tries).
THEOREM AlwaysAccepted == FlowSpec => []StoredWasAccepted
<1>1. FlowInv => StoredWasAccepted
  BY DEF FlowInv
<1> QED BY <1>1, FlowInvariant, PTL

\* Flows for one name that run at once make one entry (async_step_user looks for the name
\* when nothing can come in between any more).
THEOREM IdentityAlwaysUnique == FlowSpec => []IdentityUnique
<1>1. FlowInv => IdentityUnique
  BY DEF FlowInv
<1> QED BY <1>1, FlowInvariant, PTL

-------------------------------------------------------------------------------
(***************************************************************************)
(* The scope of the token, for any rights: what the server refuses is told *)
(* apart from a rejected token, and is not asked for again.                *)
(***************************************************************************)

\* The table's resource of a key is the segment that governs its path.
LEMMA ResourceGoverns ==
    ASSUME NEW k \in Keys
    PROVE  PathOfKey(k)[1] = ResourceOf(k)
  <1>1. /\ DOMAIN HostPath = {"osinfo", "services", "disks", "pools", "system_load",
                              "sensors", "nut"}
        /\ DOMAIN DockerPath = {"docker_containers", "compose_stacks", "docker_groups"}
        /\ DOMAIN EnginePath = {"docker_engine_containers"}
        /\ DOMAIN LxcPath = {"lxc_containers"} /\ DOMAIN VmPath = {"vm_machines"}
    BY DEF HostPath, DockerPath, EnginePath, LxcPath, VmPath
  <1>2. /\ HostPath["osinfo"][1] = "mos" /\ HostPath["services"][1] = "mos"
        /\ HostPath["sensors"][1] = "mos"
        /\ HostPath["disks"][1] = "disks" /\ HostPath["pools"][1] = "pools"
        /\ HostPath["system_load"][1] = "system" /\ HostPath["nut"][1] = "nut"
    BY DEF HostPath, Mos, Root
  <1>3. /\ \A j \in DOMAIN DockerPath : DockerPath[j][1] = "docker"
        /\ EnginePath["docker_engine_containers"][1] = "docker"
        /\ LxcPath["lxc_containers"][1] = "lxc" /\ VmPath["vm_machines"][1] = "vm"
    BY DEF DockerPath, EnginePath, LxcPath, VmPath, Root
  <1>4. CASE k \in DOMAIN HostPath
    <2>1. PathOfKey(k) = HostPath[k]
      BY <1>1, <1>4 DEF PathOfKey
    <2> QED BY <1>1, <1>2, <1>4, <2>1 DEF ResourceOf
  <1>5. CASE k \in DOMAIN DockerPath
    <2>1. PathOfKey(k) = DockerPath[k]
      BY <1>1, <1>5 DEF PathOfKey
    <2> QED BY <1>1, <1>3, <1>5, <2>1 DEF ResourceOf
  <1>6. CASE k \in DOMAIN EnginePath
    <2>1. PathOfKey(k) = EnginePath[k]
      BY <1>1, <1>6 DEF PathOfKey
    <2> QED BY <1>1, <1>3, <1>6, <2>1 DEF ResourceOf
  <1>7. CASE k \in DOMAIN LxcPath
    <2>1. PathOfKey(k) = LxcPath[k]
      BY <1>1, <1>7 DEF PathOfKey
    <2> QED BY <1>1, <1>3, <1>7, <2>1 DEF ResourceOf
  <1>8. CASE k \in DOMAIN VmPath
    <2>1. PathOfKey(k) = VmPath[k]
      BY <1>1, <1>8 DEF PathOfKey
    <2> QED BY <1>1, <1>3, <1>8, <2>1 DEF ResourceOf
  <1> QED BY <1>4, <1>5, <1>6, <1>7, <1>8 DEF Keys

\* An action is checked for the resource that governs its path, which is none that a
\* server leaves out of its answer.
LEMMA ActionGoverned ==
    ASSUME NEW path \in ActionPaths
    PROVE  /\ CheckedResource(path) = path[1]
           /\ path[1] \in Segments \ {"nut"}
  <1>1. path[1] \in {"lxc", "docker", "vm"}
    BY DEF ActionPaths, LxcActions, StackActions, ContainerActions, VmActions, Root
  <1>2. {"lxc_containers", "docker_engine_containers", "vm_machines"} \subseteq Keys
    BY DEF Keys, EnginePath, LxcPath, VmPath
  <1>3. /\ ResourceOf("lxc_containers") = "lxc" /\ ResourceOf("vm_machines") = "vm"
        /\ ResourceOf("docker_engine_containers") = "docker"
    BY DEF ResourceOf
  <1>4. {"lxc", "docker", "vm"} \subseteq Segments
    BY <1>2, <1>3, ResourceGoverns DEF Segments
  <1> QED BY <1>1, <1>4 DEF CheckedResource

\* The least of a set of numbers is the one that is chosen.
LEMMA LeastChosen ==
    ASSUME NEW S \in SUBSET Nat, NEW n \in S, \A m \in S : n <= m
    PROVE  (CHOOSE k \in S : \A m \in S : k <= m) = n
  <1> DEFINE chosen == CHOOSE k \in S : \A m \in S : k <= m
  <1>1. chosen \in S /\ \A m \in S : chosen <= m
    OBVIOUS
  <1> HIDE DEF chosen
  <1>2. chosen = n
    BY <1>1
  <1> QED BY <1>2 DEF chosen

\* What is made of each verdict.
LEMMA TriagedFacts ==
    ASSUME NEW raised \in {"nothing", "authentication", "permission", "rate_limit",
                           "not_found", "communication", "error"}
    PROVE  /\ Triaged(raised) = "payload" <=> raised = "nothing"
           /\ Triaged(raised) = "permission" <=> raised = "permission"
           /\ Triaged(raised) = "authentication" <=> raised = "authentication"
  <1> DEFINE met == {n \in 1..5 : IsA(raised, Branches[n])}
             first == CHOOSE n \in met : \A m \in met : n <= m
  <1>1. CASE raised = "nothing"
    BY <1>1 DEF Triaged
  <1>2. CASE raised # "nothing"
    <2>1. Triaged(raised) = Branches[first]
      BY <1>2 DEF Triaged
    <2>2. met \in SUBSET Nat /\ met \subseteq 1..5
      <3>1. met \subseteq 1..5
        OBVIOUS
      <3> HIDE DEF met
      <3>2. met \in SUBSET Nat
        BY <3>1
      <3> QED BY <3>1, <3>2
    <2>3. ASSUME NEW n \in met, \A m \in met : n <= m
          PROVE  Triaged(raised) = Branches[n]
      <3>1. first = n
        BY <2>2, <2>3, LeastChosen
      <3> QED BY <2>1, <3>1
    <2>4. /\ Branches[1] = "authentication" /\ Branches[2] = "permission"
          /\ Branches[3] = "rate_limit" /\ Branches[4] = "not_found"
          /\ Branches[5] = "error"
      BY DEF Branches
    <2>5. \A n \in 1..5 : n \in met <=> \/ Branches[n] \in {"error", raised}
                                        \/ raised = "not_found" /\ Branches[n] = "communication"
      BY DEF IsA
    <2> HIDE DEF first, met
    <2>6. CASE raised = "authentication"
      <3>1. 1 \in met /\ \A m \in met : 1 <= m
        BY <2>2, <2>4, <2>5, <2>6
      <3> QED BY <2>3, <2>4, <2>6, <3>1
    <2>7. CASE raised = "permission"
      <3>1. 2 \in met /\ 1 \notin met
        BY <2>4, <2>5, <2>7
      <3>2. \A m \in met : 2 <= m
        BY <2>2, <3>1
      <3> QED BY <2>3, <2>4, <2>7, <3>1, <3>2
    <2>8. CASE raised = "rate_limit"
      <3>1. 3 \in met /\ 1 \notin met /\ 2 \notin met
        BY <2>4, <2>5, <2>8
      <3>2. \A m \in met : 3 <= m
        BY <2>2, <3>1
      <3> QED BY <2>3, <2>4, <2>8, <3>1, <3>2
    <2>9. CASE raised = "not_found"
      <3>1. 4 \in met /\ 1 \notin met /\ 2 \notin met /\ 3 \notin met
        BY <2>4, <2>5, <2>9
      <3>2. \A m \in met : 4 <= m
        BY <2>2, <3>1
      <3> QED BY <2>3, <2>4, <2>9, <3>1, <3>2
    <2>10. CASE raised \in {"communication", "error"}
      <3>1. 5 \in met /\ 1 \notin met /\ 2 \notin met /\ 3 \notin met /\ 4 \notin met
        BY <2>4, <2>5, <2>10
      <3>2. \A m \in met : 5 <= m
        BY <2>2, <3>1
      <3> QED BY <2>3, <2>4, <2>10, <3>1, <3>2
    <2> QED BY <1>2, <2>6, <2>7, <2>8, <2>9, <2>10
  <1> QED BY <1>1, <1>2

\* What the client makes of a status.
LEMMA StatusVerified ==
    ASSUME NEW response
    PROVE  /\ response.status = 401 => Verified(response) = "authentication"
           /\ response.status = 404 => Verified(response) = "not_found"
           /\ response.status = 429 => Verified(response) = "rate_limit"
           /\ response.status = 500 => Verified(response) = "communication"
           /\ response.status = 403 => Verified(response) = RaisedForForbidden(response.body)
           /\ response.status = 200 => Verified(response) = "nothing"
  <1>1. response.status = 401 => Verified(response) = "authentication"
    BY DEF Verified
  <1>2. response.status = 404 => Verified(response) = "not_found"
    BY DEF Verified
  <1>3. response.status = 429 => Verified(response) = "rate_limit"
    BY DEF Verified
  <1>4. response.status = 500 => Verified(response) = "communication"
    BY DEF Verified
  <1>5. response.status = 403 => Verified(response) = RaisedForForbidden(response.body)
    BY DEF Verified
  <1>6. response.status = 200 => Verified(response) = "nothing"
    BY DEF Verified
  <1> QED BY <1>1, <1>2, <1>3, <1>4, <1>5, <1>6

\* What it makes of a response, by its status and its body.
LEMMA StatusRaised ==
    /\ Raised(Answer(0, "nothing")) = "communication"
    /\ Raised(Answer(401, "error")) = "authentication"
    /\ Raised(Answer(404, "error")) = "not_found"
    /\ Raised(Answer(429, "error")) = "rate_limit"
    /\ Raised(Answer(500, "page")) = "communication"
    /\ Raised(Answer(403, "scope_denial")) = "permission"
    /\ Raised(Answer(403, "error")) = "authentication"
    /\ Raised(Answer(403, "page")) = "authentication"
    /\ Raised(Answer(200, "page")) = "communication"
    /\ Raised(Answer(200, "torn")) = "error"
    /\ Raised(Answer(200, "data")) = "nothing"
  <1>1. \A status, body : Answer(status, body).status = status /\ Answer(status, body).body = body
    BY DEF Answer
  <1>2. Raised(Answer(0, "nothing")) = "communication"
    BY <1>1 DEF Raised
  <1>3. Raised(Answer(401, "error")) = "authentication"
    BY <1>1, StatusVerified DEF Raised
  <1>4. Raised(Answer(404, "error")) = "not_found"
    BY <1>1, StatusVerified DEF Raised
  <1>5. Raised(Answer(429, "error")) = "rate_limit"
    BY <1>1, StatusVerified DEF Raised
  <1>6. Raised(Answer(500, "page")) = "communication"
    BY <1>1, StatusVerified DEF Raised
  <1>7. /\ RaisedForForbidden("scope_denial") = "permission"
        /\ RaisedForForbidden("error") = "authentication"
        /\ RaisedForForbidden("page") = "authentication"
    BY DEF RaisedForForbidden, ErrorMessage
  <1>8. Raised(Answer(403, "scope_denial")) = "permission"
    BY <1>1, <1>7, StatusVerified DEF Raised
  <1>9. Raised(Answer(403, "error")) = "authentication"
    BY <1>1, <1>7, StatusVerified DEF Raised
  <1>10. Raised(Answer(403, "page")) = "authentication"
    BY <1>1, <1>7, StatusVerified DEF Raised
  <1>11. Raised(Answer(200, "page")) = "communication"
    BY <1>1, StatusVerified DEF Raised
  <1>12. Raised(Answer(200, "torn")) = "error"
    BY <1>1, StatusVerified DEF Raised
  <1>13. Raised(Answer(200, "data")) = "nothing"
    BY <1>1, StatusVerified DEF Raised
  <1> QED
    BY <1>2, <1>3, <1>4, <1>5, <1>6, <1>8, <1>9, <1>10, <1>11, <1>12, <1>13

\* And by what came between, whatever the request.
LEMMA RaisedFacts ==
    ASSUME NEW path, NEW write, NEW trouble \in Troubles
    PROVE  LET raised == Raised(Response(path, write, trouble))
           IN  /\ raised \in {"nothing", "authentication", "permission", "rate_limit",
                              "not_found", "communication", "error"}
               /\ raised = "permission" => valid /\ ~Granted(path, write) /\ trouble = "none"
               /\ trouble = "none" =>
                     /\ ~valid <=> raised = "authentication"
                     /\ (valid /\ ~Granted(path, write)) <=> raised = "permission"
                     /\ (valid /\ Granted(path, write)) <=> raised = "nothing"
               /\ trouble \in {"silence", "failure", "garbage", "torn", "no_such_path",
                               "too_many"} =>
                     raised \notin {"authentication", "permission", "nothing"}
  <1>1. CASE trouble = "none"
    <2>1. CASE ~valid
      <3>1. Raised(Response(path, write, trouble)) = "authentication"
        BY <1>1, <2>1, StatusRaised DEF Response
      <3> QED BY <1>1, <2>1, <3>1
    <2>2. CASE valid /\ ~Granted(path, write)
      <3>1. Raised(Response(path, write, trouble)) = "permission"
        BY <1>1, <2>2, StatusRaised DEF Response
      <3> QED BY <1>1, <2>2, <3>1
    <2>3. CASE valid /\ Granted(path, write)
      <3>1. Raised(Response(path, write, trouble)) = "nothing"
        BY <1>1, <2>3, StatusRaised DEF Response
      <3> QED BY <1>1, <2>3, <3>1
    <2> QED BY <2>1, <2>2, <2>3
  <1>2. CASE trouble # "none"
    <2>1. /\ trouble = "silence" => Disturbed(trouble) = Answer(0, "nothing")
          /\ trouble = "failure" => Disturbed(trouble) = Answer(500, "page")
          /\ trouble = "garbage" => Disturbed(trouble) = Answer(200, "page")
          /\ trouble = "torn" => Disturbed(trouble) = Answer(200, "torn")
          /\ trouble = "login_page" => Disturbed(trouble) = Answer(403, "page")
          /\ trouble = "no_header" => Disturbed(trouble) = Answer(401, "error")
          /\ trouble = "no_such_path" => Disturbed(trouble) = Answer(404, "error")
          /\ trouble = "too_many" => Disturbed(trouble) = Answer(429, "error")
      BY DEF Disturbed
    <2>2. Response(path, write, trouble) = Disturbed(trouble)
      BY <1>2 DEF Response
    <2> QED BY <1>2, <2>1, <2>2, StatusRaised DEF Troubles
  <1> QED BY <1>1, <1>2

\* The scopes there are, and what the server tells of one.
LEMMA ScopeFacts ==
    ASSUME NEW r \in Rights, NEW hidden \in SUBSET {"nut"}
    PROVE  /\ r.mode \in {"full", "readonly", "custom"}
           /\ Told(r, hidden) # Unscoped
           /\ Told(r, hidden).mode = r.mode
           /\ r.mode = "custom" =>
                 /\ r.resources \in [Segments -> Levels]
                 /\ Told(r, hidden).resources = [s \in Segments \ hidden |-> r.resources[s]]
  <1>1. Told(r, hidden) # Unscoped
    BY ScopeAssumption
  <1>2. CASE \E m \in {"full", "readonly"} : r = [mode |-> m]
    <2>1. r.mode \in {"full", "readonly"}
      BY <1>2
    <2> QED BY <1>1, <2>1 DEF Told
  <1>3. CASE \E apart \in Apart, base \in Levels, other \in Levels :
                r = [mode |-> "custom",
                     resources |-> [s \in Segments |-> IF s = apart THEN other ELSE base]]
    <2>1. PICK apart \in Apart, base \in Levels, other \in Levels :
                r = [mode |-> "custom",
                     resources |-> [s \in Segments |-> IF s = apart THEN other ELSE base]]
      BY <1>3
    <2>2. /\ r.mode = "custom"
          /\ r.resources = [s \in Segments |-> IF s = apart THEN other ELSE base]
      BY <2>1
    <2>3. r.resources \in [Segments -> Levels]
      BY <2>2
    <2>4. Told(r, hidden) =
             [mode |-> "custom", resources |-> [s \in Segments \ hidden |-> r.resources[s]]]
      BY <2>1, <2>2 DEF Told
    <2> QED BY <1>1, <2>2, <2>3, <2>4
  <1> QED BY <1>2, <1>3 DEF Rights

\* The integration reads a scope that it was told as the server does: it denies what the
\* server says is denied, and takes an action to be covered when it is.
LEMMA ToldAccess ==
    ASSUME NEW r \in Rights, NEW hidden \in SUBSET {"nut"}, NEW resource \in Segments
    PROVE  /\ ~HasReadAccess(Told(r, hidden), resource) <=>
                 /\ r.mode = "custom" /\ resource \notin hidden
                 /\ r.resources[resource] = "none"
           /\ resource \notin hidden =>
                 (HasWriteAccess(Told(r, hidden), resource)
                    <=> LevelOf(r, resource) = "write")
  <1> DEFINE word == Told(r, hidden)
  <1>0. /\ word # Unscoped /\ word.mode = r.mode /\ r.mode \in {"full", "readonly", "custom"}
        /\ r.mode = "custom" => word.resources = [s \in Segments \ hidden |-> r.resources[s]]
    BY ScopeFacts
  <1> HIDE DEF word
  <1>1. r.mode = "custom" =>
           /\ DOMAIN word.resources = Segments \ hidden
           /\ \A s \in Segments \ hidden : word.resources[s] = r.resources[s]
    BY <1>0
  <1>2. ~HasReadAccess(word, resource) <=>
           r.mode = "custom" /\ resource \notin hidden /\ r.resources[resource] = "none"
    BY <1>0, <1>1 DEF HasReadAccess
  <1>3. /\ r.mode = "full" => LevelOf(r, resource) = "write"
        /\ r.mode = "readonly" => LevelOf(r, resource) = "read"
        /\ r.mode = "custom" => LevelOf(r, resource) = r.resources[resource]
    BY DEF LevelOf
  <1>4. resource \notin hidden =>
           (HasWriteAccess(word, resource) <=> LevelOf(r, resource) = "write")
    BY <1>0, <1>1, <1>3 DEF HasWriteAccess
  <1> QED BY <1>2, <1>4 DEF word

\* The scope that setup was told is the server's word for as long as it is current.
ScopeWord == current => \E hidden \in SUBSET {"nut"} : scope = Told(rights, hidden)

ScopeInv ==
    /\ rights \in Rights
    /\ ScopeWord
    /\ ForbiddenIsRefused
    /\ RejectionToldApart
    /\ RefusedInAdvance

\* Keys and their segments.
LEMMA KeySegments ==
    /\ \A k \in Keys : ResourceOf(k) \in Segments /\ PathOfKey(k)[1] = ResourceOf(k)
    /\ OptionalKeys \subseteq Keys /\ AlwaysFetched \subseteq Keys
    /\ \A k \in Keys : k \in OptionalKeys \/ k \in AlwaysFetched
    /\ OptionalKeys \cap AlwaysFetched = {}
  <1>1. AlwaysFetched \subseteq Keys
    BY DEF AlwaysFetched, Keys, HostPath
  <1>2. \A k \in Keys : ResourceOf(k) \in Segments /\ PathOfKey(k)[1] = ResourceOf(k)
    BY ResourceGoverns DEF Segments
  <1> QED BY <1>1, <1>2 DEF OptionalKeys

\* Nothing has been asked for before setup.
LEMMA ScopeStart == ScopeInit => ScopeInv
  <1> SUFFICES ASSUME ScopeInit PROVE ScopeInv
    OBVIOUS
  <1>1. /\ request.write = FALSE /\ request.granted = TRUE /\ request.known = TRUE
        /\ request.trouble = "none" /\ request.raised = "nothing"
    BY DEF ScopeInit, NoRequest, Request
  <1>2. RejectionToldApart /\ RefusedInAdvance
    BY <1>1 DEF RejectionToldApart, RefusedInAdvance
  <1> QED BY <1>2 DEF ScopeInit, ScopeInv, ScopeWord, ForbiddenIsRefused

\* Setup withdraws what the scope it is told denies.
LEMMA SetupScopeStep ==
    ASSUME ScopeInv, request = NoRequest, NEW trouble, NEW hidden \in SUBSET {"nut"},
           SetupScope(trouble, hidden)
    PROVE  ScopeInv'
  <1> DEFINE told == valid /\ trouble = "none"
  <1>1. /\ scope' = IF told THEN Told(rights, hidden) ELSE Unscoped
        /\ forbidden' = {k \in OptionalKeys : ~HasReadAccess(scope', ResourceOf(k))}
        /\ refused' = IF told /\ rights.mode = "custom"
                      THEN {s \in Segments \ hidden : rights.resources[s] = "none"} ELSE {}
        /\ current' = told
        /\ rights' = rights /\ request' = request /\ rights \in Rights
    BY DEF SetupScope, Seeded, ScopeInv
  <1>2. request.write = FALSE
    BY DEF NoRequest, Request
  <1>3. RejectionToldApart' /\ RefusedInAdvance'
    BY <1>1, <1>2 DEF ScopeInv, RejectionToldApart, RefusedInAdvance
  <1>4. ScopeWord'
    BY <1>1 DEF ScopeWord
  <1>5. ForbiddenIsRefused'
    <2>1. CASE told
      <3>1. ASSUME NEW k \in OptionalKeys
            PROVE  ~HasReadAccess(scope', ResourceOf(k)) <=> PathOfKey(k)[1] \in refused'
        <4>1. ResourceOf(k) \in Segments /\ PathOfKey(k)[1] = ResourceOf(k)
          BY KeySegments
        <4>2. ~HasReadAccess(Told(rights, hidden), ResourceOf(k)) <=>
                 /\ rights.mode = "custom" /\ ResourceOf(k) \notin hidden
                 /\ rights.resources[ResourceOf(k)] = "none"
          BY <1>1, <4>1, ToldAccess
        <4> QED BY <1>1, <2>1, <4>1, <4>2
      <3> QED BY <1>1, <3>1 DEF ForbiddenIsRefused
    <2>2. CASE ~told
      <3>1. \A k \in OptionalKeys : HasReadAccess(scope', ResourceOf(k))
        BY <1>1, <2>2 DEF HasReadAccess
      <3> QED BY <1>1, <2>2, <3>1 DEF ForbiddenIsRefused
    <2> QED BY <2>1, <2>2
  <1> QED BY <1>1, <1>3, <1>4, <1>5 DEF ScopeInv

\* A poll withdraws what the server refused in it, and nothing when it failed.
LEMMA PollScopeStep ==
    ASSUME ScopeInv, NEW trouble \in Troubles \ {"none"},
           NEW disturbed \in {{}, OptionalKeys} \cup {{k} : k \in Keys},
           PollScope(disturbed, trouble)
    PROVE  ScopeInv'
  <1> DEFINE asked == AlwaysFetched \cup (OptionalKeys \ forbidden)
             Comes(k) == Response(PathOfKey(k), FALSE, IF k \in disturbed THEN trouble ELSE "none")
             result == [k \in asked |-> Triaged(Raised(Comes(k)))]
             fails == \/ \E k \in asked : result[k] = "authentication"
                      \/ \E k \in AlwaysFetched : result[k] # "payload"
             denials == {j \in asked \ disturbed : ~Granted(PathOfKey(j), FALSE)}
  <1>1. /\ forbidden' = IF fails THEN forbidden ELSE forbidden \cup Absorbed(result)
        /\ refused' = IF fails \/ ~valid THEN refused
                      ELSE refused \cup {PathOfKey(k)[1] : k \in denials}
        /\ UNCHANGED <<valid, rights, scope, request, current>>
    BY DEF PollScope
  <1>2. rights' \in Rights /\ ScopeWord' /\ RejectionToldApart' /\ RefusedInAdvance'
    BY <1>1 DEF ScopeInv, ScopeWord, RejectionToldApart, RefusedInAdvance
  <1>3. asked \subseteq Keys
    BY KeySegments
  <1>4. ASSUME NEW k \in asked
        PROVE  /\ result[k] = "permission" <=>
                     k \notin disturbed /\ valid /\ ~Granted(PathOfKey(k), FALSE)
               /\ k \notin disturbed /\ ~valid => result[k] = "authentication"
    <2>1. result[k] = Triaged(Raised(Comes(k)))
      OBVIOUS
    <2>2. CASE k \in disturbed
      <3>1. Comes(k) = Response(PathOfKey(k), FALSE, trouble)
        BY <2>2
      <3>2. Raised(Comes(k)) # "permission"
        BY <3>1, RaisedFacts
      <3>3. Raised(Comes(k)) \in {"nothing", "authentication", "permission", "rate_limit",
                                  "not_found", "communication", "error"}
        BY <3>1, RaisedFacts
      <3> QED BY <2>1, <2>2, <3>2, <3>3, TriagedFacts
    <2>3. CASE k \notin disturbed
      <3>1. Comes(k) = Response(PathOfKey(k), FALSE, "none")
        BY <2>3
      <3>2. "none" \in Troubles
        BY DEF Troubles
      <3>3. /\ Raised(Comes(k)) = "permission" <=> valid /\ ~Granted(PathOfKey(k), FALSE)
            /\ ~valid => Raised(Comes(k)) = "authentication"
        BY <3>1, <3>2, RaisedFacts
      <3>4. Raised(Comes(k)) \in {"nothing", "authentication", "permission", "rate_limit",
                                  "not_found", "communication", "error"}
        BY <3>1, <3>2, RaisedFacts
      <3> QED BY <2>1, <2>3, <3>3, <3>4, TriagedFacts
    <2> QED BY <2>2, <2>3
  <1>5. DOMAIN result = asked
    OBVIOUS
  <1> HIDE DEF result, Comes
  <1>6. CASE fails
    BY <1>1, <1>2, <1>6 DEF ScopeInv, ForbiddenIsRefused
  <1>7. CASE ~fails
    <2>1. valid
      <3>1. PICK k \in AlwaysFetched : k \notin disturbed
        <4>1. "osinfo" \in AlwaysFetched /\ "system_load" \in AlwaysFetched
          BY DEF AlwaysFetched
        <4> QED BY <4>1, KeySegments
      <3>2. result[k] = "payload"
        BY <1>7
      <3> QED BY <1>4, <3>1, <3>2
    <2>2. \A k \in asked : result[k] = "permission" <=> k \in denials
      BY <1>4, <2>1
    <2>3. denials \subseteq OptionalKeys
      <3>1. ASSUME NEW k \in denials, k \in AlwaysFetched PROVE FALSE
        BY <1>7, <2>2, <3>1
      <3> QED BY <1>3, <3>1, KeySegments
    <2>4. {k \in DOMAIN result \cap OptionalKeys : result[k] = "permission"} = denials
      BY <1>5, <2>2, <2>3
    <2> HIDE DEF denials
    <2>5. Absorbed(result) =
             denials \cup {k \in OptionalKeys : ResourceOf(k) \in {ResourceOf(j) : j \in denials}}
      BY <2>4 DEF Absorbed
    <2>6. {PathOfKey(j)[1] : j \in denials} = {ResourceOf(j) : j \in denials}
      BY <2>3, KeySegments
    <2>7. forbidden = {k \in OptionalKeys : PathOfKey(k)[1] \in refused}
      BY DEF ScopeInv, ForbiddenIsRefused
    <2>8. forbidden' = forbidden \cup Absorbed(result)
      BY <1>1, <1>7
    <2>9. refused' = refused \cup {ResourceOf(j) : j \in denials}
      BY <1>1, <1>7, <2>1, <2>6
    <2>10. \A k \in OptionalKeys : PathOfKey(k)[1] = ResourceOf(k)
      BY KeySegments
    <2>11. ForbiddenIsRefused'
      BY <2>3, <2>5, <2>7, <2>8, <2>9, <2>10 DEF ForbiddenIsRefused
    <2> QED BY <1>1, <1>2, <2>11 DEF ScopeInv
  <1> QED BY <1>6, <1>7

\* A request of the enrichment, and the verdict on it.
LEMMA AskDetailStep ==
    ASSUME ScopeInv, NEW path, NEW trouble \in Troubles, AskDetail(path, trouble)
    PROVE  ScopeInv'
  <1> DEFINE raised == Raised(Response(path, FALSE, trouble))
  <1>1. /\ request'.write = FALSE /\ request'.granted = Granted(path, FALSE)
        /\ request'.known = valid /\ request'.trouble = trouble /\ request'.raised = raised
        /\ UNCHANGED <<rights, scope, forbidden, refused, current>>
    BY DEF AskDetail, Request
  <1>2. /\ raised = "permission" => valid /\ ~Granted(path, FALSE) /\ trouble = "none"
        /\ trouble = "none" => /\ ~valid <=> raised = "authentication"
                               /\ (valid /\ ~Granted(path, FALSE)) <=> raised = "permission"
        /\ trouble \in {"silence", "failure", "garbage", "torn", "no_such_path", "too_many"}
              => raised \notin {"authentication", "permission", "nothing"}
    BY RaisedFacts
  <1> HIDE DEF raised
  <1>3. RejectionToldApart' /\ RefusedInAdvance'
    BY <1>1, <1>2 DEF RejectionToldApart, RefusedInAdvance
  <1> QED BY <1>1, <1>3 DEF ScopeInv, ScopeWord, ForbiddenIsRefused

\* An action, which is refused here when the scope does not cover it.
LEMMA ActStep ==
    ASSUME ScopeInv, NEW path \in ActionPaths, NEW trouble \in Troubles, Act(path, trouble)
    PROVE  ScopeInv'
  <1> DEFINE answer == Raised(Response(path, TRUE, trouble))
             covered == HasWriteAccess(scope, CheckedResource(path))
  <1>1. /\ request'.write = TRUE /\ request'.granted = Granted(path, TRUE)
        /\ request'.known = valid /\ request'.trouble = trouble
        /\ request'.raised = IF covered THEN answer ELSE "here"
        /\ UNCHANGED <<rights, scope, forbidden, refused, current>>
    BY DEF Act, Request
  <1>2. /\ answer = "permission" => valid /\ ~Granted(path, TRUE) /\ trouble = "none"
        /\ trouble = "none" => /\ ~valid <=> answer = "authentication"
                               /\ (valid /\ ~Granted(path, TRUE)) <=> answer = "permission"
        /\ trouble \in {"silence", "failure", "garbage", "torn", "no_such_path", "too_many"}
              => answer \notin {"authentication", "permission", "nothing"}
        /\ answer # "here"
    BY RaisedFacts
  <1>3. current => (covered <=> Granted(path, TRUE))
    <2> SUFFICES ASSUME current PROVE covered <=> Granted(path, TRUE)
      OBVIOUS
    <2>1. PICK hidden \in SUBSET {"nut"} : scope = Told(rights, hidden)
      BY DEF ScopeInv, ScopeWord
    <2>2. CheckedResource(path) = path[1] /\ path[1] \in Segments /\ path[1] \notin hidden
      BY <2>1, ActionGoverned
    <2>3. covered <=> LevelOf(rights, path[1]) = "write"
      BY <2>1, <2>2, ToldAccess DEF ScopeInv
    <2> QED BY <2>3 DEF Granted
  <1> HIDE DEF answer, covered
  <1>4. RejectionToldApart' /\ RefusedInAdvance'
    BY <1>1, <1>2, <1>3 DEF RejectionToldApart, RefusedInAdvance
  <1> QED BY <1>1, <1>4 DEF ScopeInv, ScopeWord, ForbiddenIsRefused

\* The invariant of the token's scope is inductive.
LEMMA ScopeStep == ScopeInv /\ [ScopeNext]_scopeVars => ScopeInv'
  <1> SUFFICES ASSUME ScopeInv, [ScopeNext]_scopeVars PROVE ScopeInv'
    OBVIOUS
  <1>1. CASE /\ request = NoRequest
             /\ \E trouble \in Troubles, hidden \in SUBSET {"nut"} : SetupScope(trouble, hidden)
    BY <1>1, SetupScopeStep
  <1>2. CASE \E trouble \in Troubles \ {"none"},
                disturbed \in {{}, OptionalKeys} \cup {{k} : k \in Keys} :
                PollScope(disturbed, trouble)
    BY <1>2, PollScopeStep
  <1>3. CASE \E path \in DetailPaths, trouble \in Troubles : AskDetail(path, trouble)
    BY <1>3, AskDetailStep
  <1>4. CASE \E path \in ActionPaths, trouble \in Troubles : Act(path, trouble)
    BY <1>4, ActStep
  <1>5. CASE \E r \in Rights : ChangeRights(r)
    BY <1>5
    DEF ChangeRights, ScopeInv, ScopeWord, ForbiddenIsRefused, RejectionToldApart,
        RefusedInAdvance
  <1>6. CASE ChangeToken
    BY <1>6
    DEF ChangeToken, ScopeInv, ScopeWord, ForbiddenIsRefused, RejectionToldApart,
        RefusedInAdvance
  <1>7. CASE RequestOver
    <2>1. /\ request'.write = FALSE /\ request'.granted = TRUE /\ request'.known = TRUE
          /\ request'.trouble = "none" /\ request'.raised = "nothing"
      BY <1>7 DEF RequestOver, NoRequest, Request
    <2>2. RejectionToldApart' /\ RefusedInAdvance'
      BY <2>1 DEF RejectionToldApart, RefusedInAdvance
    <2> QED BY <1>7, <2>2 DEF RequestOver, ScopeInv, ScopeWord, ForbiddenIsRefused
  <1>8. CASE UNCHANGED scopeVars
    BY <1>8
    DEF scopeVars, ScopeInv, ScopeWord, ForbiddenIsRefused, RejectionToldApart,
        RefusedInAdvance
  <1> QED BY <1>1, <1>2, <1>3, <1>4, <1>5, <1>6, <1>7, <1>8 DEF ScopeNext

\* The invariant of the token's scope holds throughout.
LEMMA ScopeInvariant == ScopeSpec => []ScopeInv
  BY ScopeStart, ScopeStep, PTL DEF ScopeSpec

\* For any scopes, and however rights change and responses are disturbed, what is never
\* asked for again is what the server refused (_absorb_scope_denials,
\* _seed_forbidden_resources).
THEOREM ForbiddenAlwaysRefused == ScopeSpec => []ForbiddenIsRefused
  <1>1. ScopeInv => ForbiddenIsRefused
    BY DEF ScopeInv
  <1> QED BY <1>1, ScopeInvariant, PTL

\* A rejected token, a narrow one and a server in trouble are told apart, for every
\* path and every kind of response (_verify_response_or_raise, _raise_for_forbidden).
THEOREM RejectionsAlwaysToldApart == ScopeSpec => []RejectionToldApart
  <1>1. ScopeInv => RejectionToldApart
    BY DEF ScopeInv
  <1> QED BY <1>1, ScopeInvariant, PTL

\* An action is refused in advance exactly when the server would refuse it, for any
\* scope that it was told of at setup and that still holds (_check_write_access).
THEOREM AlwaysRefusedInAdvance == ScopeSpec => []RefusedInAdvance
  <1>1. ScopeInv => RefusedInAdvance
    BY DEF ScopeInv
  <1> QED BY <1>1, ScopeInvariant, PTL

-------------------------------------------------------------------------------
(***************************************************************************)
(* Devices, for any items, platforms and areas: the registries follow the  *)
(* data whichever platform syncs last, and over any moves and reloads a    *)
(* device stays where it was put, until the server comes there.            *)
(***************************************************************************)

DevicesTypeOK ==
    /\ loaded \in BOOLEAN /\ items \in SUBSET Items /\ owed \in SUBSET Platforms
    /\ known \in [Platforms -> SUBSET Items]
    /\ registry \in [Items -> SUBSET (Platforms \cup {Retired})]
    /\ device \in [Items -> Places \cup {NoDevice}]
    /\ server \in Places
    /\ orphans \in SUBSET Items
    /\ put \in [Items -> Places \cup {Nowhere}] /\ reached \in SUBSET Items

\* A device has entities, of a platform that is there; a loaded entry has no retired ones.
Inhabited ==
    \A i \in Items :
        /\ device[i] = NoDevice <=> registry[i] = {}
        /\ registry[i] # {} => registry[i] \cap Platforms # {}
        /\ loaded => Retired \notin registry[i]

\* What a platform knows it has entities for; it has others only for items that it is
\* about to learn of, or that went while it was not there.
PlatformsKnow ==
    /\ ~loaded => owed = {} /\ \A p \in Platforms : known[p] = {}
    /\ loaded => \A p \in Platforms :
          /\ p \notin owed => known[p] = items
          /\ \A i \in known[p] : p \in registry[i]
          /\ \A i \in Items \ orphans :
                p \in registry[i] => i \in known[p] \/ (p \in owed /\ i \in items)

\* Nobody has put a device that is not there, and the server has reached those that were
\* put where it is now.
Meetings ==
    /\ \A i \in Items : device[i] = NoDevice => put[i] = Nowhere /\ i \notin reached
    /\ \A i \in Items : put[i] = server => i \in reached

RegistryInv == DevicesTypeOK /\ Inhabited /\ PlatformsKnow
PlaceInv == DevicesTypeOK /\ Meetings /\ DevicesKeepPlace

-------------------------------------------------------------------------------
\* The constants that mark what is not a place are none.
LEMMA Marks == /\ NoDevice \notin Places /\ Nowhere \notin Places /\ Nowhere # NoDevice
               /\ NoArea \in Places /\ Retired \notin Platforms
BY DeviceAssumption DEF DeviceAssumption, Places

\* Setting up leaves every platform to learn of the items, and no retired entity.
LEMMA SetupStep ==
    ASSUME RegistryInv, NEW found \in SUBSET Items, SetupDevices(found)
    PROVE  RegistryInv'
<1>1. /\ ~loaded /\ loaded' = TRUE /\ items' = found /\ owed' = Platforms
      /\ registry' = [i \in Items |-> registry[i] \ {Retired}]
      /\ orphans' = {i \in Items : device[i] # NoDevice}
      /\ UNCHANGED <<known, device, server, history>>
  BY DEF SetupDevices, WithoutRetired
<1>2. DevicesTypeOK'
  BY <1>1 DEF RegistryInv, DevicesTypeOK, history
<1>3. Inhabited'
  BY <1>1, Marks DEF RegistryInv, DevicesTypeOK, Inhabited
<1>4. PlatformsKnow'
  BY <1>1 DEF RegistryInv, DevicesTypeOK, Inhabited, PlatformsKnow
<1> QED BY <1>2, <1>3, <1>4 DEF RegistryInv

\* A platform's sync: what it does to one item.
LEMMA SyncEffect ==
    ASSUME DevicesTypeOK, NEW p \in Platforms, NEW restored \in [Items -> Places],
           Sync(p, restored), NEW i \in Items
    PROVE  /\ p \in owed /\ owed' = owed \ {p} /\ orphans' = orphans \ items
           /\ known' = [known EXCEPT ![p] = items]
           /\ UNCHANGED <<loaded, items, server>>
           /\ registry'[i] = IF i \in items \ known[p] THEN registry[i] \cup {p}
                             ELSE IF i \in known[p] \ items THEN registry[i] \ {p}
                             ELSE registry[i]
           /\ device'[i] = IF i \in items \ known[p] /\ device[i] = NoDevice
                           THEN Adopted(restored[i])
                           ELSE IF i \in known[p] \ items /\ registry'[i] = {} THEN NoDevice
                           ELSE device[i]
           /\ put'[i] = IF i \in items \ known[p] /\ device[i] = NoDevice /\ restored[i] # NoArea
                        THEN restored[i]
                        ELSE IF device'[i] = NoDevice THEN Nowhere
                        ELSE put[i]
           /\ i \in reached' <=> put'[i] = server \/ (i \in reached /\ device'[i] # NoDevice)
           /\ Adopted(restored[i]) \in Places
<1>1. Adopted(restored[i]) \in Places
  BY DEF Adopted, DevicesTypeOK
<1> QED BY <1>1 DEF Sync

LEMMA SyncTypes ==
    ASSUME DevicesTypeOK, NEW p \in Platforms, NEW restored \in [Items -> Places],
           Sync(p, restored)
    PROVE  DevicesTypeOK'
<1>1. /\ owed' = owed \ {p} /\ orphans' = orphans \ items
      /\ known' = [known EXCEPT ![p] = items] /\ UNCHANGED <<loaded, items, server>>
  BY DEF Sync
<1>2. \A i \in Items : /\ registry'[i] \in SUBSET (Platforms \cup {Retired})
                       /\ device'[i] \in Places \cup {NoDevice}
                       /\ put'[i] \in Places \cup {Nowhere}
  <2> SUFFICES ASSUME NEW i \in Items
               PROVE  /\ registry'[i] \in SUBSET (Platforms \cup {Retired})
                      /\ device'[i] \in Places \cup {NoDevice}
                      /\ put'[i] \in Places \cup {Nowhere}
    OBVIOUS
  <2>1. registry[i] \in SUBSET (Platforms \cup {Retired}) /\ device[i] \in Places \cup {NoDevice}
        /\ put[i] \in Places \cup {Nowhere} /\ restored[i] \in Places
    BY DEF DevicesTypeOK
  <2> QED BY <2>1, SyncEffect
<1>3. /\ registry' = [i \in Items |-> registry'[i]] /\ device' = [i \in Items |-> device'[i]]
      /\ put' = [i \in Items |-> put'[i]] /\ reached' \in SUBSET Items
  BY DEF Sync
<1> QED BY <1>1, <1>2, <1>3 DEF DevicesTypeOK

LEMMA SyncKnows ==
    ASSUME RegistryInv, NEW p \in Platforms, NEW restored \in [Items -> Places],
           Sync(p, restored)
    PROVE  RegistryInv'
<1>1. DevicesTypeOK'
  BY SyncTypes DEF RegistryInv
<1>2. p \in owed /\ owed' = owed \ {p} /\ orphans' = orphans \ items
      /\ known' = [known EXCEPT ![p] = items] /\ loaded' = loaded /\ items' = items
  BY DEF Sync
<1>3. loaded
  BY <1>2 DEF RegistryInv, PlatformsKnow
<1>4. Inhabited'
  <2> SUFFICES ASSUME NEW i \in Items
               PROVE  /\ device'[i] = NoDevice <=> registry'[i] = {}
                      /\ registry'[i] # {} => registry'[i] \cap Platforms # {}
                      /\ Retired \notin registry'[i]
    BY DEF Inhabited
  <2>1. /\ device[i] = NoDevice <=> registry[i] = {}
        /\ registry[i] \subseteq Platforms
    BY <1>3 DEF RegistryInv, DevicesTypeOK, Inhabited
  <2>2. registry'[i] \subseteq Platforms
    BY <2>1, SyncEffect DEF RegistryInv
  <2>3. device'[i] = NoDevice <=> registry'[i] = {}
    <3>1. DevicesTypeOK
      BY DEF RegistryInv
    <3>2. CASE i \in items \ known[p]
      <4>1. registry'[i] = registry[i] \cup {p} /\ registry'[i] # {}
        BY <3>1, <3>2, SyncEffect
      <4>2. /\ device'[i] = IF device[i] = NoDevice THEN Adopted(restored[i]) ELSE device[i]
            /\ Adopted(restored[i]) \in Places
        BY <3>1, <3>2, SyncEffect
      <4> QED BY <4>1, <4>2, Marks
    <3>3. CASE i \in known[p] \ items
      <4>1. registry'[i] = registry[i] \ {p}
            /\ device'[i] = IF registry'[i] = {} THEN NoDevice ELSE device[i]
        BY <3>1, <3>3, SyncEffect
      <4> QED BY <2>1, <4>1
    <3>4. CASE i \notin (items \ known[p]) \cup (known[p] \ items)
      <4>1. registry'[i] = registry[i] /\ device'[i] = device[i]
        BY <3>1, <3>4, SyncEffect
      <4> QED BY <2>1, <4>1
    <3> QED BY <3>2, <3>3, <3>4
  <2> QED BY <2>2, <2>3, Marks
<1>5. ASSUME NEW q \in Platforms
      PROVE  /\ q \notin owed' => known'[q] = items
             /\ \A i \in known'[q] : q \in registry'[i]
             /\ \A i \in Items \ orphans' :
                   q \in registry'[i] => i \in known'[q] \/ (q \in owed' /\ i \in items)
  <2>1. /\ q \notin owed => known[q] = items
        /\ \A i \in known[q] : q \in registry[i]
        /\ \A i \in Items \ orphans :
              q \in registry[i] => i \in known[q] \/ (q \in owed /\ i \in items)
        /\ known[q] \subseteq Items /\ items \subseteq Items
    BY <1>3 DEF RegistryInv, DevicesTypeOK, PlatformsKnow
  <2>2. \A i \in Items :
            registry'[i] = IF i \in items \ known[p] THEN registry[i] \cup {p}
                           ELSE IF i \in known[p] \ items THEN registry[i] \ {p}
                           ELSE registry[i]
    BY SyncEffect DEF RegistryInv
  <2>3. CASE q = p
    <3>1. known'[q] = items
      BY <1>2, <2>3 DEF RegistryInv, DevicesTypeOK
    <3>2. \A i \in items : q \in registry'[i]
      BY <2>1, <2>2, <2>3
    <3>3. \A i \in Items \ orphans' : q \in registry'[i] => i \in items
      BY <1>2, <2>1, <2>2, <2>3
    <3> QED BY <3>1, <3>2, <3>3
  <2>4. CASE q # p
    <3>1. known'[q] = known[q] /\ (q \in owed' <=> q \in owed)
          /\ \A i \in Items : q \in registry'[i] <=> q \in registry[i]
      BY <1>2, <2>2, <2>4 DEF RegistryInv, DevicesTypeOK
    <3> QED BY <1>2, <2>1, <3>1
  <2> QED BY <2>3, <2>4
<1>6. PlatformsKnow'
  BY <1>2, <1>3, <1>5 DEF PlatformsKnow
<1> QED BY <1>1, <1>4, <1>6 DEF RegistryInv

\* The other steps, each of which leaves the platforms with what they know.
LEMMA OtherRegistrySteps ==
    ASSUME RegistryInv,
           \/ \E found \in SUBSET Items : DataChanges(found)
           \/ \E place \in Places : MoveServer(place) \/ \E i \in Items : PlaceDevice(i, place)
           \/ \E i \in Items : LeaveRetired(i)
           \/ UnloadDevices
    PROVE  RegistryInv'
<1>1. ASSUME NEW found \in SUBSET Items, DataChanges(found) PROVE RegistryInv'
  <2>1. /\ loaded /\ owed = {} /\ items' = found /\ owed' = Platforms
        /\ UNCHANGED <<loaded, known, registry, device, server, orphans, history>>
    BY <1>1 DEF DataChanges
  <2>2. DevicesTypeOK' /\ Inhabited'
    BY <2>1 DEF RegistryInv, DevicesTypeOK, Inhabited, history
  <2>3. ASSUME NEW p \in Platforms
        PROVE  /\ \A i \in known[p] : p \in registry[i]
               /\ \A i \in Items \ orphans : p \in registry[i] => i \in known[p]
    BY <2>1 DEF RegistryInv, PlatformsKnow
  <2>4. PlatformsKnow'
    <3>1. loaded' /\ owed' = Platforms /\ UNCHANGED <<known, registry, orphans>>
      BY <2>1
    <3> SUFFICES ASSUME NEW p \in Platforms
                 PROVE  /\ p \notin owed' => known'[p] = items'
                        /\ \A i \in known'[p] : p \in registry'[i]
                        /\ \A i \in Items \ orphans' :
                              p \in registry'[i] => i \in known'[p] \/ (p \in owed' /\ i \in items')
      BY <3>1 DEF PlatformsKnow
    <3> QED BY <2>3, <3>1
  <2> QED BY <2>2, <2>4 DEF RegistryInv
<1>2. ASSUME NEW place \in Places, MoveServer(place) PROVE RegistryInv'
  <2>1. /\ server' = place /\ UNCHANGED <<loaded, items, owed, known, registry, orphans>>
        /\ \A i \in Items : device'[i] = NoDevice <=> device[i] = NoDevice
    BY <1>2, Marks DEF MoveServer, RegistryInv, DevicesTypeOK
  <2>2. /\ device' \in [Items -> Places \cup {NoDevice}]
        /\ put' \in [Items -> Places \cup {Nowhere}] /\ reached' \in SUBSET Items
    BY <1>2 DEF MoveServer, RegistryInv, DevicesTypeOK
  <2> QED BY <2>1, <2>2 DEF RegistryInv, DevicesTypeOK, Inhabited, PlatformsKnow
<1>3. ASSUME NEW place \in Places, NEW i \in Items, PlaceDevice(i, place) PROVE RegistryInv'
  <2>1. /\ UNCHANGED <<loaded, items, owed, known, registry, server, orphans>>
        /\ \A j \in Items : device'[j] = NoDevice <=> device[j] = NoDevice
    BY <1>3, Marks DEF PlaceDevice, RegistryInv, DevicesTypeOK
  <2>2. /\ device' \in [Items -> Places \cup {NoDevice}]
        /\ put' \in [Items -> Places \cup {Nowhere}] /\ reached' \in SUBSET Items
    BY <1>3 DEF PlaceDevice, RegistryInv, DevicesTypeOK
  <2> QED BY <2>1, <2>2 DEF RegistryInv, DevicesTypeOK, Inhabited, PlatformsKnow
<1>4. ASSUME NEW i \in Items, LeaveRetired(i) PROVE RegistryInv'
  <2>1. /\ ~loaded /\ registry[i] # {} /\ registry' = [registry EXCEPT ![i] = @ \cup {Retired}]
        /\ UNCHANGED <<loaded, items, owed, known, device, server, orphans, history>>
    BY <1>4 DEF LeaveRetired, RegistryInv, Inhabited
  <2>2. registry' \in [Items -> SUBSET (Platforms \cup {Retired})]
        /\ registry'[i] = registry[i] \cup {Retired}
        /\ \A j \in Items \ {i} : registry'[j] = registry[j]
    BY <2>1 DEF RegistryInv, DevicesTypeOK
  <2> QED BY <2>1, <2>2 DEF RegistryInv, DevicesTypeOK, Inhabited, PlatformsKnow, history
<1>5. CASE UnloadDevices
  BY <1>5 DEF UnloadDevices, RegistryInv, DevicesTypeOK, Inhabited, PlatformsKnow, history
<1> QED BY <1>1, <1>2, <1>3, <1>4, <1>5

LEMMA RegistryInvariant == DevicesSpec => []RegistryInv
<1>1. DevicesInit => RegistryInv
  BY Marks DEF DevicesInit, RegistryInv, DevicesTypeOK, Inhabited, PlatformsKnow
<1>2. RegistryInv /\ [DevicesNext]_deviceVars => RegistryInv'
  <2> SUFFICES ASSUME RegistryInv, [DevicesNext]_deviceVars PROVE RegistryInv'
    OBVIOUS
  <2>1. CASE UNCHANGED deviceVars
    BY <2>1 DEF deviceVars, history, RegistryInv, DevicesTypeOK, Inhabited, PlatformsKnow
  <2> QED BY <2>1, SetupStep, SyncKnows, OtherRegistrySteps DEF DevicesNext
<1> QED BY <1>1, <1>2, PTL DEF DevicesSpec

\* The registries follow the data, for any number of platforms and in whatever order they
\* sync, across reloads and entities left by older versions (async_setup_dynamic_entities).
THEOREM RegistryAlwaysFollows == DevicesSpec => []RegistryFollowsData
<1>1. RegistryInv => RegistryFollowsData
  <2> SUFFICES ASSUME RegistryInv PROVE RegistryFollowsData
    OBVIOUS
  <2>1. ASSUME loaded, owed = {}, NEW i \in Items \ orphans
        PROVE  registry[i] = IF i \in items THEN Platforms ELSE {}
    <3>1. registry[i] \subseteq Platforms
      BY <2>1 DEF RegistryInv, DevicesTypeOK, Inhabited
    <3>2. \A p \in Platforms : p \in registry[i] <=> i \in items
      BY <2>1 DEF RegistryInv, PlatformsKnow
    <3> QED BY <3>1, <3>2
  <2> QED BY <2>1 DEF RegistryInv, Inhabited, RegistryFollowsData
<1> QED BY <1>1, RegistryInvariant, PTL

-------------------------------------------------------------------------------
\* A sync puts a new device where the registry knew it or into the server's area.
LEMMA SyncPlaces ==
    ASSUME PlaceInv, NEW p \in Platforms, NEW restored \in [Items -> Places],
           Sync(p, restored)
    PROVE  PlaceInv'
<1>1. DevicesTypeOK'
  BY SyncTypes DEF PlaceInv
<1>2. ASSUME NEW i \in Items
      PROVE  /\ device'[i] = NoDevice => put'[i] = Nowhere /\ i \notin reached'
             /\ put'[i] = server' => i \in reached'
             /\ device'[i] # NoDevice =>
                   device'[i] = IF put'[i] = Nowhere \/ i \in reached' THEN server' ELSE put'[i]
  <2>1. /\ device[i] = NoDevice => put[i] = Nowhere /\ i \notin reached
        /\ put[i] = server => i \in reached
        /\ device[i] # NoDevice =>
              device[i] = IF put[i] = Nowhere \/ i \in reached THEN server ELSE put[i]
    BY DEF PlaceInv, Meetings, DevicesKeepPlace, Joined
  <2>2. restored[i] \in Places
    OBVIOUS
  <2>3. Adopted(restored[i]) = IF restored[i] = NoArea THEN server ELSE restored[i]
    BY DEF Adopted
  <2>4. /\ server' = server
        /\ i \in reached' <=> put'[i] = server \/ (i \in reached /\ device'[i] # NoDevice)
    BY SyncEffect DEF PlaceInv
  <2>5. CASE i \in items \ known[p] /\ device[i] = NoDevice
    <3>1. device'[i] = Adopted(restored[i]) /\ device'[i] \in Places
      BY <2>5, SyncEffect DEF PlaceInv
    <3>2. put'[i] = IF restored[i] # NoArea THEN restored[i] ELSE Nowhere
      BY <2>1, <2>5, <3>1, SyncEffect, Marks DEF PlaceInv
    <3>3. i \in reached' <=> put'[i] = server \/ i \in reached
      BY <2>4, <3>1, Marks
    <3> QED BY <2>1, <2>2, <2>3, <2>4, <2>5, <3>1, <3>2, <3>3, Marks
  <2>6. CASE ~(i \in items \ known[p] /\ device[i] = NoDevice)
    <3>1. /\ device'[i] \in {device[i], NoDevice}
          /\ put'[i] = IF device'[i] = NoDevice THEN Nowhere ELSE put[i]
      BY <2>6, SyncEffect DEF PlaceInv
    <3> QED BY <2>1, <2>4, <3>1, Marks DEF PlaceInv, DevicesTypeOK
  <2> QED BY <2>5, <2>6
<1> QED BY <1>1, <1>2 DEF PlaceInv, Meetings, DevicesKeepPlace, Joined

\* Moving the server takes along what was with it, by choice or by chance.
LEMMA MoveStep ==
    ASSUME PlaceInv, NEW place \in Places, MoveServer(place)
    PROVE  PlaceInv'
<1>1. /\ server' = place /\ place # server
      /\ UNCHANGED <<loaded, items, owed, known, registry, orphans>>
      /\ device' = [i \in Items |-> IF loaded /\ device[i] # NoDevice /\ device[i] = server
                                    THEN place ELSE device[i]]
      /\ put' = [i \in Items |->
            IF ~loaded /\ device[i] # NoDevice /\ (put[i] = Nowhere \/ i \in reached)
            THEN server ELSE put[i]]
      /\ reached' = {i \in Items : put'[i] = place \/ (loaded /\ i \in reached)}
  BY DEF MoveServer, Moved, Joined
<1>2. DevicesTypeOK'
  BY <1>1 DEF PlaceInv, DevicesTypeOK
<1>3. ASSUME NEW i \in Items
      PROVE  /\ device'[i] = NoDevice => put'[i] = Nowhere /\ i \notin reached'
             /\ put'[i] = server' => i \in reached'
             /\ device'[i] # NoDevice =>
                   device'[i] = IF put'[i] = Nowhere \/ i \in reached' THEN server' ELSE put'[i]
  <2>1. /\ device[i] = NoDevice => put[i] = Nowhere /\ i \notin reached
        /\ put[i] = server => i \in reached
        /\ device[i] # NoDevice =>
              device[i] = IF put[i] = Nowhere \/ i \in reached THEN server ELSE put[i]
        /\ server \in Places
    BY DEF PlaceInv, Meetings, DevicesKeepPlace, Joined, DevicesTypeOK
  <2>2. /\ device'[i] = IF loaded /\ device[i] # NoDevice /\ device[i] = server
                        THEN place ELSE device[i]
        /\ put'[i] = IF ~loaded /\ device[i] # NoDevice /\ (put[i] = Nowhere \/ i \in reached)
                     THEN server ELSE put[i]
        /\ i \in reached' <=> put'[i] = place \/ (loaded /\ i \in reached)
    BY <1>1
  <2>3. CASE device[i] = NoDevice
    BY <1>1, <2>1, <2>2, <2>3, Marks
  <2>4. CASE device[i] # NoDevice /\ loaded
    BY <1>1, <2>1, <2>2, <2>4, Marks
  <2>5. CASE device[i] # NoDevice /\ ~loaded
    BY <1>1, <2>1, <2>2, <2>5, Marks
  <2> QED BY <2>3, <2>4, <2>5
<1> QED BY <1>2, <1>3 DEF PlaceInv, Meetings, DevicesKeepPlace, Joined

LEMMA OtherPlaceSteps ==
    ASSUME PlaceInv,
           \/ \E found \in SUBSET Items : SetupDevices(found) \/ DataChanges(found)
           \/ \E i \in Items : LeaveRetired(i) \/ \E place \in Places : PlaceDevice(i, place)
           \/ UnloadDevices
    PROVE  PlaceInv'
<1>1. ASSUME NEW found \in SUBSET Items, SetupDevices(found) PROVE PlaceInv'
  BY <1>1 DEF SetupDevices, WithoutRetired, PlaceInv, DevicesTypeOK, Meetings,
               DevicesKeepPlace, Joined, history
<1>2. ASSUME NEW found \in SUBSET Items, DataChanges(found) PROVE PlaceInv'
  BY <1>2 DEF DataChanges, PlaceInv, DevicesTypeOK, Meetings, DevicesKeepPlace, Joined, history
<1>3. ASSUME NEW i \in Items, LeaveRetired(i) PROVE PlaceInv'
  BY <1>3 DEF LeaveRetired, PlaceInv, DevicesTypeOK, Meetings, DevicesKeepPlace, Joined, history
<1>4. ASSUME NEW i \in Items, NEW place \in Places, PlaceDevice(i, place) PROVE PlaceInv'
  BY <1>4, Marks DEF PlaceDevice, PlaceInv, DevicesTypeOK, Meetings, DevicesKeepPlace, Joined,
                      history
<1>5. CASE UnloadDevices
  BY <1>5 DEF UnloadDevices, PlaceInv, DevicesTypeOK, Meetings, DevicesKeepPlace, Joined, history
<1> QED BY <1>1, <1>2, <1>3, <1>4, <1>5

\* Whatever the user moves and whenever the entry is loaded, a device is where it was put,
\* or with the server if nobody put it anywhere or the server came to where it was put
\* (_follow_server_area).
THEOREM DevicesAlwaysKeepPlace == DevicesSpec => []DevicesKeepPlace
<1>1. DevicesInit => PlaceInv
  BY Marks DEF DevicesInit, PlaceInv, DevicesTypeOK, Meetings, DevicesKeepPlace, Joined, Places
<1>2. PlaceInv /\ [DevicesNext]_deviceVars => PlaceInv'
  <2> SUFFICES ASSUME PlaceInv, [DevicesNext]_deviceVars PROVE PlaceInv'
    OBVIOUS
  <2>1. CASE UNCHANGED deviceVars
    BY <2>1 DEF deviceVars, PlaceInv, DevicesTypeOK, Meetings, DevicesKeepPlace, Joined, history
  <2> QED BY <2>1, SyncPlaces, MoveStep, OtherPlaceSteps DEF DevicesNext
<1>3. PlaceInv => DevicesKeepPlace
  BY DEF PlaceInv
<1> QED BY <1>1, <1>2, <1>3, PTL DEF DevicesSpec

-------------------------------------------------------------------------------
(***************************************************************************)
(* What the entities show: a field that is not up to date has a resource   *)
(* to blame that its entity depends on.                                    *)
(***************************************************************************)

Engine == "docker_engine_containers"
Groups == "docker_groups"

\* The resources of which one is to blame when a field is not up to date.
Blamed(f) ==
    CASE f \in {"engine", "members", "counters"} -> {Engine}
      [] f = "update_flag" -> {Groups, "compose_stacks"}
      [] f = "container_stats" -> {"docker_containers"}
      [] f = "stack_stats" -> {"compose_stacks"}
      [] OTHER -> {f}

\* One of them is failing or stale; the counters may also be those of the first group
\* list, where the engine never answered.
Accounted(f, had, troubled) ==
    Blamed(f) \cap troubled # {} \/ (f = "counters" /\ Engine \notin had)

SourcesInv ==
    /\ data \in [Fields -> {"absent", "new", "old"}]
    /\ answered \subseteq UNION {AskedFor(category) : category \in options}
    /\ Engine \notin answered => data["engine"] = "absent" /\ data["members"] = "absent"
    /\ Groups \notin answered => data["update_flag"] = "absent"
    /\ polled = "succeeded" =>
          \A f \in Fields : data[f] = "old" => Accounted(f, answered, degraded \cup stale)

\* What a list says of an item is new unless the list was retained.
LEMMA ListedFacts ==
    ASSUME data \in [Fields -> {"absent", "new", "old"}], NEW key \in Fields,
           NEW answer, NEW retained
    PROVE  /\ Listed(key, answer, retained) \in {"absent", "new", "old"}
           /\ Listed(key, answer, retained) = "old" => key \in retained
  BY DEF Listed, Kept

\* Each derived field of a poll: where an old value comes from, and that there is none
\* when nothing ever supplied it.
LEMMA DerivedFacts ==
    ASSUME data \in [Fields -> {"absent", "new", "old"}], NEW stack, NEW group, NEW engine
    PROVE  /\ EngineState(engine) \in {"absent", "new", "old"}
           /\ EngineState(engine) = "old" => engine \notin Speaks
           /\ (engine \notin Speaks /\ data["engine"] = "absent")
                 => EngineState(engine) = "absent"
           /\ MembersState(engine) \in {"absent", "new", "old"}
           /\ MembersState(engine) = "old" => engine \notin Speaks
           /\ (engine \notin Speaks /\ data["members"] = "absent")
                 => MembersState(engine) = "absent"
           /\ GroupField("update_flag", stack, group) \in {"absent", "new", "old"}
           /\ GroupField("update_flag", stack, group) = "old"
                 => group \notin Speaks \/ stack # "new"
           /\ (group \notin Speaks /\ data["update_flag"] = "absent")
                 => GroupField("update_flag", stack, group) = "absent"
           /\ EngineCounters(stack, group, engine) \in {"absent", "new", "old"}
           /\ EngineCounters(stack, group, engine) = "old" => engine \notin Speaks
  <1>1. /\ "engine" \in Fields /\ "members" \in Fields /\ "update_flag" \in Fields
        /\ "counters" \in Fields
    BY DEF Fields, DerivedFields
  <1>2. /\ EngineState(engine) \in {"absent", "new", "old"}
        /\ EngineState(engine) = "old" => engine \notin Speaks
        /\ (engine \notin Speaks /\ data["engine"] = "absent")
              => EngineState(engine) = "absent"
    BY <1>1 DEF EngineState, Kept, Speaks
  <1>3. /\ MembersState(engine) \in {"absent", "new", "old"}
        /\ MembersState(engine) = "old" => engine \notin Speaks
        /\ (engine \notin Speaks /\ data["members"] = "absent")
              => MembersState(engine) = "absent"
    BY <1>1 DEF MembersState, Kept, Speaks
  <1>4. /\ GroupField("update_flag", stack, group) \in {"absent", "new", "old"}
        /\ GroupField("update_flag", stack, group) = "old"
              => group \notin Speaks \/ stack # "new"
        /\ (group \notin Speaks /\ data["update_flag"] = "absent")
              => GroupField("update_flag", stack, group) = "absent"
    BY <1>1 DEF GroupField, Kept, Speaks
  <1>5. /\ EngineCounters(stack, group, engine) \in {"absent", "new", "old"}
        /\ EngineCounters(stack, group, engine) = "old" => engine \notin Speaks
    BY <1>1 DEF EngineCounters, GroupField, Kept, Speaks
  <1> QED BY <1>2, <1>3, <1>4, <1>5

\* Figures are as old as the item they come with, or of this poll.
LEMMA FiguresFacts ==
    ASSUME NEW item \in {"absent", "new", "old"}, NEW mayMeasure, NEW measured
    PROVE  /\ Figures(item, mayMeasure, measured) \in {"absent", "new", "old"}
           /\ Figures(item, mayMeasure, measured) = "old" => item = "old"
  BY DEF Figures

\* The answer that a key got, as _build_update_tasks asked for it.
AnswerOf(answer, key) == IF key \in DOMAIN answer THEN answer[key] ELSE "fails"

\* The data of a poll, field by field.
LEMMA PollDataFacts ==
    ASSUME data \in [Fields -> {"absent", "new", "old"}], NEW answer, NEW retained,
           NEW staleNow, NEW measured
    PROVE  LET new == PollData(answer, retained, staleNow, measured)
               engine == AnswerOf(answer, Engine)
               group == AnswerOf(answer, Groups)
           IN  /\ new \in [Fields -> {"absent", "new", "old"}]
               /\ \A f \in {"engine", "members", "counters"} :
                     new[f] = "old" => engine \notin Speaks
               /\ new["update_flag"] = "old"
                     => group \notin Speaks \/ "compose_stacks" \in retained
               /\ new["container_stats"] = "old" => "docker_containers" \in retained
               /\ new["stack_stats"] = "old" => "compose_stacks" \in retained
               /\ \A f \in Fields \ DerivedFields : new[f] = "old" => f \in retained
               /\ (engine \notin Speaks /\ data["engine"] = "absent")
                     => new["engine"] = "absent"
               /\ (engine \notin Speaks /\ data["members"] = "absent")
                     => new["members"] = "absent"
               /\ (group \notin Speaks /\ data["update_flag"] = "absent")
                     => new["update_flag"] = "absent"
  <1> DEFINE new == PollData(answer, retained, staleNow, measured)
             engine == AnswerOf(answer, Engine)
             group == AnswerOf(answer, Groups)
             container == Listed("docker_containers", answer, retained)
             stack == Listed("compose_stacks", answer, retained)
             may == /\ EngineState(engine) # "absent"
                    /\ "docker_engine_containers" \notin staleNow
             Of(item, value) == IF item = "absent" THEN "absent" ELSE value
  <1>1. /\ "docker_containers" \in Fields /\ "compose_stacks" \in Fields
        /\ DerivedFields \subseteq Fields
    BY DEF Fields, DerivedFields
  <1>2. /\ container \in {"absent", "new", "old"} /\ stack \in {"absent", "new", "old"}
        /\ container = "old" => "docker_containers" \in retained
        /\ stack = "old" => "compose_stacks" \in retained
    BY <1>1, ListedFacts
  <1>3. /\ new = [f \in Fields |->
                    IF f \notin DerivedFields THEN Listed(f, answer, retained)
                    ELSE new[f]]
        /\ new["engine"] = Of(container, EngineState(engine))
        /\ new["container_stats"] = Of(container, Figures(container, may, measured))
        /\ new["update_flag"] = Of(stack, GroupField("update_flag", stack, group))
        /\ new["counters"] = Of(stack, EngineCounters(stack, group, engine))
        /\ new["members"] = Of(stack, MembersState(engine))
        /\ new["stack_stats"] = Of(stack, Figures(stack, engine = "item", measured))
    BY <1>1 DEF PollData, AnswerOf, Engine, Groups, DerivedFields
  <1> HIDE DEF new, engine, group, container, stack, may
  <1>4. /\ new["engine"] \in {"absent", "new", "old"}
        /\ new["members"] \in {"absent", "new", "old"}
        /\ new["counters"] \in {"absent", "new", "old"}
        /\ \A f \in {"engine", "members", "counters"} :
              new[f] = "old" => engine \notin Speaks
        /\ (engine \notin Speaks /\ data["engine"] = "absent") => new["engine"] = "absent"
        /\ (engine \notin Speaks /\ data["members"] = "absent") => new["members"] = "absent"
    BY <1>3, DerivedFacts
  <1>5. /\ new["update_flag"] \in {"absent", "new", "old"}
        /\ new["update_flag"] = "old"
              => group \notin Speaks \/ "compose_stacks" \in retained
        /\ (group \notin Speaks /\ data["update_flag"] = "absent")
              => new["update_flag"] = "absent"
    BY <1>2, <1>3, DerivedFacts
  <1>6. /\ new["container_stats"] \in {"absent", "new", "old"}
        /\ new["stack_stats"] \in {"absent", "new", "old"}
        /\ new["container_stats"] = "old" => "docker_containers" \in retained
        /\ new["stack_stats"] = "old" => "compose_stacks" \in retained
    BY <1>2, <1>3, FiguresFacts
  <1>7. /\ \A f \in Fields \ DerivedFields :
              new[f] \in {"absent", "new", "old"} /\ (new[f] = "old" => f \in retained)
    BY <1>3, ListedFacts
  <1>8. new \in [Fields -> {"absent", "new", "old"}]
    <2>1. \A f \in DerivedFields : new[f] \in {"absent", "new", "old"}
      BY <1>4, <1>5, <1>6 DEF DerivedFields
    <2> QED BY <1>3, <1>7, <2>1
  <1> QED BY <1>4, <1>5, <1>6, <1>7, <1>8 DEF new, engine, group

\* Nothing is known before the first poll.
LEMMA SourcesStart == SourcesInit => SourcesInv
  <1> SUFFICES ASSUME SourcesInit PROVE SourcesInv
    OBVIOUS
  <1>1. /\ "engine" \in Fields /\ "members" \in Fields /\ "update_flag" \in Fields
    BY DEF Fields, DerivedFields
  <1> QED BY <1>1 DEF SourcesInit, SourcesInv

\* A poll that was answered leaves no old value that nothing accounts for.
LEMMA PollSucceedsStep == ASSUME SourcesInv, PollSucceeds PROVE SourcesInv'
  <1>1. PICK answer \in [Asked -> Answers], measured \in {FALSE, ~performs} :
          LET replied == {key \in Asked : answer[key] \in Speaks}
              withheld == {key \in Asked : answer[key] = "refused"}
              barredNow == barred \cup UNION {Siblings[key] : key \in withheld}
              answeredNow == answered \cup replied
              unsupported == {key \in Asked : answer[key] = "not_found"} \ answeredNow
              failing == Asked \ (replied \cup barredNow \cup unsupported)
          IN  \E late \in SUBSET (failing \cap degraded) :
                /\ answered' = answeredNow
                /\ barred' = barredNow
                /\ degraded' = failing
                /\ stale' = barredNow \cup (stale \cap failing) \cup late
                /\ data' = PollData(answer, failing \cup barredNow, stale', measured)
                /\ polled' = "succeeded"
                /\ UNCHANGED <<options, performs>>
    BY DEF PollSucceeds
  <1> DEFINE replied == {key \in Asked : answer[key] \in Speaks}
             withheld == {key \in Asked : answer[key] = "refused"}
             barredNow == barred \cup UNION {Siblings[key] : key \in withheld}
             answeredNow == answered \cup replied
             unsupported == {key \in Asked : answer[key] = "not_found"} \ answeredNow
             failing == Asked \ (replied \cup barredNow \cup unsupported)
             troubled == degraded' \cup stale'
             wanted == UNION {AskedFor(category) : category \in options}
  <1>2. /\ answered' = answeredNow /\ degraded' = failing /\ barredNow \subseteq stale'
        /\ data' = PollData(answer, failing \cup barredNow, stale', measured)
        /\ polled' = "succeeded" /\ options' = options
    BY <1>1
  <1>3. failing \cup barredNow \subseteq troubled
    BY <1>2
  <1>4. Asked = wanted \ barred /\ DOMAIN answer = Asked
    <2>1. Asked = wanted \ barred
      BY DEF Asked
    <2>2. DOMAIN answer = Asked
      OBVIOUS
    <2> QED BY <2>1, <2>2
  <1>5. answered \subseteq wanted
    BY DEF SourcesInv
  <1>6. answered' \subseteq UNION {AskedFor(category) : category \in options'}
    BY <1>2, <1>4, <1>5
  <1>7. ASSUME NEW key \in {Engine, Groups}, AnswerOf(answer, key) \notin Speaks
        PROVE  /\ key \in answered' => key \in troubled
               /\ key \notin answered' => key \notin answered
    <2>1. key \notin answered' => key \notin answered
      BY <1>2
    <2>2. ASSUME key \in answered' PROVE key \in failing \cup barredNow
      <3>1. key \notin replied
        BY <1>4, <1>7 DEF AnswerOf
      <3>2. key \in answered /\ key \in wanted
        BY <1>2, <1>5, <2>2, <3>1
      <3>3. CASE key \in Asked
        BY <3>1, <3>2, <3>3
      <3>4. CASE key \notin Asked
        BY <1>4, <3>2, <3>4
      <3> QED BY <3>3, <3>4
    <2> QED BY <1>3, <2>1, <2>2
  <1>8. data \in [Fields -> {"absent", "new", "old"}]
    BY DEF SourcesInv
  <1>9. /\ Engine \notin answered => data["engine"] = "absent" /\ data["members"] = "absent"
        /\ Groups \notin answered => data["update_flag"] = "absent"
    BY DEF SourcesInv
  <1>10. ASSUME NEW key \in {Engine, Groups}, key \notin answered'
         PROVE  AnswerOf(answer, key) \notin Speaks /\ key \notin answered
    BY <1>2, <1>4, <1>10 DEF AnswerOf, Speaks
  <1> DEFINE retained == failing \cup barredNow
             new == PollData(answer, retained, stale', measured)
             engine == AnswerOf(answer, Engine)
             group == AnswerOf(answer, Groups)
  <1>12. data' = new
    BY <1>2
  <1>13. retained \subseteq troubled
    BY <1>3
  <1> HIDE DEF retained
  <1>11. /\ new \in [Fields -> {"absent", "new", "old"}]
         /\ \A f \in {"engine", "members", "counters"} :
               new[f] = "old" => engine \notin Speaks
         /\ new["update_flag"] = "old"
               => group \notin Speaks \/ "compose_stacks" \in retained
         /\ new["container_stats"] = "old" => "docker_containers" \in retained
         /\ new["stack_stats"] = "old" => "compose_stacks" \in retained
         /\ \A f \in Fields \ DerivedFields : new[f] = "old" => f \in retained
         /\ (engine \notin Speaks /\ data["engine"] = "absent") => new["engine"] = "absent"
         /\ (engine \notin Speaks /\ data["members"] = "absent")
               => new["members"] = "absent"
         /\ (group \notin Speaks /\ data["update_flag"] = "absent")
               => new["update_flag"] = "absent"
    BY <1>8, PollDataFacts
  <1> HIDE DEF new, engine, group, failing, barredNow, answeredNow, troubled
  <1>14. Engine \notin answered' => data'["engine"] = "absent" /\ data'["members"] = "absent"
    BY <1>9, <1>10, <1>11, <1>12 DEF engine
  <1>15. Groups \notin answered' => data'["update_flag"] = "absent"
    BY <1>9, <1>10, <1>11, <1>12 DEF group
  <1>16. ASSUME NEW f \in Fields, data'[f] = "old"
         PROVE  Accounted(f, answered', troubled)
    <2>1. CASE f \in {"engine", "members"}
      <3>1. engine \notin Speaks /\ Engine \in answered'
        BY <1>11, <1>12, <1>14, <1>16, <2>1
      <3>2. Engine \in troubled
        BY <1>7, <3>1 DEF engine
      <3> QED BY <2>1, <3>2 DEF Accounted, Blamed
    <2>2. CASE f = "counters"
      <3>1. engine \notin Speaks
        BY <1>11, <1>12, <1>16, <2>2
      <3>2. Engine \in troubled \/ Engine \notin answered'
        BY <1>7, <3>1 DEF engine
      <3> QED BY <2>2, <3>2 DEF Accounted, Blamed
    <2>3. CASE f = "update_flag"
      <3>1. Groups \in answered' /\ (group \notin Speaks \/ "compose_stacks" \in retained)
        BY <1>11, <1>12, <1>15, <1>16, <2>3
      <3>2. Groups \in troubled \/ "compose_stacks" \in troubled
        BY <1>7, <1>13, <3>1 DEF group
      <3> QED BY <2>3, <3>2 DEF Accounted, Blamed
    <2>4. CASE f \in {"container_stats", "stack_stats"}
      BY <1>11, <1>12, <1>13, <1>16, <2>4 DEF Accounted, Blamed
    <2>5. CASE f \notin DerivedFields
      <3>1. Blamed(f) = {f}
        BY <2>5 DEF Blamed, DerivedFields
      <3> QED BY <1>11, <1>12, <1>13, <1>16, <2>5, <3>1 DEF Accounted
    <2> QED BY <2>1, <2>2, <2>3, <2>4, <2>5 DEF DerivedFields
  <1> QED BY <1>6, <1>11, <1>12, <1>14, <1>15, <1>16 DEF SourcesInv, troubled

\* The invariant of what the entities show is inductive.
LEMMA SourcesStep == SourcesInv /\ [SourcesNext]_sourceVars => SourcesInv'
  <1> SUFFICES ASSUME SourcesInv, [SourcesNext]_sourceVars PROVE SourcesInv'
    OBVIOUS
  <1>1. CASE PollSucceeds
    BY <1>1, PollSucceedsStep
  <1>2. CASE PollFailsWhole
    BY <1>2 DEF PollFailsWhole, SourcesInv
  <1>3. CASE UNCHANGED sourceVars
    BY <1>3 DEF sourceVars, SourcesInv
  <1> QED BY <1>1, <1>2, <1>3 DEF SourcesNext

\* An entity declares every resource that may be to blame for what it shows.
Declares(e) ==
    \A f \in e.reads \ Undeclared(e) : f \in Fields /\ Blamed(f) \subseteq ResourceKeys(e)

\* One that shows fields of its list only has nothing else to declare.
LEMMA PlainDeclares ==
    ASSUME NEW list \in PlainKeys \cup {"docker_containers", "compose_stacks"}, NEW keys,
           NEW e \in OfList(list, keys)
    PROVE  Declares(e)
  <1>1. e.list = list /\ e.reads = {list}
    BY DEF OfList, Entity
  <1>2. Blamed(list) = {list} /\ list \in Fields
    BY DEF Blamed, PlainKeys, Fields
  <1> QED BY <1>1, <1>2 DEF Declares, ResourceKeys

\* The containers' entities.
LEMMA ContainersDeclare ==
    ASSUME NEW e \in ContainerSensors \cup ContainerFlags \cup ContainerSwitch
    PROVE  Declares(e)
  <1>1. CASE \E keys : e \in OfList("docker_containers", keys)
    BY <1>1, PlainDeclares
  <1>2. CASE \E key : e = Entity(key, "docker_containers", {"container_stats"}, {})
    BY <1>2 DEF Declares, Entity, ResourceKeys, Blamed, Fields, DerivedFields
  <1>3. CASE \E key : e = Entity(key, "docker_containers", {"engine"},
                                  {"docker_engine_containers"})
    BY <1>3 DEF Declares, Entity, ResourceKeys, Blamed, Fields, DerivedFields, Engine
  <1>4. CASE e = Entity("state", "docker_containers", {"docker_containers", "engine"},
                        {"docker_engine_containers"})
    BY <1>4 DEF Declares, Entity, ResourceKeys, Blamed, Fields, DerivedFields, Engine
  <1> QED BY <1>1, <1>2, <1>3, <1>4 DEF ContainerSensors, ContainerFlags, ContainerSwitch

\* The stacks' entities, but for what is not declared.
LEMMA StacksDeclare ==
    ASSUME NEW e \in StackSensors \cup StackFlags
    PROVE  Declares(e)
  <1>1. CASE \E keys : e \in OfList("compose_stacks", keys)
    BY <1>1, PlainDeclares
  <1>2. CASE \E key : e = Entity(key, "compose_stacks", {"stack_stats"}, {})
    BY <1>2 DEF Declares, Entity, ResourceKeys, Blamed, Fields, DerivedFields
  <1>3. CASE e = Entity("state", "compose_stacks", {"compose_stacks", "members"}, {})
    <2>1. "members" \in Undeclared(e)
      BY <1>3 DEF Undeclared, StackSensors, Entity
    <2>2. e.reads = {"compose_stacks", "members"} /\ e.list = "compose_stacks"
      BY <1>3 DEF Entity
    <2> QED BY <2>1, <2>2 DEF Declares, ResourceKeys, Blamed, Fields
  <1>4. CASE e = Entity("running_containers", "compose_stacks", {"counters"},
                        {"docker_engine_containers"})
    BY <1>4 DEF Declares, Entity, ResourceKeys, Blamed, Fields, DerivedFields, Engine
  <1>5. CASE e = Entity("container_count", "compose_stacks", {"counters"}, {})
    <2>1. "counters" \in Undeclared(e)
      BY <1>5 DEF Undeclared, StackSensors, Entity
    <2>2. e.reads = {"counters"}
      BY <1>5 DEF Entity
    <2> QED BY <2>1, <2>2 DEF Declares
  <1>6. CASE e = Entity("healthy", "compose_stacks", {"members"}, {"docker_engine_containers"})
    BY <1>6 DEF Declares, Entity, ResourceKeys, Blamed, Fields, DerivedFields, Engine
  <1>7. CASE e = Entity("update_available", "compose_stacks", {"update_flag"},
                        {"docker_groups"})
    BY <1>7 DEF Declares, Entity, ResourceKeys, Blamed, Fields, DerivedFields, Groups
  <1> QED BY <1>1, <1>2, <1>3, <1>4, <1>5, <1>6, <1>7 DEF StackSensors, StackFlags

\* The server's totals.
LEMMA TotalsDeclare == ASSUME NEW e \in Totals PROVE Declares(e)
  <1>1. CASE \E list \in PlainKeys \cup {"docker_containers", "compose_stacks"} : \E keys :
                e \in OfList(list, keys)
    BY <1>1, PlainDeclares
  <1>2. CASE e = Entity("docker_containers_running", "docker_containers", {"engine"},
                        {"docker_engine_containers"})
    BY <1>2 DEF Declares, Entity, ResourceKeys, Blamed, Fields, DerivedFields, Engine
  <1>3. CASE e = Entity("compose_updates_available", "compose_stacks", {"update_flag"},
                        {"docker_groups"})
    BY <1>3 DEF Declares, Entity, ResourceKeys, Blamed, Fields, DerivedFields, Groups
  <1> QED BY <1>1, <1>2, <1>3 DEF Totals, PlainKeys

\* All of them.
LEMMA EntitiesDeclare == ASSUME NEW e \in Entities PROVE Declares(e)
  <1>1. CASE e \in Totals
    BY <1>1, TotalsDeclare
  <1>2. CASE e \in ContainerSensors \cup ContainerFlags \cup ContainerSwitch
    BY <1>2, ContainersDeclare
  <1>3. CASE e \in StackSensors \cup StackFlags
    BY <1>3, StacksDeclare
  <1>4. CASE \E list \in PlainKeys \cup {"docker_containers", "compose_stacks"} : \E keys :
                e \in OfList(list, keys)
    BY <1>4, PlainDeclares
  <1>5. CASE e \in DiskSensors \cup DiskFlags \cup PoolSensors \cup PoolFlags
    BY <1>4, <1>5 DEF DiskSensors, DiskFlags, PoolSensors, PoolFlags, PlainKeys
  <1>6. CASE e \in LxcSensors \cup VmSensors \cup GuestFlags \cup Services
    BY <1>4, <1>6 DEF LxcSensors, VmSensors, GuestFlags, Services, PlainKeys
  <1>7. CASE e \in OtherSwitches \cup OfList("sensors", {"reading"}) \cup OfList("nut", {"status"})
    BY <1>4, <1>7 DEF OtherSwitches, PlainKeys
  <1> QED
    BY <1>1, <1>2, <1>3, <1>5, <1>6, <1>7
    DEF Entities, Sensors, BinarySensors, Switches, UpsEntities, InOptions

\* No entity that is available serves values that stopped updating, whatever the options
\* and in whatever order resources answer, fail, vanish and are barred, but for the
\* fields named under Undeclared (MOSEntity.available, extra_resource_keys).
THEOREM ShownAlwaysCurrent == SourcesSpec => []ShownIsCurrent
  <1>1. SourcesInv => ShownIsCurrent
    <2> SUFFICES ASSUME SourcesInv, polled = "succeeded", NEW e \in Entities, AvailableNow(e),
                        NEW f \in e.reads \ Undeclared(e), data[f] = "old"
                 PROVE  ResourceKeys(e) \cap degraded # {}
      BY DEF ShownIsCurrent
    <2>1. f \in Fields /\ Blamed(f) \subseteq ResourceKeys(e)
      BY EntitiesDeclare DEF Declares
    <2>2. Accounted(f, answered, degraded \cup stale)
      BY <2>1 DEF SourcesInv
    <2>3. ~(f = "counters" /\ Engine \notin answered)
      BY DEF Undeclared, Engine
    <2>4. Blamed(f) \cap (degraded \cup stale) # {}
      BY <2>2, <2>3 DEF Accounted
    <2>5. ResourceKeys(e) \cap stale = {}
      BY DEF AvailableNow
    <2> QED BY <2>1, <2>4, <2>5
  <1> QED BY <1>1, SourcesStart, SourcesStep, PTL DEF SourcesSpec
===============================================================================
