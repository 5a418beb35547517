----------------------------- MODULE EntitySources -----------------------------
(***************************************************************************)
(* What the entities show of a poll (sensor/, binary_sensor/, switch/ and  *)
(* MOSEntity.available). An entity reads fields of one item. A field may   *)
(* come from another resource than the list the item is in, and be carried *)
(* forward when that resource fails; the entity has to declare every       *)
(* resource that it reads, for only those make it unavailable when stale.  *)
(*                                                                         *)
(* A value is what matters about it: whether it was worked out from this   *)
(* poll's answers. One item stands for a list. How many failures and how   *)
(* much time make a resource stale is MOSCoordinator's; here one that      *)
(* fails again may become so.                                              *)
(***************************************************************************)
EXTENDS FiniteSets

CONSTANT Choices     \* the sets of categories that the options may switch on

VARIABLES
    options,     \* the categories that are on
    performs,    \* the server reports figures with its lists ("performance")
    answered,    \* _answered_resources
    barred,      \* forbidden_resources
    degraded,    \* the resources in _degraded_resources
    stale,       \* stale_resources
    data,        \* coordinator.data, per field
    polled       \* how the last poll ended, or that there was none

sourceVars == <<options, performs, answered, barred, degraded, stale, data, polled>>

DockerKeys ==
    {"docker_containers", "docker_engine_containers", "compose_stacks", "docker_groups"}

\* Resources whose items have no fields from elsewhere.
PlainKeys == {"services", "disks", "pools", "lxc_containers", "vm_machines", "sensors", "nut"}

\* PERMISSION_RESOURCE_BY_KEY: the keys that one refusal settles.
Siblings ==
    [key \in DockerKeys \cup PlainKeys |->
        CASE key \in DockerKeys -> DockerKeys
          [] key \in {"services", "sensors"} -> {"services", "sensors"}
          [] OTHER -> {key}]

\* _build_update_tasks, by category; the plain ones are called as their key is.
AskedFor(category) ==
    CASE category = "docker" -> {"docker_containers", "docker_engine_containers"}
      [] category = "compose" -> {"docker_engine_containers", "compose_stacks", "docker_groups"}
      [] OTHER -> {category}

Asked == (UNION {AskedFor(category) : category \in options}) \ barred

-------------------------------------------------------------------------------
\* Fields by where they come from: what a list says of the item has the list's key.
\* "engine" is DOCKER_ENGINE_MERGED_FIELDS, "members" a stack's unhealthy and images.
DerivedFields ==
    {"engine", "container_stats", "update_flag", "counters", "members", "stack_stats"}

Fields == PlainKeys \cup {"docker_containers", "compose_stacks"} \cup DerivedFields

\* An entity: its list, the fields its value, attributes and picture read, and the
\* resources it declares besides the list (extra_resource_keys).
Entity(key, list, reads, extra) == [key |-> key, list |-> list, reads |-> reads, extra |-> extra]

OfList(list, keys) == {Entity(key, list, {list}, {}) : key \in keys}

ContainerSensors ==
    {Entity("state", "docker_containers", {"docker_containers", "engine"},
            {"docker_engine_containers"})}
    \cup OfList("docker_containers", {"installed_version", "latest_version"})
    \cup {Entity(key, "docker_containers", {"container_stats"}, {}) :
              key \in {"cpu_usage", "memory_usage"}}

\* Mutant: the problem flag declares the container list only.
ContainerFlagsUndeclared ==
    {Entity("healthy", "docker_containers", {"engine"}, {})}
    \cup OfList("docker_containers", {"update_available", "autostart"})

ContainerFlags ==
    {Entity("healthy", "docker_containers", {"engine"}, {"docker_engine_containers"})}
    \cup OfList("docker_containers", {"update_available", "autostart"})

StackSensors ==
    {Entity("state", "compose_stacks", {"compose_stacks", "members"}, {}),
     Entity("running_containers", "compose_stacks", {"counters"}, {"docker_engine_containers"}),
     Entity("container_count", "compose_stacks", {"counters"}, {})}
    \cup {Entity(key, "compose_stacks", {"stack_stats"}, {}) :
              key \in {"cpu_usage", "memory_usage"}}

StackFlags ==
    {Entity("healthy", "compose_stacks", {"members"}, {"docker_engine_containers"}),
     Entity("update_available", "compose_stacks", {"update_flag"}, {"docker_groups"})}
    \cup OfList("compose_stacks", {"autostart"})

Totals ==
    {Entity("docker_containers_running", "docker_containers", {"engine"},
            {"docker_engine_containers"}),
     Entity("compose_updates_available", "compose_stacks", {"update_flag"}, {"docker_groups"})}
    \cup OfList("docker_containers", {"docker_containers_total", "docker_updates_available"})
    \cup OfList("compose_stacks", {"compose_stacks_total", "compose_stacks_running"})
    \cup OfList("lxc_containers", {"lxc_containers_total", "lxc_containers_running"})
    \cup OfList("vm_machines", {"vm_machines_total", "vm_machines_running"})

DiskSensors ==
    OfList("disks", {"power_status", "temperature", "model", "type", "size", "usage",
                     "free_space", "total_space", "used_space"})

DiskFlags == OfList("disks", {"smart_warning", "preclear_running"})

PoolSensors == OfList("pools", {"usage", "free_space", "total_space", "used_space", "type"})

PoolFlags == OfList("pools", {"problem", "scrub_running", "balance_running", "parity_running"})

LxcSensors == OfList("lxc_containers", {"state", "cpu_usage", "memory_usage"})

VmSensors == OfList("vm_machines", {"state", "cpu_usage", "memory_usage"})

GuestFlags == OfList("lxc_containers", {"autostart"}) \cup OfList("vm_machines", {"autostart"})

Services ==
    OfList("services", {"docker_running", "vm_running", "ssh_enabled", "samba_enabled",
                        "nfs_enabled", "tailscale_online", "netbird_online"})

ContainerSwitch == {Entity("power", "docker_containers", {"engine"}, {"docker_engine_containers"})}

OtherSwitches ==
    UNION {OfList(list, {"power"}) : list \in {"compose_stacks", "lxc_containers", "vm_machines"}}

\* async_setup_entry of a platform: the entities of the categories that are on.
InOptions(entities) ==
    {e \in entities : \E category \in options : e.list \in AskedFor(category)}

Sensors ==
    InOptions(Totals \cup DiskSensors \cup PoolSensors \cup LxcSensors \cup ContainerSensors
              \cup StackSensors \cup VmSensors \cup OfList("sensors", {"reading"}))

BinarySensors ==
    InOptions(Services \cup DiskFlags \cup PoolFlags \cup GuestFlags
              \cup ContainerFlags \cup StackFlags)

Switches == InOptions(ContainerSwitch \cup OtherSwitches)

UpsEntities == InOptions(OfList("nut", {"status"}))

Entities == Sensors \cup BinarySensors \cup Switches \cup UpsEntities

\* resource_keys, and MOSEntity.available.
ResourceKeys(e) == {e.list} \cup e.extra
AvailableNow(e) == polled = "succeeded" /\ ResourceKeys(e) \cap stale = {}

-------------------------------------------------------------------------------
\* An answer either speaks of the item or leaves it out.
Speaks == {"item", "no_item"}
Answers == Speaks \cup {"fails", "not_found", "refused"}

\* A value is "absent", "new" or "old". What becomes of one that nothing supplied:
Kept(value) == IF value = "absent" THEN "absent" ELSE "old"

\* _retain_last_known_good, for the item of a list: over the answer that a key may
\* have got in the poll that barred it, unless that was the first.
Listed(key, answer, retained) ==
    IF key \in retained /\ polled # "never" THEN Kept(data[key])
    ELSE IF key \in DOMAIN answer /\ answer[key] = "item" THEN "new"
    ELSE "absent"

\* _merge_docker_engine_state, _carry_forward_docker_engine_state.
EngineState(engine) ==
    CASE engine = "item" -> "new"
      [] engine = "no_item" -> "absent"
      [] OTHER -> Kept(data["engine"])

\* merge_group_data, carry_forward_group_data, for a field of the group. A stack
\* that was retained comes with what it had.
GroupField(field, stack, group) ==
    CASE group = "item" -> "new"
      [] group = "no_item" /\ stack = "new" -> "absent"
      [] OTHER -> Kept(data[field])

\* merge_engine_state, carry_forward_engine_state: the counters are the group's
\* only as long as the stack has not had any.
EngineCounters(stack, group, engine) ==
    IF engine \in Speaks THEN "new"
    ELSE IF data["counters"] # "absent" THEN "old"
    ELSE GroupField("counters", stack, group)

MembersState(engine) == IF engine \in Speaks THEN "new" ELSE Kept(data["members"])

\* _async_add_docker_stats, _async_add_compose_stats: with the list, or measured now.
\* A sensor that is disabled or not yet there, and a request that failed, leave it
\* blank.
Figures(item, mayMeasure, measured) ==
    IF performs THEN item
    ELSE IF mayMeasure /\ measured /\ polled # "never" THEN "new"
    ELSE "absent"

\* The data of a poll: what was answered, what was retained, and the enrichment.
PollData(answer, retained, staleNow, measured) ==
    LET Of(key) == IF key \in DOMAIN answer THEN answer[key] ELSE "fails"
        engine == Of("docker_engine_containers")
        group == Of("docker_groups")
        container == Listed("docker_containers", answer, retained)
        stack == Listed("compose_stacks", answer, retained)
        derived ==
            [engine |-> EngineState(engine),
             container_stats |->
                 Figures(container,
                         /\ EngineState(engine) # "absent"
                         /\ "docker_engine_containers" \notin staleNow,
                         measured),
             update_flag |-> GroupField("update_flag", stack, group),
             counters |-> EngineCounters(stack, group, engine),
             members |-> MembersState(engine),
             stack_stats |-> Figures(stack, engine = "item", measured)]
        item == [f \in DerivedFields |->
                     IF f \in {"engine", "container_stats"} THEN container ELSE stack]
    IN  [f \in Fields |->
            IF f \notin DerivedFields THEN Listed(f, answer, retained)
            ELSE IF item[f] = "absent" THEN "absent" ELSE derived[f]]

\* A poll in which osinfo and system_load answered.
PollSucceeds ==
    \E answer \in [Asked -> Answers], measured \in {FALSE, ~performs} :
        LET replied == {key \in Asked : answer[key] \in Speaks}
            refused == {key \in Asked : answer[key] = "refused"}
            barredNow == barred \cup UNION {Siblings[key] : key \in refused}
            answeredNow == answered \cup replied
            unsupported == {key \in Asked : answer[key] = "not_found"} \ answeredNow
            failing == Asked \ (replied \cup barredNow \cup unsupported)
        IN  \E late \in SUBSET (failing \cap degraded) :
                /\ answered' = answeredNow
                /\ barred' = barredNow
                /\ degraded' = failing
                /\ stale' = barredNow \cup (stale \cap failing) \cup late
                /\ data' = PollData(answer, failing \cup barredNow, stale', measured)
                /\ polled' = "succeeded"
                /\ UNCHANGED <<options, performs>>

\* A poll that failed as a whole leaves everything as it was. If it was the first,
\* the coordinator goes with it, and the next one begins as this did.
PollFailsWhole ==
    /\ polled # "never"
    /\ polled' = "failed"
    /\ UNCHANGED <<options, performs, answered, barred, degraded, stale, data>>

\* Before the first poll: the scope that was told may bar categories.
SourcesInit ==
    /\ options \in Choices
    /\ performs \in BOOLEAN
    /\ barred \in {{}} \cup {Siblings[key] : key \in UNION {AskedFor(c) : c \in options}}
    /\ answered = {} /\ degraded = {} /\ stale = {}
    /\ data = [f \in Fields |-> "absent"]
    /\ polled = "never"

SourcesNext == PollSucceeds \/ PollFailsWhole

SourcesSpec == SourcesInit /\ [][SourcesNext]_sourceVars

-------------------------------------------------------------------------------
\* What the code lets entities show beyond that: a stack's container_count and the
\* images among the attributes of its state are the engine's, which they do not
\* declare, and its counters stay those of the first group list on a server that
\* never answers for the engine.
Undeclared(e) ==
    (IF e \in StackSensors /\ e.key = "container_count" THEN {"counters"} ELSE {})
    \cup (IF e \in StackSensors /\ e.key = "state" THEN {"members"} ELSE {})
    \cup (IF "docker_engine_containers" \notin answered THEN {"counters"} ELSE {})

\* An entity that is available shows a value of an earlier poll only while a
\* resource that it declares is failing and is not stale yet ("When one of them has
\* been failing long enough to go stale, the entity reports itself unavailable
\* instead of serving values that stopped updating", MOSEntity.resource_keys).
ShownIsCurrent ==
    polled = "succeeded" =>
        \A e \in Entities : AvailableNow(e) =>
            \A f \in e.reads \ Undeclared(e) :
                data[f] = "old" => ResourceKeys(e) \cap degraded # {}
===============================================================================
