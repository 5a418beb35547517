------------------------------ MODULE TokenScope ------------------------------
(***************************************************************************)
(* What an API token may do, as three parties see it: the server, which    *)
(* goes by the first segment of the path that a request has (api/client.py *)
(* builds the paths); the integration, which goes by the resource names of *)
(* its own tables and by the scope it was told at setup                    *)
(* (entity_utils/permissions.py, const.py); and the coordinator, which     *)
(* never again asks for what it takes to be denied (coordinator/base.py).  *)
(***************************************************************************)
EXTENDS Naturals, Sequences

CONSTANTS
    Apart,       \* the resources that a custom scope may treat unlike the others
    Unscoped     \* None: token_permissions of a server that does not say

VARIABLES
    valid,       \* the server knows the token
    rights,      \* what the token may do
    scope,       \* token_permissions["permissions"]
    forbidden,   \* forbidden_resources
    request,     \* a request outside the poll that was just answered
    refused,     \* history: what the server refused or listed as refused since setup
    current      \* history: scope is the server's word and rights are as they were

scopeVars == <<valid, rights, scope, forbidden, request, refused, current>>

\* API_BASE_PATH and API_ROOT_PATH, without what all paths begin with.
Mos(path) == <<"mos">> \o path
Root(path) == path

\* The paths of the poll, by the key of their data.
HostPath ==
    [osinfo |-> Mos(<<"osinfo">>), services |-> Mos(<<"services">>),
     disks |-> Root(<<"disks">>), pools |-> Root(<<"pools">>),
     system_load |-> Root(<<"system", "load">>), sensors |-> Mos(<<"sensors">>),
     nut |-> Root(<<"nut", "status">>)]

DockerPath ==
    [docker_containers |-> Root(<<"docker", "mos", "containers">>),
     compose_stacks |-> Root(<<"docker", "mos", "compose", "stacks">>),
     docker_groups |-> Root(<<"docker", "mos", "groups">>)]

EnginePath == [docker_engine_containers |-> Root(<<"docker", "containers", "json">>)]
LxcPath == [lxc_containers |-> Root(<<"lxc", "containers", "usage">>)]
VmPath == [vm_machines |-> Root(<<"vm", "machines", "usage">>)]

Keys ==
    DOMAIN HostPath \cup DOMAIN DockerPath \cup DOMAIN EnginePath \cup DOMAIN LxcPath
    \cup DOMAIN VmPath

PathOfKey(k) ==
    CASE k \in DOMAIN HostPath -> HostPath[k]
      [] k \in DOMAIN DockerPath -> DockerPath[k]
      [] k \in DOMAIN EnginePath -> EnginePath[k]
      [] k \in DOMAIN LxcPath -> LxcPath[k]
      [] k \in DOMAIN VmPath -> VmPath[k]

\* _quote_segment: whatever an item is called, its name is one segment.
Item == "item"

\* The paths of the enrichment.
LxcDetailPath == Root(<<"lxc", "containers">>)
VmDetailPath == Root(<<"vm", "machines">>)
TemplatePath == Root(<<"docker", "mos", "templates", Item>>)
StatsPath == Root(<<"docker", "containers", Item, "stats">>)
DetailPaths == {LxcDetailPath, VmDetailPath, TemplatePath, StatsPath}

\* The paths of the actions.
LxcActions == {Root(<<"lxc", "containers", Item, verb>>) : verb \in {"start", "stop"}}
StackActions ==
    {Root(<<"docker", "mos", "compose", "stacks", Item, verb>>) : verb \in {"start", "stop"}}
ContainerActions == {Root(<<"docker", "containers", Item, verb>>) : verb \in {"start", "stop"}}
VmActions == {Root(<<"vm", "machines", Item, verb>>) : verb \in {"start", "stop"}}
ActionPaths == LxcActions \cup StackActions \cup ContainerActions \cup VmActions

\* The resource that each action checks before it is sent (_check_write_access).
CheckedResource(path) ==
    CASE path[1] = "lxc" -> "lxc"
      [] path[1] = "docker" -> "docker"
      [] path[1] = "vm" -> "vm"

\* Mutant: the segment in the middle of the path is taken for its resource.
ResourceByName(k) ==
    CASE k \in {"osinfo", "services", "sensors", "docker_containers", "docker_groups"} -> "mos"
      [] k = "system_load" -> "system"
      [] k \in {"docker_engine_containers", "compose_stacks"} -> "docker"
      [] k = "lxc_containers" -> "lxc"
      [] k = "vm_machines" -> "vm"
      [] OTHER -> k

\* PERMISSION_RESOURCE_BY_KEY.
ResourceOf(k) ==
    CASE k \in {"osinfo", "services", "sensors"} -> "mos"
      [] k = "system_load" -> "system"
      [] k \in {"docker_containers", "docker_engine_containers", "compose_stacks",
                "docker_groups"} -> "docker"
      [] k = "lxc_containers" -> "lxc"
      [] k = "vm_machines" -> "vm"
      [] OTHER -> k

AlwaysFetched == {"osinfo", "system_load"}
OptionalKeys == Keys \ AlwaysFetched

-------------------------------------------------------------------------------
Segments == {PathOfKey(k)[1] : k \in Keys}
Levels == {"none", "read", "write"}

\* A custom scope has one level for all resources but one, at most.
Rights ==
    {[mode |-> m] : m \in {"full", "readonly"}}
      \cup {[mode |-> "custom", resources |-> [s \in Segments |-> IF s = apart THEN other ELSE base]] :
              apart \in Apart, base \in Levels, other \in Levels}

\* The server's decision: the level that a scope has for the segment of a path.
LevelOf(r, segment) ==
    CASE r.mode = "full" -> "write"
      [] r.mode = "readonly" -> "read"
      [] r.mode = "custom" -> r.resources[segment]

Granted(path, write) ==
    LevelOf(rights, path[1]) \in (IF write THEN {"write"} ELSE {"read", "write"})

\* What the server says of a scope; some name no resource of the UPS.
Told(r, hidden) ==
    IF r.mode # "custom" THEN r
    ELSE [r EXCEPT !.resources = [s \in Segments \ hidden |-> r.resources[s]]]

\* A server that does not say is told apart from any that does.
ASSUME ScopeAssumption == \A r \in Rights, hidden \in SUBSET {"nut"} : Told(r, hidden) # Unscoped

\* has_read_access.
HasReadAccess(known, resource) ==
    known # Unscoped /\ known.mode = "custom" /\ resource \in DOMAIN known.resources
        => known.resources[resource] # "none"

\* Mutant: a scope that is not denied is taken to be granted, as it is for reads.
HasWriteUnlessDenied(known, resource) ==
    \/ known = Unscoped
    \/ known.mode = "full"
    \/ /\ known.mode = "custom" /\ resource \in DOMAIN known.resources
       /\ known.resources[resource] # "none"

\* has_write_access.
HasWriteAccess(known, resource) ==
    \/ known = Unscoped
    \/ known.mode = "full"
    \/ /\ known.mode = "custom" /\ resource \in DOMAIN known.resources
       /\ known.resources[resource] = "write"

\* What can come between the server and the client.
Troubles == {"none", "silence", "failure", "garbage", "torn", "login_page", "no_header",
             "no_such_path", "too_many"}

\* The response: its status, 0 for none, and whether its body is JSON that names a
\* resource the token may not use, or JSON at all.
Answer(status, body) == [status |-> status, body |-> body]

Disturbed(trouble) ==
    CASE trouble = "silence" -> Answer(0, "nothing")
      [] trouble = "failure" -> Answer(500, "page")
      [] trouble = "garbage" -> Answer(200, "page")
      [] trouble = "torn" -> Answer(200, "torn")
      [] trouble = "login_page" -> Answer(403, "page")
      [] trouble = "no_header" -> Answer(401, "error")
      [] trouble = "no_such_path" -> Answer(404, "error")
      [] trouble = "too_many" -> Answer(429, "error")

Response(path, write, trouble) ==
    IF trouble # "none" THEN Disturbed(trouble)
    ELSE IF ~valid THEN Answer(403, "error")
    ELSE IF ~Granted(path, write) THEN Answer(403, "scope_denial")
    ELSE Answer(200, "data")

\* _server_error_message: a body that is not JSON has none.
ErrorMessage(body) == IF body = "page" THEN "" ELSE body

\* Mutant: a 403 that cannot be read denies a resource.
ForbiddenUnlessRejected(body) ==
    IF ErrorMessage(body) = "error" THEN "authentication" ELSE "permission"

\* _raise_for_forbidden: only a denial that names a resource is one.
RaisedForForbidden(body) ==
    IF ErrorMessage(body) = "scope_denial" THEN "permission" ELSE "authentication"

\* _verify_response_or_raise.
Verified(response) ==
    CASE response.status = 401 -> "authentication"
      [] response.status = 403 -> RaisedForForbidden(response.body)
      [] response.status = 404 -> "not_found"
      [] response.status = 429 -> "rate_limit"
      [] response.status = 500 -> "communication"
      [] OTHER -> "nothing"

\* _api_wrapper: a body of another mimetype is a client error, torn JSON is not.
Raised(response) ==
    IF response.status = 0 THEN "communication"
    ELSE IF Verified(response) # "nothing" THEN Verified(response)
    ELSE IF response.body = "page" THEN "communication"
    ELSE IF response.body = "torn" THEN "error"
    ELSE "nothing"

-------------------------------------------------------------------------------
\* A request, what the server held of it and what the client made of the response.
Request(write, granted, known, trouble, raised) ==
    [write |-> write, granted |-> granted, known |-> known, trouble |-> trouble, raised |-> raised]
NoRequest == Request(FALSE, TRUE, TRUE, "none", "nothing")

ScopeInit ==
    /\ valid = TRUE /\ rights \in Rights
    /\ scope = Unscoped /\ forbidden = {}
    /\ request = NoRequest /\ refused = {} /\ current = FALSE

\* READ_PERMISSION_RESOURCES and _seed_forbidden_resources.
Seeded(known) == {k \in OptionalKeys : ~HasReadAccess(known, ResourceOf(k))}

\* _async_setup, of a new coordinator: any error leaves the scope unknown.
SetupScope(trouble, hidden) ==
    LET told == valid /\ trouble = "none" IN
    /\ scope' = IF told THEN Told(rights, hidden) ELSE Unscoped
    /\ forbidden' = Seeded(scope')
    /\ refused' = IF told /\ rights.mode = "custom"
                  THEN {s \in Segments \ hidden : rights.resources[s] = "none"} ELSE {}
    /\ current' = told
    /\ UNCHANGED <<valid, rights, request>>

\* The exception classes: one is of the base class, of its own and of what that specialises.
IsA(raised, class) ==
    \/ class \in {"error", raised}
    \/ raised = "not_found" /\ class = "communication"

\* _triage_results: the first branch that an exception meets.
Branches == <<"authentication", "permission", "rate_limit", "not_found", "error">>

Triaged(raised) ==
    LET met == {n \in 1..5 : IsA(raised, Branches[n])}
    IN  IF raised = "nothing" THEN "payload"
        ELSE Branches[CHOOSE n \in met : \A m \in met : n <= m]

\* _absorb_scope_denials.
Absorbed(result) ==
    LET denied == {k \in DOMAIN result \cap OptionalKeys : result[k] = "permission"}
        resources == {ResourceOf(k) : k \in denied}
    IN  denied \cup {k \in OptionalKeys : ResourceOf(k) \in resources}

\* A poll, up to and including _classify_transient_resource_failures. In some of its
\* requests something comes between.
PollScope(disturbed, trouble) ==
    LET asked == AlwaysFetched \cup (OptionalKeys \ forbidden)
        Comes(k) == Response(PathOfKey(k), FALSE, IF k \in disturbed THEN trouble ELSE "none")
        result == [k \in asked |-> Triaged(Raised(Comes(k)))]
        fails == \/ \E k \in asked : result[k] = "authentication"
                 \/ \E k \in AlwaysFetched : result[k] # "payload"
    IN  /\ forbidden' = IF fails THEN forbidden ELSE forbidden \cup Absorbed(result)
        /\ refused' = IF fails \/ ~valid THEN refused
                      ELSE refused \cup {PathOfKey(k)[1] : k \in
                                {j \in asked \ disturbed : ~Granted(PathOfKey(j), FALSE)}}
        /\ UNCHANGED <<valid, rights, scope, request, current>>

\* A request of the enrichment.
AskDetail(path, trouble) ==
    /\ request' = Request(FALSE, Granted(path, FALSE), valid, trouble,
                          Raised(Response(path, FALSE, trouble)))
    /\ UNCHANGED <<valid, rights, scope, forbidden, refused, current>>

\* An action of a switch. One that the scope does not cover is not sent.
Act(path, trouble) ==
    /\ request' = Request(TRUE, Granted(path, TRUE), valid, trouble,
                          IF HasWriteAccess(scope, CheckedResource(path))
                          THEN Raised(Response(path, TRUE, trouble)) ELSE "here")
    /\ UNCHANGED <<valid, rights, scope, forbidden, refused, current>>

\* The token is given another scope; or it is deleted, or restored from a backup.
ChangeRights(r) ==
    /\ rights' = r /\ r # rights
    /\ current' = FALSE
    /\ UNCHANGED <<valid, scope, forbidden, request, refused>>

ChangeToken ==
    /\ valid' = ~valid
    /\ UNCHANGED <<rights, scope, forbidden, request, refused, current>>

\* What an action or the enrichment does with the response is over.
RequestOver ==
    /\ request # NoRequest
    /\ request' = NoRequest
    /\ UNCHANGED <<valid, rights, scope, forbidden, refused, current>>

ScopeNext ==
    \/ /\ request = NoRequest
       /\ \/ \E trouble \in Troubles, hidden \in SUBSET {"nut"} : SetupScope(trouble, hidden)
          \/ \E trouble \in Troubles \ {"none"},
                disturbed \in {{}, OptionalKeys} \cup {{k} : k \in Keys} :
                PollScope(disturbed, trouble)
          \/ \E path \in DetailPaths, trouble \in Troubles : AskDetail(path, trouble)
          \/ \E path \in ActionPaths, trouble \in Troubles : Act(path, trouble)
          \/ \E r \in Rights : ChangeRights(r)
          \/ ChangeToken
    \/ RequestOver

ScopeSpec == ScopeInit /\ [][ScopeNext]_scopeVars

-------------------------------------------------------------------------------
\* What is never asked for again is what the server itself refused, no more and no
\* less: the tables' resource of a key is the segment that governs its path, and
\* neither a rejected token nor a proxy's page withdraws entities until the next
\* reload (_absorb_scope_denials, _seed_forbidden_resources, _raise_for_forbidden).
ForbiddenIsRefused == forbidden = {k \in OptionalKeys : PathOfKey(k)[1] \in refused}

\* A rejected token and a narrow one are told apart: the server's own refusals come
\* out as what they are, a denial is never made up, and a server that is merely in
\* trouble never looks like either (_raise_for_forbidden, _verify_response_or_raise).
RejectionToldApart ==
    request.raised # "here" =>
        /\ request.raised = "permission" =>
              request.known /\ ~request.granted /\ request.trouble = "none"
        /\ request.trouble = "none" =>
              /\ ~request.known <=> request.raised = "authentication"
              /\ (request.known /\ ~request.granted) => request.raised = "permission"
        /\ request.trouble \in {"silence", "failure", "garbage", "torn", "no_such_path", "too_many"} =>
              request.raised \notin {"authentication", "permission", "nothing"}

\* An action is refused here exactly when the server would refuse it, for as long as
\* the token may do what it might at setup (_check_write_access, has_write_access).
RefusedInAdvance ==
    (current /\ request.write) => (request.raised = "here" <=> ~request.granted)
===============================================================================
