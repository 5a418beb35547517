SPECIFICATION Spec
CONSTANTS
    osinfo = osinfo
    docker_containers = docker_containers
    docker_engine_containers = docker_engine_containers
    nut = nut
    docker_scope = docker_scope
    nut_scope = nut_scope
    Optional <- MCOptional
    Required <- MCRequired
    Scopes <- MCScopes
    ScopeOf <- MCScopeOf
    Enabled <- MCOptional
    Merged <- MCMerged
    Outcomes <- NoLimits
    AuthGrace = 1
    AuthMin = 1
    StaleGrace = 1
    StaleMin = 1
INVARIANTS
    TypeOK
    ForbiddenWithdrawn
    ShownAvailability
PROPERTIES
    LastKnownGoodKept
