SPECIFICATION RSpec
CONSTANTS
    osinfo = osinfo
    docker_containers = docker_containers
    compose_stacks = compose_stacks
    docker_scope = docker_scope
    Optional <- Two
    Required <- MCRequired
    Scopes <- MCScopes
    ScopeOf <- MCScopeOf
    Enabled <- Two
    Merged <- MCMerged
    Outcomes <- NoLimits
    AuthGrace = 1
    AuthMin = 1
    StaleGrace = 2
    StaleMin = 2
    AgeBound = 6
INVARIANTS
    StaleEarned
    CurrentIsRecent
