SPECIFICATION RSpec
CONSTANTS
    osinfo = osinfo
    docker_containers = docker_containers
    compose_stacks = compose_stacks
    docker_scope = docker_scope
    Optional <- One
    Required <- MCRequired
    Scopes <- MCScopes
    ScopeOf <- MCScopeOf
    Enabled <- One
    Merged <- MCMerged
    Outcomes <- Answers
    AuthGrace = 1
    AuthMin = 1
    StaleGrace = 2
    StaleMin = 2
    AgeBound = 6
PROPERTIES
    StaleReobserved
