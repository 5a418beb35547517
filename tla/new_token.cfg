SPECIFICATION ASpec
CONSTANTS
    osinfo = osinfo
    nut = nut
    mos_scope = mos_scope
    Optional <- MCOptional
    Required <- MCRequired
    Scopes <- MCScopes
    ScopeOf <- MCScopeOf
    Enabled <- MCOptional
    Merged <- MCMerged
    Outcomes <- OutcomeKinds
    AuthGrace = 3
    AuthMin = 3
    StaleGrace = 1
    StaleMin = 1
PROPERTIES
    NewTokenGetsItsPolls
