--------------------------- MODULE MCMOSCoordinator ---------------------------
(***************************************************************************)
(* An instance of MOSCoordinator for TLC: one always-fetched resource, the *)
(* container list and the raw Engine proxy under the "docker" scope, one   *)
(* merged into the other, and the UPS under a scope of its own.            *)
(***************************************************************************)
EXTENDS MOSCoordinator

CONSTANTS osinfo, docker_containers, docker_engine_containers, nut,
          docker_scope, nut_scope

MCOptional == {docker_containers, docker_engine_containers, nut}
MCRequired == {osinfo}
MCMerged == {docker_engine_containers}
MCScopes == {docker_scope, nut_scope}

MCScopeOf ==
    [k \in Optional |-> IF k = nut THEN nut_scope ELSE docker_scope]

\* A 429 is treated as a communication error is on an optional resource, and as
\* a refusal is on an always-fetched one.
NoLimits == OutcomeKinds \ {"limited"}
===============================================================================
