--------------------------- MODULE MCResourceHistory ---------------------------
(***************************************************************************)
(* Instances of ResourceHistory for TLC: one always-fetched resource and   *)
(* one optional resource, or two of one scope.                             *)
(***************************************************************************)
EXTENDS ResourceHistory

CONSTANTS osinfo, docker_containers, compose_stacks, docker_scope

One == {docker_containers}
Two == {docker_containers, compose_stacks}
MCRequired == {osinfo}
MCScopes == {docker_scope}
MCScopeOf == [k \in Optional |-> docker_scope]
MCMerged == {}

\* A 429 on an optional resource is treated as a communication error is.
NoLimits == OutcomeKinds \ {"limited"}

\* Requests that are answered or are not: the token plays no part.
Answers == {"ok", "unreachable"}
===============================================================================
