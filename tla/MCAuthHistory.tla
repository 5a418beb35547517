----------------------------- MODULE MCAuthHistory -----------------------------
(***************************************************************************)
(* An instance of AuthHistory for TLC: one always-fetched and one optional *)
(* resource, so that a 401 and another failure can meet in one cycle.      *)
(***************************************************************************)
EXTENDS AuthHistory

CONSTANTS osinfo, nut, mos_scope

MCOptional == {nut}
MCRequired == {osinfo}
MCScopes == {mos_scope}
MCScopeOf == [k \in Optional |-> mos_scope]
MCMerged == {}
===============================================================================
