-------------------------------- MODULE MCEntry --------------------------------
(***************************************************************************)
(* What is around the polls of an entry, for TLC: its devices, its config  *)
(* flows, the scope of its token and what its entities show. They share no *)
(* state, so a behaviour is of one part, and the others stand still; their *)
(* product would show nothing more.                                        *)
(***************************************************************************)
EXTENDS Devices, ConfigFlow, TokenScope, EntitySources, TLC

VARIABLE part   \* the part that moves

MCInit ==
    /\ part \in {"devices", "flows", "scope", "shown"}
    /\ DevicesInit /\ FlowInit
    /\ ScopeInit /\ (part # "scope" => rights = [mode |-> "full"])
    /\ SourcesInit /\ (part # "shown" => options = {} /\ ~performs)

MCNext ==
    /\ UNCHANGED part
    /\ \/ part = "devices" /\ DevicesNext /\ UNCHANGED <<flowVars, scopeVars, sourceVars>>
       \/ part = "flows" /\ FlowNext /\ UNCHANGED <<deviceVars, scopeVars, sourceVars>>
       \/ part = "scope" /\ ScopeNext /\ UNCHANGED <<deviceVars, flowVars, sourceVars>>
       \/ part = "shown" /\ SourcesNext /\ UNCHANGED <<deviceVars, flowVars, scopeVars>>

MCSpec ==
    MCInit /\ [][MCNext]_<<part, deviceVars, flowVars, scopeVars, sourceVars>>

MCSymmetry ==
    UNION {Permutations(Flows), Permutations(Slots), Permutations(Names), Permutations(Hosts),
           Permutations(Secrets)}
===============================================================================
