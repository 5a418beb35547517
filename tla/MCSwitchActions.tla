---------------------------- MODULE MCSwitchActions ----------------------------
(***************************************************************************)
(* Instances of SwitchActions for TLC.                                     *)
(***************************************************************************)
EXTENDS SwitchActions

CONSTANTS container, vm, c1, c2

MCContainers == {container}
MCMachines == {vm}
MCCalls == {c1, c2}
MCOneCall == {c1}
MCNone == {}
===============================================================================
