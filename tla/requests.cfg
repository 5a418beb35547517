SPECIFICATION FairSpec
CONSTANTS
    container = container
    vm = vm
    c1 = c1
    c2 = c2
    Patched <- MCContainers
    Refreshed <- MCMachines
    Meddled <- MCNone
    Calls <- MCOneCall
INVARIANTS
    MachinesShowData
PROPERTIES
    SwitchesSettle
