SPECIFICATION Spec
CONSTANTS
    container = container
    vm = vm
    c1 = c1
    c2 = c2
    Patched <- MCNone
    Refreshed <- MCMachines
    Meddled <- MCNone
    Calls <- MCOneCall
PROPERTIES
    RefreshFollows
