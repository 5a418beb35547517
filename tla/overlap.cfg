SPECIFICATION FairSpec
CONSTANTS
    container = container
    vm = vm
    c1 = c1
    c2 = c2
    Patched <- MCContainers
    Refreshed <- MCNone
    Meddled <- MCContainers
    Calls <- MCCalls
INVARIANTS
    TypeOK
    DataIsRecent
PROPERTIES
    SwitchesSettle
