SPECIFICATION FairSpec
CONSTANTS
    r1 = r1
    r2 = r2
    r3 = r3
    r4 = r4
    Requests <- MCRequests
    MaxConcurrent = 2
    MinInterval = 2
    Horizon = 3
INVARIANTS
    TypeOK
    SlotsConserved
    BurstBounded
PROPERTIES
    EveryTurnComes
