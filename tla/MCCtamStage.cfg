CONSTANTS
    Ids = {1, 2, 3}
    Capacity = 2
    Cells = {c1}
    Required = {1}
    Supplied = {1, 2}
    Stubborn = {2}
SPECIFICATION FairSpec
INVARIANTS
    StageIsAtomic
PROPERTIES
    DiscoveryIsExact
    StageEnds
CHECK_DEADLOCK FALSE
