CONSTANTS
    LastSlot = 2
    RetainSlots = 2
    MaxWpcFaults = 1
SPECIFICATION WpcSpec
INVARIANT LatestIsNewest
CHECK_DEADLOCK FALSE
