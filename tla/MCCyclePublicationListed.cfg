SPECIFICATION PublicationSpec
CONSTANTS
    MaxCycle = 2
    MaxCycleRuns = 3
    MaxFaults = 2
INVARIANT
    IntermediateNotListed
CHECK_DEADLOCK FALSE
