CONSTANTS
    MaxCycle = 2
    Manifests = {m1, m2}
    Sound = {m1}
    MaxBacklog = 1
    MaxCrashes = 1
    MaxDeaths = 1
    MaxFailures = 1
    MaxDamage = 1
    MaxFaults = 1
SPECIFICATION FairSpec
INVARIANTS
    RecordsAreDealtWith
PROPERTIES
    CommittedImmutable
    SkipJustified
    PassedWhenReadable
CHECK_DEADLOCK FALSE
