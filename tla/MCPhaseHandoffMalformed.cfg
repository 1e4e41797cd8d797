CONSTANTS
    MaxCycle = 1
    Manifests = {m1}
    Sound = {m1}
    MaxBacklog = 1
    MaxCrashes = 0
    MaxDeaths = 0
    MaxFailures = 0
    MaxDamage = 1
    MaxFaults = 1
SPECIFICATION Spec
PROPERTY MalformedIsMarked
CHECK_DEADLOCK FALSE
