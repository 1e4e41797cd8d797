SPECIFICATION OwnershipLiveSpec
CONSTANTS
    MaxRuns = 2
    JoinTimeout = 1
    MaxAge = 2
PROPERTY
    CrashReleasesLock
