CONSTANTS
    MaxScan = 3
    MaxAttempts = 2
    MaxCrashes = 2
    MaxKills = 1
    MrmsStamps = {3, 6, 8}
    MrmsScans = {4, 8}
    HourStart = 4
    MatchWindow = 4
    Early = 4
    Late = 6
    MaxFiles = 2
    MaxAge = 6
    MaxTroubles = 1
    Channels = {c1, c2}
    MaxFrame = 2
    MaxOffset = 4
    FilesPerSpec = 1
    MaxKeys = 2
    PauseIngest = FALSE
    MaxAbiFaults = 1
    LastHour = 2
    Day = 3
    Lookback = 2
    MaxMetarFaults = 1
SPECIFICATION MCSpec
INVARIANTS
    IInv
    AttemptIsSound
PROPERTIES
    SettledNeverReattempted
    RetryReachesAnEnd
    ImplementsLedger
    AttemptEnds
    ScansAreStaged
    FreshestIsShown
    HourIsCaughtUp
CHECK_DEADLOCK FALSE
