CONSTANTS
    MaxCycle = 3
    MaxCycleRuns = 4
    MaxFaults = 2
    MaxRuns = 2
    JoinTimeout = 1
    MaxAge = 3
    StaleAfter = 0
    CacheTtl = 1
    MaxDelay = 2
    Requests = {q1}
    RapRequests = {4, 5}
    MaxRapAge = 4
    RapFiles = 1
    MaxRapFaults = 1
    Granules = {1, 2, 3}
    MaxGlmFaults = 2
    a1 = a1
    a2 = a2
    a3 = a3
    Notices = {a1, a2, a3}
    Dropped = {a3}
    ExpiresAt <- MCExpiresAt
    Ttl = 0
    MaxTick = 1
    MaxNwsFaults = 1
    Convective = {a1, a2}
    Shaped = {a1, a2}
    Covers = {a1, a2}
    Zones = {z1, z2}
    MaxRetries = 2
    MaxZoneFaults = 3
    Gates = {1, 2, 3, 4}
    Adjacent <- MCAdjacent
    Polygons = {1, 2}
    Levels = {0, 15, 16, 18, 24}
    Crop <- MCCrop
    MinGates = 1
    SeedShare = 2
    Ids = {1, 2, 3}
    Scenes = {{2}, {1, 2, 3}}
    MinConfirmations = 2
    MaxCellScans = 2
    MaxCross = 2
    MaxTrackFaults = 1
    MrmsProducts = {"P"}
    RapFields = {"u"}
    Storms = {1}
    HistoryWindow = 1
    Manifests <- MCManifests
    LastMinute = 2
    Tracked = {1}
    LastClock = 8
    MaxAlertFaults = 2
SPECIFICATION MCSpec
INVARIANTS
    PublishedIsOnDisk
    OneCycleAtATime
    GlmCoversItsWindow
    AttachedWasInForce
    CellsAreTheirStorms
    TracksFollowStorms
    VerdictsAreSound
PROPERTIES
    AlertsAreSound
    PublicMovesForward
    RecoveryIsComplete
    ServedIsRecent
    RapIsFreshest
    NwsPublishedIsUpstream
    ZonesAreKept
CHECK_DEADLOCK FALSE
