CONSTANTS
    Renderer = render
    Ingest = ingest
    Children = {render, ingest}
    WithHeartbeat = {ingest}
    MaxRestarts = 1
    Window = 3
    BaseBackoff = 1
    MaxBackoff = 2
    StaleAfter = 1
    Grace = 1
    StopTime = 1
    MaxDeaths = 3
SPECIFICATION FairSpec
CHECK_DEADLOCK FALSE
INVARIANTS
    RenderingHoldsFlag
    NoChildOutlivesService
    RestartRateBounded
PROPERTIES
    ChildIsSeenTo
