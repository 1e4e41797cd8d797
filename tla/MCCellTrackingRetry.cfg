CONSTANTS
    Ids = {1, 2}
    Scenes = {{1, 2}}
    MinConfirmations = 2
    MaxCellScans = 2
    MaxCross = 2
    MaxTrackFaults = 1
SPECIFICATION CellSpec
INVARIANT EventNeedsTwoScans
CHECK_DEADLOCK FALSE
