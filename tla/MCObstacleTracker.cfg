SPECIFICATION Spec
CONSTANTS
    Sources <- MCSources
    OwnIds <- MCOwnIds
    Events <- MCEvents
    MaxDistance = 3
    MaxAge = 1
    MaxFrames = 3
    MaxStamp = 2
    MaxSightings = 2
CHECK_DEADLOCK FALSE
INVARIANTS
    NoSharedIds
PROPERTIES
    NewIdsAreNew
    TracksContinue
    StillObstaclesKeepIds
