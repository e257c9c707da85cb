SPECIFICATION AppSpec
CONSTANTS
    NoVal = NoVal
    MaxSpeed = 8
    MinBattery = 500
    Geofence = 10000
    Standoff = 200
    MaxStd = 500
    MaxSensorAge = 10
    GpsWeight = 80
    MaxLocStaleness = 10
    MinClearance = 200
    Sidestep = 300
    AdapterMaxSpeed = 7
    Plans <- OnePlan
    InitialStates <- FirstStates
    Wirings <- AllWirings
    Frames <- NoFrames
    Lags <- SampledLags
    EarlierKeys <- NothingSeen
    MaxStrays = 1
    Programs <- BlockedTrace
    Answers <- MCAnswers
PROPERTY
    BlockedTargetAvoided
