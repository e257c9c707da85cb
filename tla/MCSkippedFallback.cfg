SPECIFICATION MissionSpec
CONSTANTS
    NoVal = NoVal
    MaxSpeed = 8
    MinBattery = 500
    Geofence = 10000
    Standoff = 200
    MaxStd = 500
    MaxSensorAge = 10
    GpsWeight = 80
    MaxLocStaleness = 10
    MinClearance = 200
    Sidestep = 300
    AdapterMaxSpeed = 7
    Plans <- HomeOnTheWay
    InitialStates <- Starts
    Wirings <- Links
    Frames <- NoFrames
    Lags <- NoLag
    EarlierKeys <- NothingSeen
    MaxStrays = 0
INVARIANT
    RefusedVehicleIsHome
