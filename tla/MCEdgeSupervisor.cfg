SPECIFICATION Spec
CONSTANTS
    NoVal = NoVal
    MaxSpeed = 8
    MinBattery = 500
    Geofence = 10000
    Standoff = 200
    MaxStd = 500
    MaxSensorAge = 10
    GpsWeight = 80
    MaxLocStaleness = 10
    MinClearance = 200
    Sidestep = 300
    AdapterMaxSpeed = 7
    Plans <- MCPlans
    InitialStates <- MCInitialStates
    Wirings <- MCWirings
    Frames <- MCFrames
    Lags <- MCLags
INVARIANTS
    TypeOK
    GeofenceContained
    NoExecAfterBlock
    BlockedMissionsGoHome
    LowBatteryEndsHome
    AuditMatchesEvents
PROPERTIES
    MotionIsGated
    DisarmOnlyAtHome
    MissionTerminates
