SPECIFICATION GateSpec
CONSTANTS
    p1 = p1
    v1 = v1
    f1 = f1
    f2 = f2
    k1 = k1
    Processes = {p1}
    Vendors = {v1}
    Prints = {f1, f2}
    KeyIds = {k1}
    InitialFiles <- Files
    InitialRings <- Rings
    Windows <- Later
    MaxTime = 3
    WindowSize = 2
    MinSamples = 2
    ErrorNum = 1
    ErrorDen = 2
    Cooldown = 1
INVARIANTS
    TypeOK
    MemoryIsFile
    RevokedKeyRefused
PROPERTIES
    UnexpiredPinsKept
    RevocationStays
    FreshEvidence
