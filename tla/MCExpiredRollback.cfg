SPECIFICATION Spec
CONSTANTS
    p1 = p1
    v1 = v1
    f1 = f1
    f2 = f2
    Processes = {p1}
    Vendors = {v1}
    Prints = {f1, f2}
    InitialFiles <- Files
    Windows <- Later
    MaxTime = 3
    WindowSize = 2
    MinSamples = 2
    ErrorNum = 1
    ErrorDen = 2
    Cooldown = 1
PROPERTY
    RollbackRestores
