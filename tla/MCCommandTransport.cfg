SPECIFICATION Spec
CONSTANTS
    s1 = s1
    s2 = s2
    v1 = v1
    v2 = v2
    p1 = p1
    p2 = p2
    Senders = {s1, s2}
    Vehicles = {v1, v2}
    Payloads = {p1}
    Serves <- OneEach
    MaxAttempts = 2
    NonceWindow = 2
    KeyTTL = 0
    GatewayBase = 0
    MaxSends = 2
    MaxTime = 1
    MaxCrashes = 1
    MaxRestarts = 1
CHECK_DEADLOCK FALSE
INVARIANTS
    TypeOK
    SuccessMeansDelivered
    OneOutcome
    NoResendWhileLive
PROPERTIES
    NonceMonotone
    ImplementsLink
    SendTerminates
