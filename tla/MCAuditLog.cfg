SPECIFICATION Spec
CONSTANTS
    l1 = l1
    l2 = l2
    Loggers = {l1, l2}
    Garbage = Garbage
    MaxCalls = 6
SYMMETRY Symmetry
INVARIANTS
    ChainUnbroken
    LinksResolve
CHECK_DEADLOCK FALSE
