SPECIFICATION Spec
CONSTANTS
    Threads = {t1, t2}
    Nobody = nobody
    NumInputs = 2
    LastTimestamp = 1
    MaxDepth = 2
    MaxCalls = 4
    MaxQueued = 1
    MayStop = TRUE
INVARIANTS
    TypeOK
    OneDispatcher
    EventsOrdered
    ClosedGraphDrains
    SomeCallRuns
    ClosesAreHeld
PROPERTIES
    BoundsKept
SYMMETRY ThreadSymmetry
CHECK_DEADLOCK FALSE
