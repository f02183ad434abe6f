SPECIFICATION Spec
CONSTANTS
    Workers = {w1, w2}
    Host = host
    MaxInFlight = 2
    Budgets <- MCBudgets
INVARIANTS
    CallbacksExclude
    SourceRests
    SourceIsKept
    HostIsCalled
    NothingCarriedOver
SYMMETRY WorkerSymmetry
CHECK_DEADLOCK FALSE
