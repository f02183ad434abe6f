SPECIFICATION Spec
CONSTANTS
    Span = 2
    NumPorts = 2
    BackEdges = {{2}}
    Policies = {"sync", "immediate", "fixed_size", "sync_set", "batch"}
    Groups = {{1}, {2}}
    Capacity = 2
    SingleSlots = TRUE
    MaxBatch = 2
    MaxQueue = 2
    Quietness = {TRUE, FALSE}
INVARIANTS
    TypeOK
    DoneIsFinal
    NothingOverlooked
PROPERTIES
    InvocationComplete
    BatchesWhole
CHECK_DEADLOCK FALSE
