SPECIFICATION Spec
CONSTANTS
    Workers = {w1, w2}
    Host = host
    Consumer = consumer
    MaxInFlight = 2
    Inputs = 2
    Capacity = 1
    MaxEmit = 1
    OpenEmits = {}
    CloseEmits = {1}
    HostRetries = TRUE
    MayStop = FALSE
INVARIANTS
    CloseFlushRetained
CHECK_DEADLOCK FALSE
