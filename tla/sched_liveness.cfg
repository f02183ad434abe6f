SPECIFICATION FairSpec
CONSTANTS
    Workers = {w1}
    Host = host
    Consumer = consumer
    MaxInFlight = 2
    Inputs = 2
    Capacity = 1
    MaxEmit = 1
    OpenEmits = {1}
    CloseEmits = {0}
    HostRetries = TRUE
    MayStop = FALSE
PROPERTIES
    NodeCloses
CHECK_DEADLOCK FALSE
