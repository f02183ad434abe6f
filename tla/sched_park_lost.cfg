SPECIFICATION FairSpec
CONSTANTS
    Workers = {w1}
    Host = host
    Consumer = consumer
    MaxInFlight = 2
    Inputs = 2
    Capacity = 1
    MaxEmit = 1
    OpenEmits = {}
    CloseEmits = {0}
    HostRetries = FALSE
    MayStop = FALSE
PROPERTIES
    ParkedFlushResumes
CHECK_DEADLOCK FALSE
