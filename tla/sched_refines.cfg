SPECIFICATION Spec
CONSTANTS
    Workers = {w1, w2}
    Host = host
    Consumer = consumer
    MaxInFlight = 2
    Inputs = 2
    Capacity = 1
    MaxEmit = 1
    OpenEmits = {}
    CloseEmits = {1, 2}
    HostRetries = FALSE
    MayStop = TRUE
INVARIANTS
    TypeOK
    CloseIsLast
    SlotExclusive
    IndexCoversParked
    PublishInOrder
PROPERTIES
    BehavesInOrder
SYMMETRY WorkerSymmetry
CHECK_DEADLOCK FALSE
