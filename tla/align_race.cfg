SPECIFICATION Spec
CONSTANTS
    Span = 2
    NumPorts = 2
    BackEdges = {}
    Policies = {"sync"}
    Groups = {{1, 2}}
    Capacity = 2
    SingleSlots = TRUE
    MaxBatch = 2
    MaxQueue = 2
    Quietness = {FALSE}
PROPERTY AlwaysComplete
CHECK_DEADLOCK FALSE
