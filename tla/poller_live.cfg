SPECIFICATION FairSpec
CONSTANTS
    Threads = {r1, pool}
    UsizeMax = 3
    Pool = pool
    Nobody = nobody
    Policies = {"Block"}
    Capacity = 1
    Batches = {1, 2}
    Delegation = {FALSE, TRUE}
    MaxPackets = 2
    MaxRuns = 2
PROPERTIES
    CallsReturn
    PushesEnd
CHECK_DEADLOCK FALSE
