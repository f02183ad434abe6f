SPECIFICATION Spec
CONSTANTS
    Threads = {r1, r2, pool}
    UsizeMax = 3
    Pool = pool
    Nobody = nobody
    Policies = {"Block", "DropOldest", "DropNewest", "Latest"}
    Capacity = 1
    Batches = {1, 2}
    Delegation = {FALSE, TRUE}
    MaxPackets = 2
    MaxRuns = 2
INVARIANTS
    TypeOK
    TotalWithinStrays
    EndIsFinal
    StreamInOrder
    MissedOnlyByResets
SYMMETRY ReaderSymmetry
CHECK_DEADLOCK FALSE
