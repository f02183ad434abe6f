SPECIFICATION Spec
CONSTANTS
    Host = host
    Producer = producer
    Consumers = {c1, c2}
    Nobody = nobody
    Bodies = {1, 2, 3, 4, 5, 6}
    Payloads = {1, 2, 3, 4, 5, 6}
    Adopted = adopted
    Object = object
    Memory = {m1, m2}
    MemorySize <- MCMemorySize
    PoolBytes = 2
    Descriptors <- MCDescriptors
    Fanouts <- MCFanouts
    Typed = {c1, c2}
    Budgets <- MCBudgets
    MaxDims = 3
    I64Max = 31
INVARIANTS
    CopiesExact
    ValuesKept
    Lifetimes
    NothingKept
SYMMETRY ConsumerSymmetry
CHECK_DEADLOCK FALSE
