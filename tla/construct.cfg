CONSTANTS
    Cores = 2
    Sources <- MCSources
    Contracts <- MCContracts
    Types <- MCTypes
    Packets <- MCPackets
SPECIFICATION Spec
CHECK_DEADLOCK FALSE
INVARIANTS
    AcceptedGraphDrains
    ExpansionKeepsWiring
    PlannedIsBuilt
    RoutesAreTotal
    WarningsAreTrue
