SPECIFICATION MCSpec
CONSTANTS
    Arcs <- MCArcs
    FlowPairs <- MCFlowPairs
    Rate = 1
    LINK_CAPACITY = 2
    Units = 2
INVARIANTS
    RoutesAreTheSimplePaths
    UtilizationCoversLoad
PROPERTIES
    EveryTraversalEnds
