SPECIFICATION MCSpec
CONSTANTS
    a = a
    b = b
    MaxTrials = 2
    Flows <- MCFlows
    MaxFailures = 2
    MaxCrashes = 2
    MininetTrials = 2
    HostCount = 2
    FlowCount <- MCFlowCount
    MaxLost = 2
    MininetFailures = 1
    TrialTypes = {"average", "percentile"}
    VleSeeds <- MCVleSeeds
    SeedLists <- MCSeedLists
    FlowCounts <- MCFlowCounts
    NodeCounts <- MCNodeCounts
    LargeNodeCounts <- MCLargeNodeCounts
    SolverFlows <- MCSolverFlows
    Unit = 2
    SolverRuns = 3
    SolverFailures = 1
INVARIANTS
    StaleNeedsTwoFaults
    ReportedInOrder
    OwnUnlessUnwritten
    StaleOnlyWithinSeed
PROPERTIES
    HeldProcessesStopped
