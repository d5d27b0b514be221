SPECIFICATION MCSpec
CONSTANTS
    a = a
    b = b
    c = c
    d = d
    z = z
    Ids = {1, 2, 3, 4}
    TargetEdges <- MCTargetEdges
    PortMap <- MCPortMap
    Paths <- MCPaths
    MirrorPorts <- MCMirrorPorts
    MirrorSwitch <- MCMirrorSwitch
    Switches = {a, b, c, d, z}
    CollectorSwitch = z
    Cabling <- MCCabling
    Attached <- MCAttached
    MaxPort = 4
    MaxCalls = 2
    MaxDisruptions = 2
    NumRuns = 2
    FlowCounts <- MCFlowCounts
    Passes = 2
    MaxFailures = 2
INVARIANTS
    MirroredAsSolved
    LeftOnlyByRaise
    LabelledAsSolved
