CONSTANTS
    StatFlows <- MCFlows
    Ports <- MCPorts
    Links <- MCLinks
    Topologies <- MCTopologies
    Zones <- MCZones
    PktSize = 3
    TimeFrame = 2
    TrialLen = 5
    MaxPackets = 2
    MaxSamples = 3
    MaxFaults = 1
    NumShares = 2
    Captures <- MCCaptures
    Timestep = 2
SPECIFICATION MCSpec
CHECK_DEADLOCK FALSE
INVARIANTS
    RightWhereverItIs
    LossOfItsOwnFlow
    EveryByteOnce
    ObserversKeepTheirRules
