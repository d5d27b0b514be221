SPECIFICATION MCSpec
CONSTANTS
    NumDpids = 3
    MaxRounds = 2
    MaxPeriods = 2
    Switches = {s1, s2, s3, s4}
    Wiring <- MCWiring
    Routes <- MCRoutes
    MaxTrials = 2
    MaxDisruptions = 2
    s1 = s1
    s2 = s2
    s3 = s3
    s4 = s4
INVARIANTS
    QuietAfterStop
    NoTornSample
    NoForwardingLoop
    RemovedCompletely
PROPERTIES
    StopTerminates
