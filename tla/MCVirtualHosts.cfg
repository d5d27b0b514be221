SPECIFICATION MCSpec
CHECK_DEADLOCK FALSE
CONSTANTS
    NumHosts = 2
    NumTrials = 3
    MaxFailures = 2
    Flows <- MCFlows
INVARIANTS
    LeakStopsLaterTrials
    OwnMeasurements
PROPERTIES
    Lifecycle
    TestingLifecycle
    ProgramsEnd
