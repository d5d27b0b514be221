SPECIFICATION MCSpec
CONSTANTS
    Flows <- MCFlows
    transmit_rates <- MCRates
    time_slice = 3
    packet_len = 2
    BURST_COUNT = 2
    prob_mat <- MCProbMat
    Whole = 3
    MaxDelay = 1
    MaxBursts = 2
    MaxSlices = 3
    RustFlows <- MCRustFlows
    Second = 2
    MaxTime = 4
    RustBursts = 3
CHECK_DEADLOCK FALSE
INVARIANTS
    CountsWithinABurst
    NeverFasterThanItsRate
    EndsUnwrittenForACause
    NeverAheadOfTenTimes
