CONSTANTS
    Cores = 2
    SlotsPerCore = 1
    NumEntries = 1
    MessageFloats = 2
    Lengths = {0}
    MaxReductions = 2
    MaxInFlight = 3
    Timeouts = TRUE
    Losses = TRUE
SPECIFICATION MCFairSpec
CHECK_DEADLOCK FALSE
PROPERTY
    EmptyReductionEnds
