CONSTANTS
    Cores = 3
    SlotsPerCore = 1
    NumEntries = 1
    MessageFloats = 1
    Lengths = {6}
    MaxReductions = 1
    MaxInFlight = 2
    Timeouts = TRUE
    Losses = TRUE
SPECIFICATION MCSpec
CHECK_DEADLOCK FALSE
INVARIANT
    PostsOwnShare
