CONSTANTS
    Cores = 2
    SlotsPerCore = 2
    NumEntries = 2
    MessageFloats = 1
    Lengths = {2, 5}
    MaxReductions = 1
    MaxInFlight = 2
    Timeouts = TRUE
    Losses = TRUE
SPECIFICATION MCSpec
CHECK_DEADLOCK FALSE
INVARIANTS
    EndsCompleteUnlessReposted
    WaitingIsTimed
    SharesPartition
