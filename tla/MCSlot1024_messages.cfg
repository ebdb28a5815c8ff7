SPECIFICATION NotMisled
CONSTANTS
    Workers = {0, 1}
    MaxMessage = 3
    MaxInFlight = 2
    AlternatePort = 196
    Losses = {"network", "consume", "harvest"}
    MaxLost = 1
CHECK_DEADLOCK FALSE
INVARIANT
    BroadcastsExact
PROPERTY
    ImplementsAllReduce
