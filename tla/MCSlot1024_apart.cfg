SPECIFICATION FairSpec
CONSTANTS
    Workers = {0, 1}
    MaxMessage = 1
    MaxInFlight = 2
    AlternatePort = 192
    Losses = {"network", "consume", "harvest"}
    MaxLost = 2
PROPERTY
    Termination
