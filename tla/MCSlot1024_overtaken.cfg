SPECIFICATION Spec
CONSTANTS
    Workers = {0, 1}
    MaxMessage = 1
    MaxInFlight = 2
    AlternatePort = 196
    Losses = {}
    MaxLost = 0
INVARIANT
    RepliesExact
