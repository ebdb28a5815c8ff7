SPECIFICATION Spec
CONSTANTS
    Workers = {w1, w2}
    MaxMessage = 2
    MaxInFlight = 3
INVARIANTS
    RetransmitsWhole
