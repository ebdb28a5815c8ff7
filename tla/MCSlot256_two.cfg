SPECIFICATION FairSpec
CONSTANTS
    Workers = {w1, w2}
    MaxMessage = 3
    MaxInFlight = 3
INVARIANTS
    RepliesExact
    MemoryExact
    AcceptedIsCurrent
    NoUnexpectedHarvest
    IInv
PROPERTIES
    ImplementsAllReduce
    NoEarlyOverwrite
    BroadcastOnCompletion
    Termination
