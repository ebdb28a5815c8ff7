CONSTANTS
    Threads <- ThreadSet
    Main = "main"
    Participants <- ParticipantSet
    Calls = 2
    NumEntries = 3
    MaxTime = 3
    MaxPushes = 6
    Configs <- MCConfigs
SPECIFICATION PartsSpec
INVARIANTS
    HandedOver
    ReturnsComplete
    BottomIsOldest
    QueueInv
    SlotExact
    ReplyQueueExact
    CountersShown
PROPERTY
    Ends
