SPECIFICATION FairSpec
CONSTANTS
    h1 = h1
    h2 = h2
    h3 = h3
    h4 = h4
    h5 = h5
    stranger = stranger
    Mgids <- MCMgids
    Rids <- MCRids
    DevPorts <- MCPorts
    Jobs = 3
    JobSize <- Sizes
    HostOf <- Hosts
    PortOf <- FivePorts
    Opcodes <- TwoOpcodes
    Queues = 1
    MaxWorkers = 3
    BadMessage = {}
    Commands <- SomeCommands
    MaxCommands = 1
    MaxRestarts = 1
INVARIANTS AcknowledgedInstalled GroupExact FreshRegisters ClearedBeforeFirst
PROPERTY Settles
CHECK_DEADLOCK FALSE
