SPECIFICATION Spec
CONSTANTS
    Mgids <- MCMgids
    Rids <- MCRids
    DevPorts <- MCDevPorts
    DevPortOf <- MCDevPortOf
    PortArgs <- MCPortArgs
    MacArgs <- MCMacArgs
    Addresses <- MCAddresses
    Files <- MCFiles
    RecircArgs <- DefaultOnly
    Faults = TRUE
INVARIANTS
    PortInv
    PortAddComplete
    ClearAllEmpties
    FloodExact
    FreshCounters
    Cleared
    SettingKept
    SheetFaithful
CHECK_DEADLOCK FALSE
