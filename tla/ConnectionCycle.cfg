SPECIFICATION Spec
CONSTANTS
    Processes <- ThreeProcesses
    Links <- Triangle
    OnlySendsMarkedInMarked <- EndsToWeb
    Throttled <- UIEnd
    CallSites <- CycleSites
    Invalidates = {}
    MayExit = {}
    ExitsOnSyncFailure <- WebEnd
    ExitsOnClose <- WebEnd
    NoPeer = NoPeer
    MaxMessages = 1
INVARIANTS NoCircularWait RequestsAreUnderway
CHECK_DEADLOCK FALSE
