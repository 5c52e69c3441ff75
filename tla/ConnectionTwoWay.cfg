SPECIFICATION Spec
CONSTANTS
    Processes <- UIAndWeb
    Links <- UIWebLinks
    OnlySendsMarkedInMarked <- UIEnd
    Throttled <- UIEnd
    CallSites <- TwoWaySites
    Invalidates = {}
    MayExit = {}
    ExitsOnSyncFailure <- WebEnd
    ExitsOnClose <- WebEnd
    NoPeer = NoPeer
    MaxMessages = 3
INVARIANTS QueuedMessagesAreScheduled NoCircularWait
CHECK_DEADLOCK FALSE
