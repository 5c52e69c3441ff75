SPECIFICATION FairSpec
CONSTANTS
    Processes <- UIAndWeb
    Links <- UIWebLinks
    OnlySendsMarkedInMarked <- UIEnd
    Throttled <- UIEnd
    CallSites <- DelayedAndTimeoutSites
    Invalidates <- WebEnd
    MayExit <- OnlyWeb
    ExitsOnSyncFailure <- WebEnd
    ExitsOnClose <- WebEnd
    NoPeer = NoPeer
    MaxMessages = 2
INVARIANTS PendingRepliesMatchWaits BlockedHasNothingToDo OrderIsMaintained
CHECK_DEADLOCK FALSE
PROPERTIES SyncSendsReturn
