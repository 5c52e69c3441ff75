SPECIFICATION FairSpec
CONSTANTS
    SyncMessagesAreMarked = TRUE
    IsThrottled = TRUE
    MayClose = TRUE
    MayTimeOut = TRUE
    BatchSize = 2
    KillingThreshold = 3
    MaxMessages = 4
INVARIANTS ParkedThreadMissedNoMessage OnlyAbandonedWaitsLoseMessages QueuedMessagesAreScheduled
PROPERTIES WaitEnds
CHECK_DEADLOCK FALSE
