SPECIFICATION FairSpec
CONSTANTS
    Activities = {a1, a2, a3}
    MaxRequests = 5
INVARIANT NoReleaseAssertFailure
INVARIANT AssertionMatchesActivities
INVARIANT RunnableProcessIsResumed
PROPERTY ReplySuspendsOnlyPreparedProcess
PROPERTY IdleProcessIsEventuallySuspended
CHECK_DEADLOCK FALSE
