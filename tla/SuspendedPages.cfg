SPECIFICATION Spec
CONSTANTS
    Items = {"i1", "i2"}
    MaxCapacity = 2
    MaxNavigations = 3
    MaxDisruptions = 1
INVARIANTS
    AssertionsHold
    ListMatchesEntries
    OneWebPagePerProcess
    PagesEndUpAsHeld
    WaitingNavigationsHaveATimeout
CHECK_DEADLOCK FALSE
