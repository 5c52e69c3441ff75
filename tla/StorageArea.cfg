SPECIFICATION FairSpec
CONSTANTS
    Processes = {p1}
    Writers = {p1}
    Keys = {k1, k2}
    Values = {v1}
    Null = Null
    NoChange = NoChange
    AllKeys = AllKeys
    IsEphemeral = FALSE
    Quota = 2
    MaximumItemsToUpdate = 1
    Changes = {"set", "remove", "clear"}
    Disruptions = {"crash", "removeSession", "delete", "destroy", "exit"}
    MaxChanges = 3
    MaxDisruptions = 1
INVARIANT DatabaseAddsUp
PROPERTY ImplementsPersistentMap
PROPERTY ChangesAreSaved
CHECK_DEADLOCK FALSE
