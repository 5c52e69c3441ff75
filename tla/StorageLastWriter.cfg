SPECIFICATION Spec
CONSTANTS
    Processes = {p1, p2}
    Writers = {p1, p2}
    Keys = {k1}
    Values = {v1, v2}
    Null = Null
    NoChange = NoChange
    AllKeys = AllKeys
    IsEphemeral = TRUE
    Quota = 2
    MaximumItemsToUpdate = 1
    Changes = {"set"}
    Disruptions = {}
    MaxChanges = 2
    MaxDisruptions = 0
INVARIANT EveryoneAgrees
CHECK_DEADLOCK FALSE
