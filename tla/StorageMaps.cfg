SPECIFICATION Spec
CONSTANTS
    Processes = {p1, p2, p3}
    Writers = {p1, p2}
    Keys = {k1, k2}
    Values = {v1}
    Null = Null
    NoChange = NoChange
    AllKeys = AllKeys
    IsEphemeral = TRUE
    Quota = 1
    MaximumItemsToUpdate = 1
    Changes = {"set", "clear"}
    Disruptions = {"delete"}
    MaxChanges = 2
    MaxDisruptions = 1
INVARIANT ReadersAgree
INVARIANT PendingChangesAreAwaited
SYMMETRY Symmetry
CHECK_DEADLOCK FALSE
