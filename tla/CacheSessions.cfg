SPECIFICATION Spec
CONSTANTS
    Processes = {p1, p2}
    Pages = {g1, g2}
    Domains = {d1}
    g1 = g1
    g2 = g2
    normal = normal
    private = private
    DataStores = {normal, private}
    Ephemeral = {private}
    DataStoreOf <- MCBoth
    Capacity = 1
    MaxRequests = 2
    None = None
    Dummy = Dummy
    SeveralDomains = SeveralDomains
SYMMETRY Symmetry
INVARIANTS
    EphemeralSessionsLeaveNothing
    DataStoresAreSeparate
    CachedProcessesAreIdle
    ProvisionalProcessIsRunning
    CacheMatchesProxies
