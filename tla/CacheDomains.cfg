SPECIFICATION FairSpec
CONSTANTS
    Processes = {p1, p2}
    Pages = {g1}
    Domains = {d1, d2}
    g1 = g1
    g2 = g2
    normal = normal
    private = private
    DataStores = {normal, private}
    Ephemeral = {private}
    DataStoreOf <- MCOnePrivate
    Capacity = 1
    MaxRequests = 1
    None = None
    Dummy = Dummy
    SeveralDomains = SeveralDomains
INVARIANTS
    CacheWithinCapacity
PROPERTIES
    RequestsAreSettled
