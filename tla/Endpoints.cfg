SPECIFICATION EndpointsSpec
CONSTANTS
    Clients = {c1, c2, c3}
    MaxConnections = 2
    MaxDelay = 50
    MaxErrors = 8
    NameLengths = {0, 1, 3}
    HeaderSizes = {4, 5, 6, 7}
    HeaderLimit = 6
    EarlyBytes = 2
    Dials = {d1, d2}
    PoolNode = pool
    MaxAddresses = 2
INVARIANTS
    EndpointsTypeOK PermitsConserved RepliesConsistent BackoffFollowsErrors
    StreamAligned VerdictFollowsProxy LoginWhenDemanded
    NoSessionOutlivesItsStream
PROPERTIES AcceptedUnlessFull
