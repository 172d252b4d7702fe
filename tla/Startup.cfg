SPECIFICATION StartupSpec
CONSTANTS
    Keys = {k1, k2}
    NoKey = NoKey
    Pickers = {}
    Reporters = {r1}
    Workers = {}
    Refresher = refresher
    Restorable = {k1}
    FailureThreshold = 1
    DisableAfterCooldowns = 2
    DeleteAfterFailures = 3
    StateEnabled = TRUE
    SavesFail = TRUE
    LoadsFail = TRUE
    MaxRestarts = 2
    Nodes = {n1}
    MaxSubscriptionDepth = 2
    MaxPaths = 2
    MaxFiles = 1
    MaxEntries = 2
INVARIANTS DisabledListsAgree LoaderTypeOK ExpansionBounded NothingLost
PROPERTIES LoadEnds
