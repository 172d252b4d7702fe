SPECIFICATION ConnectorFairSpec
CONSTANTS
    Keys = {k1, k2}
    NoKey = NoKey
    Pickers = {r1, r2}
    Reporters = {r1, r2}
    Workers = {}
    Refresher = refresher
    Restorable = {k1, k2}
    FailureThreshold = 1
    DisableAfterCooldowns = 2
    DeleteAfterFailures = 1
    StateEnabled = FALSE
    SavesFail = FALSE
    LoadsFail = FALSE
    MaxRestarts = 0
    RetryLimits = {0}
    MaxConnects = 2
PROPERTIES ConnectEnds
