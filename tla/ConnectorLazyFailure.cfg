SPECIFICATION ConnectorSpec
CONSTANTS
    Keys = {k1}
    NoKey = NoKey
    Pickers = {r1}
    Reporters = {r1}
    Workers = {}
    Refresher = refresher
    Restorable = {k1}
    FailureThreshold = 3
    DisableAfterCooldowns = 2
    DeleteAfterFailures = 3
    StateEnabled = FALSE
    SavesFail = FALSE
    LoadsFail = FALSE
    MaxRestarts = 0
    RetryLimits = {0}
    MaxConnects = 4
PROPERTIES UnansweredStreamsCoolDown
