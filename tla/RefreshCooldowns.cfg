SPECIFICATION RefreshSpec
CONSTANTS
    Keys = {k1}
    NoKey = NoKey
    Pickers = {}
    Reporters = {r1}
    Workers = {w1}
    Refresher = refresher
    Restorable = {k1}
    FailureThreshold = 1
    DisableAfterCooldowns = 2
    DeleteAfterFailures = 3
    StateEnabled = FALSE
    SavesFail = FALSE
    LoadsFail = FALSE
    MaxRestarts = 0
    HealthCheckEnabled = FALSE
    TargetOutcomes = {TRUE}
    MaxCopies = 0
    MaxRounds = 2
    MaxReports = 2
PROPERTIES DisabledWithinOneCycle
