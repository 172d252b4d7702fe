SPECIFICATION RefreshFairSpec
CONSTANTS
    Keys = {k1, k2}
    NoKey = NoKey
    Pickers = {}
    Reporters = {r1}
    Workers = {w1}
    Refresher = refresher
    Restorable = {k1, k2}
    FailureThreshold = 1
    DisableAfterCooldowns = 1
    DeleteAfterFailures = 1
    StateEnabled = TRUE
    SavesFail = FALSE
    LoadsFail = FALSE
    MaxRestarts = 1
    HealthCheckEnabled = TRUE
    TargetOutcomes = {TRUE, FALSE}
    MaxCopies = 0
    MaxRounds = 2
    MaxReports = 2
INVARIANTS RefreshIsDurable
PROPERTIES RefreshEnds
