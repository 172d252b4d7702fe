SPECIFICATION RefreshSpec
CONSTANTS
    Keys = {k1, k2}
    NoKey = NoKey
    Pickers = {}
    Reporters = {r1}
    Workers = {w1, w2}
    Refresher = refresher
    Restorable = {k1, k2}
    FailureThreshold = 1
    DisableAfterCooldowns = 2
    DeleteAfterFailures = 2
    StateEnabled = TRUE
    SavesFail = FALSE
    LoadsFail = FALSE
    MaxRestarts = 1
    HealthCheckEnabled = TRUE
    TargetOutcomes = {TRUE, FALSE}
    MaxCopies = 1
    MaxRounds = 2
    MaxReports = 4
SYMMETRY Symmetry
INVARIANTS RefreshTypeOK RetiredOnlyAfterConsecutiveFailures RetiringNodeIsActive OneProbePerNode
