SPECIFICATION ConnectorSpec
CONSTANTS
    Keys = {k1, k2}
    NoKey = NoKey
    Pickers = {r1, r2}
    Reporters = {r1, r2}
    Workers = {w1}
    Refresher = refresher
    Restorable = {k1, k2}
    FailureThreshold = 1
    DisableAfterCooldowns = 2
    DeleteAfterFailures = 1
    StateEnabled = FALSE
    SavesFail = FALSE
    LoadsFail = FALSE
    MaxRestarts = 0
    RetryLimits = {0, 1}
    MaxConnects = 2
SYMMETRY Symmetry
INVARIANTS ConnectorTypeOK AttemptsDistinctAndBounded NoDirectFallback OneBlamePerDial
