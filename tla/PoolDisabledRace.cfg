SPECIFICATION Spec
CONSTANTS
    Keys = {k1}
    NoKey = NoKey
    Pickers = {}
    Reporters = {r1, r2}
    Workers = {}
    Refresher = refresher
    Restorable = {k1}
    FailureThreshold = 1
    DisableAfterCooldowns = 1
    DeleteAfterFailures = 3
    StateEnabled = TRUE
    SavesFail = TRUE
    LoadsFail = FALSE
    MaxRestarts = 0
INVARIANTS DisabledListsAgree
