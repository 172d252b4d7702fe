SPECIFICATION Spec
CONSTANTS
    Keys = {k1}
    NoKey = NoKey
    Pickers = {}
    Reporters = {r1, r2}
    Workers = {w1}
    Refresher = refresher
    Restorable = {}
    FailureThreshold = 2
    DisableAfterCooldowns = 2
    DeleteAfterFailures = 2
    StateEnabled = TRUE
    SavesFail = TRUE
    LoadsFail = FALSE
    MaxRestarts = 1
SYMMETRY Symmetry
INVARIANTS FileFollowsState RecordsWellFormed
PROPERTIES RetirementIsDurable NodesFollowLifeCycle
