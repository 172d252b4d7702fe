SPECIFICATION Spec
CONSTANTS
    Keys = {k1, k2}
    NoKey = NoKey
    Pickers = {p1}
    Reporters = {r1}
    Workers = {w1}
    Refresher = refresher
    Restorable = {k1, k2}
    FailureThreshold = 1
    DisableAfterCooldowns = 1
    DeleteAfterFailures = 1
    StateEnabled = FALSE
    SavesFail = TRUE
    LoadsFail = FALSE
    MaxRestarts = 0
SYMMETRY Symmetry
INVARIANTS BagIndicesInRange NoDuplicateNodes RetiredNotActive
PROPERTIES ExhaustedOnlyAfterAllSkipped ScansCountDown
