SPECIFICATION Spec
CONSTANTS
    MaxDeployments = 2
    Requests = {r1, r2}
    Commits = {c1}
    NoImage = NoImage
    Configs = {f1}
    Keep = 1
    Calls = {"deploy", "rollback", "cancel"}
    Faults = {"restart", "timeout", "disconnect", "refusal"}
SYMMETRY RequestSymmetry
INVARIANT SucceededReachedTheCluster
PROPERTY CancelledNeverLands
CHECK_DEADLOCK FALSE
