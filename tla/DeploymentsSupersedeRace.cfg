SPECIFICATION Spec
CONSTANTS
    MaxDeployments = 2
    Requests = {r1, r2}
    Commits = {c1}
    NoImage = NoImage
    Configs = {f1}
    Keep = 1
    Calls = {"deploy"}
    Faults = {}
PROPERTIES SupersededNeverLands
CHECK_DEADLOCK FALSE
