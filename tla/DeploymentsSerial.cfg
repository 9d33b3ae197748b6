SPECIFICATION FairSpec
CONSTANTS
    MaxDeployments = 2
    Requests = {r1}
    Commits = {c1}
    NoImage = NoImage
    Configs = {f1, f2}
    Keep = 1
    Calls = {"deploy", "settings"}
    Faults = {"restart", "panic"}
INVARIANTS AtMostOneLiveRun
PROPERTIES SupersededNeverLands RolloutsInOrder EveryDeploymentEnds
CHECK_DEADLOCK FALSE
