SPECIFICATION Spec
CONSTANTS
    c1 = c1
    c2 = c2
    Commits = {c1, c2}
    Contents = {c1, c2}
    ContentOf <- EachItsOwn
    NoTag = NoTag
    MaxDeployments = 2
    MaxSweeps = 2
    Keep = 1
    Faults = {"fail", "sweep", "collector", "abandon", "restart"}
PROPERTY KeptTagsStay
CHECK_DEADLOCK FALSE
