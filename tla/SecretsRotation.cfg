SPECIFICATION SecretsOnly
CONSTANTS
    FApps = {"a1", "a2"}
    EnvOf <- EnvOfMC
    Hosts = {"h1", "h2"}
    Owned <- OwnedMC
    FRules = {"x", "y"}
    Tokens = {"t1", "t2"}
    Guards = {"g1"}
    FRequests = {"r1", "r2"}
    SetLimit = 1
    EdgeMixes <- EdgeMixesMC
    RuleSets <- RuleSetsMC
    Visits <- VisitsMC
    Trusts <- TrustsMC
    CountryOf <- CountryOfMC
    NetworkOf <- NetworkOfMC
    Loaded <- LoadedMC
    Within <- WithinMC
    MaxDepth = 2
    Cells = {"c1", "c2"}
    Writers = {"w1", "w2"}
    Trees <- TreesMC
    Roots <- RootsMC
    DriverRules <- DriverRulesMC
    NodeRules <- NodeRulesMC
    Defaults = {"railpack", "nixpacks"}
    Builds <- BuildsMC
    PodFaults = 2
    c1 = c1
    c2 = c2
    Commits = {c1, c2}
    Contents = {c1, c2}
    ContentOf <- TwoAlike
    NoTag = NoTag
    MaxDeployments = 2
    MaxSweeps = 2
    Keep = 1
    Faults = {"fail"}
    SecretMixes <- SecretMixesMC
INVARIANT EverySecretOpens
CHECK_DEADLOCK FALSE
