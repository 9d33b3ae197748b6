SPECIFICATION WorkloadsSpec
CONSTANTS
    AppIds = {"a1", "a2"}
    AppCallers = {"q1", "q2"}
    TypedHosts <- TypedHostsMC
    AppMixes <- AppMixesMC
    DbIds = {"d1", "d2"}
    DbApps = {"a1"}
    Slugs = {"web", "data"}
    VarNames = {"DATABASE_URL", "REDIS_URL"}
    DbCallers = {"q1", "q2"}
    DbMixes <- DbMixesMC
    ProjectSlugs <- ProjectSlugsMC
    EnvSlugs <- EnvSlugsMC
    EnvIds = {"e1", "e2", "e3", "e4"}
    EnvCallers = {"q1", "q2"}
    Pulls <- PullsMC
    MaxMail = 3
    EnvMixes <- EnvMixesMC
INVARIANTS ClusterShowsTheRows  NoUrlToNothing PreviewsAreRight
PROPERTY EveryPreviewGoes
CHECK_DEADLOCK FALSE
