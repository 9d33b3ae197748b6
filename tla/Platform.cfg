SPECIFICATION PlatformSpec
CONSTANTS
    PluginIds <- PluginIdsMC
    LabelWords = 3
    Manifests <- ManifestsMC
    KeyOf = {"url"}
    PTeams = {"t1", "t2"}
    PluginMixes <- PluginMixesMC
    Channels = {"c1", "c2"}
    Drafts <- DraftsMC
    NotifyMixes <- NotifyMixesMC
    Trees <- TreesMC
    Laptops = {"l1", "l2"}
    UApps = {"a1", "a2"}
    Versions = {"v1", "v2", "odd"}
    ArchiveOf <- ArchiveOfMC
    Limits <- LimitsMC
    Keep = 1
    UploadMixes <- UploadMixesMC
INVARIANTS TokensAreAccountedFor  GoneMeansTold SentIsWhatGitKeeps BuildsWhatWasSent
CHECK_DEADLOCK FALSE
