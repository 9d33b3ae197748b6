SPECIFICATION WatchSpec
CONSTANTS
    Highs <- HighsMC
    CycleDays <- CycleDaysMC
    YearDays = 3
    Expressions <- ExpressionsMC
    Schedulers = {0, 13, 51, 90}
    Policies = {"p1", "p2"}
    ScheduleOf <- ScheduleOfMC
    LastMinute = 8
    CatchUpLimit = 3
    PruneEvery = 2
    Kept = 1
    OperationAge = 1
    AuditAge = 2
    MaxRows = 3
    TickMixes <- TickMixesMC
    WServers = {"s1", "s2"}
    WApps = {"a1"}
    Publishers = {p1, p2}
    Browsers = {b1}
    Topics = {1, 2}
    MaxSeq = 3
    Buffer = 1
    HistoryLimit = 2
    MaxTopics = 1
    HubFaults = {"disconnect", "sweep", "restart"}
    WatchMixes <- AppMixMC
PROPERTY LostAppIsNoticed
CHECK_DEADLOCK FALSE
