SPECIFICATION AccessSpec
CONSTANTS
    Reqs = {"q1", "q2"}
    AuthMixes <- AuthMixesMC
    MaxPerAccount = 1
    LockWindow = 2
    MaxHashes = 1
    SessionTTL = 2
    MaxSessionLife = 1
    ReauthWindow = 1
    MaxClock = 3
    MaxPw = 2
    MaxSecrets = 2
    MaxSessions = 3
    People = {"ann", "bob", "cyd"}
    TeamIds = {"red", "blue"}
    Callers = {"x", "y"}
    MaxInvitations = 2
    MaxSetupAttempts = 2
    TeamMixes <- TeamMixesMC
    Servers = {s1}
    Requests = {q1}
    MaxOps = 2
    Mixes <- Together
INVARIANTS CodeAdmitsOnce NoOldSessions TeamKeepsAnOwner OneInvitationEach ServersAreLookedAfter
PROPERTIES RecordedNodeLeaves
CHECK_DEADLOCK FALSE
