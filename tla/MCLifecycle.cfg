SPECIFICATION FocusSpec
CONSTANTS
    r1 = r1
    r2 = r2
    Nothing = Nothing
    Requests = {r1, r2}
    Leader = r1
    MaxReports = 2
    None = None
    Submissions <- MCAsks
    Replies <- MCTurns
    Configs <- MCConfigs
    Contexts <- MCContexts
    Urls <- Locations
    BadPorts = {"mail"}
    MaxRedirects = 2
INVARIANTS
    OneOwnEnd
    EveryChangeTold
PROPERTY
    EveryRequestEnds
CHECK_DEADLOCK FALSE
