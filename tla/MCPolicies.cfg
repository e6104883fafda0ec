SPECIFICATION Spec
CONSTANTS
    Focus = {"hsts", "tls", "grants", "credentials", "routes", "keys", "timeouts", "calls", "dials", "sends"}
    MaxTime = 2
    None = None
    Domains <- MCDomains
    Values <- MCValues
    MaxHosts = 2
    MaxAge = 2
    Chains = {c1, c2}
    Shards = 2
    ShardOf <- Shared
    Ip = Ip
    Certificates = {"c", "d"}
    MaxOverrides = 2
    Fetches = {f, g}
    Asks <- MCGrantAsks
    Grants <- MCGrants
    Views <- MCViews
    MaxValue = 2
    MaxSafelisted = 3
    MaxEntries = 1
    DefaultAge = 1
    MaxPreflightAge = 2
    Logins = {l, m}
    Responses <- MCChallenges
    Hooks <- MCHooks
    Paths <- MCPaths
    Secrets = {"old", "new"}
    Unsendable = {"a:b"}
    MaxSpaces = 1
    MaxDirs = 1
    Configs <- MCProxies
    Visits <- MCVisits
    Literals <- MCLiterals
    UsableProxies <- MCUsable
    FetchRequests <- MCRequests
    Locations <- MCLocations
    HstsHosts = {"b"}
    DefaultMixed = "block"
    MaxHops = 2
    FetcherConfigs <- MCFetchers
    TimedRequests <- MCTimed
    MaxRedirects = 2
    MaxAuth = 1
    Horizon = 28
    DialRequests = {r, s}
    Hosts <- MCHosts
    Addresses = {"outer", "inner", "lo4", "lo6"}
    Loopback = {"lo4", "lo6"}
    Answers <- MCAnswers
    Resolvers <- MCResolvers
    ProxyHost <- ProxyName
    PoolMax = 1
    Submissions <- MCSends
    Clients <- MCClients
    Places = {"a", "b"}
    MaxSends = 2
    MaxLen = 2
SYMMETRY Symmetry
INVARIANTS
    UpfrontWasProven
    ProxyIsTheClients
    SameKeySameWire
    TimeoutsHold
    OneShotKept
    DialledIsApproved
    ReportedIsSent
PROPERTIES
    PolicyKept
    SentIsGranted
    OverrideIsTheUsers
CHECK_DEADLOCK FALSE
