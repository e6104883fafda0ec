SPECIFICATION Spec
CONSTANTS
    Urls <- MCUrls
    Requests <- MCRequests
    Heads <- MCHeads
    Proxied <- MCUrls
    Known <- MCKnown
    Granted <- MCGranted
    Offers <- MCOffers
    Passwords = {"p"}
    Raw = Raw
    MaxRedirects = 2
    MaxAuth = 1
    Proxy = Proxy
    None = None
INVARIANTS
    SecretsStayHome
    DetourCounts
PROPERTIES
    ReferrerNeverGrows
    StoresStayTrue
    ChainRunsOut
CHECK_DEADLOCK FALSE
