-------------------------- MODULE RequestPolicies --------------------------
(***************************************************************************)
(* The stores and rules that requests consult, side by side: HSTS and      *)
(* certificate overrides, preflight grants, credentials, proxy routes,     *)
(* request keys, timeouts, dials and sends.  They have nothing but the     *)
(* clock in common.                                                        *)
(***************************************************************************)
EXTENDS TlsOverrides

CONSTANTS DialRequests, Hosts, Addresses, Loopback, Answers, Resolvers, ProxyHost, PoolMax,
          Configs, Visits, Literals, UsableProxies,
          FetchRequests, Locations, HstsHosts, DefaultMixed, MaxHops,
          Submissions, Clients, Places, MaxSends, MaxLen,
          FetcherConfigs, TimedRequests, MaxRedirects, MaxAuth, Horizon,
          Fetches, Asks, Grants, Views, MaxValue, MaxSafelisted, MaxEntries, DefaultAge, MaxPreflightAge,
          Logins, Responses, Paths, Secrets, Hooks, Unsendable, MaxSpaces, MaxDirs

VARIABLES refused, names, pool, dials, asked,
          routes, wire,
          pair, walk, hops,
          req, client, chain, file, sends, last,
          timing,
          cache, fetch, given,
          entries, login, proven, raced

R == INSTANCE Routes WITH Addresses <- Literals, Destinations <- Visits
K == INSTANCE RequestKey WITH Requests <- FetchRequests
D == INSTANCE Deadlines WITH fetch <- timing, FetchRequests <- TimedRequests
S == INSTANCE Sending WITH Requests <- Submissions
G == INSTANCE Dialing WITH req <- asked
P == INSTANCE Preflights
C == INSTANCE Credentials

-----------------------------------------------------------------------------
(* What may be relied on, beside PolicyKept and OverrideIsTheUsers.        *)

\* What goes to another origin has a grant that covers it and has not run out
\* (cors/preflight.rs, HopChain::preflight).
SentIsGranted == P!SentIsGranted

\* Credentials go out unasked only where they were let in (auth.rs, AuthSlot::accepted).
UpfrontWasProven == C!UpfrontWasProven

\* The proxy's credentials are for the proxy the client really goes through (proxy.rs).
ProxyIsTheClients == R!ProxyIsTheClients

\* Requests that share a fetch send the same, at every hop (FetchRequest::request_key).
SameKeySameWire == K!SameKeySameWire

\* A fetch is over in time and not before its time (FetcherConfig, client_deadline).
TimeoutsHold == D!TimeoutsHold

\* A hop goes to no address the resolver refuses, however names are rebound (net/dns.rs).
DialledIsApproved == G!DialledIsApproved

\* What RequestSent tells is what is sent, framed as its body is (HopChain::hop_request).
ReportedIsSent == S!ReportedIsSent
=============================================================================
