---------------------------- MODULE MCLifecycle -----------------------------
(***************************************************************************)
(* What observers see, on two small instances: Lifecycle with a leader and *)
(* a request that joins it, and HopReports with requests of a page at      *)
(* https://a and of the embedder.  The two have no state in common, and a  *)
(* behaviour is about one of them: its focus.                              *)
(***************************************************************************)
EXTENDS Lifecycle, HopReports

CONSTANTS r1, r2

VARIABLE focus

-----------------------------------------------------------------------------
(* The requests, and the redirects and other responses they meet.          *)

U(scheme, host, site) == [scheme |-> scheme, host |-> host, site |-> site]
HomePage == U("https", "a", "s")
PlainPage == U("http", "a", "s")
Away == U("https", "b", "s")
AwayPlain == U("http", "c", "t")
Ftp == U("ftp", "d", "")
Ask(url, method, mode, origin, credentials, hand) ==
    [url |-> url, method |-> method, mode |-> mode, origin |-> origin, credentials |-> credentials, hand |-> hand,
     destination |-> "image", mixed |-> "block", policy |-> "strict-origin-when-cross-origin",
     referrer |-> IF origin = None THEN None ELSE [at |-> origin, path |-> "p"],
     userinfo |-> FALSE, only_if_cached |-> FALSE]
MCAsks ==
    {Ask(HomePage, method, mode, HomePage, credentials, hand) :
        method \in {"GET", "POST"}, mode \in {"cors", "no-cors", "navigate"},
        credentials \in {"include", "same-origin"}, hand \in {{}, {"cookie", "authorization", "content-type"}}}
    \cup {Ask(HomePage, "PUT", "cors", HomePage, "include", {})}
    \cup {Ask(Away, method, "no-cors", None, "include", {"cookie", "referer", "origin", "content-length"}) :
        method \in {"GET", "POST", "CONNECT"}}
    \cup {[Ask(AwayPlain, "GET", "cors", HomePage, "omit", {}) EXCEPT !.mixed = mixed, !.userinfo = TRUE,
                !.referrer.path = "/", !.policy = p] :
        mixed \in {None, "allow", "block", "upgrade"}, p \in {"origin", "no-referrer", "unsafe-url"}}
    \cup {[Ask(HomePage, method, "same-origin", HomePage, "include", {}) EXCEPT !.only_if_cached = TRUE] :
        method \in {"GET", "CONNECT"}}
Turn(status, to, p, cookies, userinfo) ==
    [status |-> status, to |-> to, policy |-> p, cookies |-> cookies, userinfo |-> userinfo,
     more |-> FALSE, passes |-> TRUE]
MCTurns ==
    {Turn(status, to, p, cookies, FALSE) :
        status \in {302, 303, 307}, to \in {HomePage, Away, AwayPlain},
        p \in {None, "no-referrer"}, cookies \in BOOLEAN}
    \cup {Turn(307, to, None, FALSE, TRUE) : to \in {HomePage, Away}}
    \cup {Turn(307, to, None, FALSE, FALSE) : to \in {Ftp, U("https", "mail", "t"), U("http", "b", "s")}}
    \cup {Turn(status, None, None, FALSE, FALSE) : status \in {101, 200, 304, 401, 302}}
    \cup {[Turn(status, None, None, FALSE, FALSE) EXCEPT !.passes = FALSE] : status \in {200, 401}}
    \cup {[Turn(302, None, None, FALSE, FALSE) EXCEPT !.more = TRUE]}

Locations == {HomePage, PlainPage, Away, AwayPlain, Ftp, U("https", "c", "t"), U("http", "b", "s"),
              U("https", "mail", "t")}
Bare == [hsts |-> {}, allowed_bad_ports |-> {}, cache |-> FALSE, credentials |-> FALSE, mixed_content |-> "upgrade"]
Equipped == [hsts |-> {"b"}, allowed_bad_ports |-> {}, cache |-> TRUE, credentials |-> TRUE, mixed_content |-> "block"]
MCConfigs == {Equipped, [Bare EXCEPT !.allowed_bad_ports = {"mail"}]}
Browser == [is_url_allowed |-> Locations \ {AwayPlain}, cookies_for |-> {"a", "c"}, on_auth_challenge |-> TRUE]
MCContexts == {Browser}

\* The inputs are of the kinds the module is about.
ASSUME InputAssumption ==
    /\ ReportAssumption /\ RequestType(builder("GET", HomePage))
    /\ MCConfigs \subseteq FetcherConfig /\ {Browser, NullContext} \subseteq FetcherContext
    /\ \A cfg \in MCConfigs, ctx \in {Browser, NullContext} : build_policy(cfg, ctx) \in NetPolicy

-----------------------------------------------------------------------------
FocusInit ==
    /\ Init
    /\ \/ focus = "ends" /\ req = None /\ policy = None /\ chain = None
          /\ stage = None /\ wire = None /\ panel = [wrong |-> FALSE]
       \/ focus = "reports" /\ ReportInit

FocusNext ==
    /\ \/ focus = "ends" /\ Next /\ UNCHANGED reportVars
       \/ focus = "reports" /\ ReportNext /\ UNCHANGED vars
    /\ UNCHANGED focus

\* Nothing that is to be fair is enabled where Lifecycle stands still.
FocusSpec == FocusInit /\ [][FocusNext]_<<vars, reportVars, focus>> /\ Fairness
=============================================================================
