----------------------------- MODULE Deadlines -----------------------------
(***************************************************************************)
(* The deadlines of one attempt at a fetch: which of the fetcher's and the *)
(* request's timeouts are in force (net/fetcher.rs), and the timers they   *)
(* start in the redirect chain (net/fetch/chain.rs), while the body is     *)
(* peeked at and read (net/fetch.rs), and in the pump of a streamed body   *)
(* (net/shared_body.rs).                                                   *)
(*                                                                         *)
(* Time passes in ticks.  A timer that is due goes off before the next     *)
(* tick; an event of the same moment may come first.  The embedder's       *)
(* resolver takes as long as it likes; its other callbacks, which are not  *)
(* awaited, take no time.  Cancellation and other failures only end a      *)
(* fetch sooner and are left out.                                          *)
(***************************************************************************)
EXTENDS Integers

CONSTANTS FetcherConfigs,   \* see FetcherConfig
          FetchRequests,    \* see Overrides
          MaxRedirects,     \* MAX_REDIRECTS
          MaxAuth,          \* answers to challenges, MAX_AUTH_ATTEMPTS of each party
          Horizon,          \* bound on the clock
          None

VARIABLE fetch

Duration == 1..Horizon

FetcherConfig == [req_timeout: Duration, read_idle_timeout: Duration,
                  total_body_timeout: Duration \cup {None}, redirect_timeout: Duration \cup {None}]

\* FetcherConfig::default in units of 15 seconds.
DefaultConfig == [req_timeout |-> 4, read_idle_timeout |-> 1, total_body_timeout |-> 12, redirect_timeout |-> 2]

\* What a request sets itself: None leaves it to the fetcher; the last two may also be lifted.
\* resolves: its hops may be address literals, which the embedder's resolver is asked about.
\* preflights: its hops need a preflight.  caches: the cache may answer them or have them
\* revalidated.  followed: the redirects behind a background revalidation, which takes up the
\* chain there.
Overrides == [req_timeout: Duration \cup {None}, read_idle_timeout: Duration \cup {None},
              total_body_timeout: Duration \cup {None, 0}, redirect_timeout: Duration \cup {None, 0},
              streaming: BOOLEAN, resolves: BOOLEAN, preflights: BOOLEAN, caches: BOOLEAN,
              followed: 0..MaxRedirects]

\* None is no time, and the limits are numbers.
TimesAssumption ==
    /\ None \notin Int /\ MaxRedirects \in Nat /\ MaxAuth \in Nat
    /\ FetcherConfigs \subseteq FetcherConfig /\ FetchRequests \subseteq Overrides

-----------------------------------------------------------------------------
(* The timeouts in force.                                                  *)

\* Option<Duration>::unwrap_or, and the same for an Option in an Option: 0 is Some(None).
unwrap_or(own, default) == IF own = None THEN default ELSE own
Lifted(own, default) == IF own = 0 THEN None ELSE unwrap_or(own, default)

effective_read_idle_timeout(req, cfg) == unwrap_or(req.read_idle_timeout, cfg.read_idle_timeout)
effective_total_body_timeout(req, cfg) == Lifted(req.total_body_timeout, cfg.total_body_timeout)

headers_timeout(req, cfg) ==
    IF req.streaming THEN unwrap_or(req.req_timeout, cfg.req_timeout) ELSE None

\* make_request_init, as far as it is about time.
make_request_init(req, cfg) ==
    [timeout |-> req.req_timeout, headers_timeout |-> headers_timeout(req, cfg),
     redirect_timeout |-> Lifted(req.redirect_timeout, cfg.redirect_timeout),
     read_idle_timeout |-> effective_read_idle_timeout(req, cfg),
     total_body_timeout |-> effective_total_body_timeout(req, cfg)]

client_deadline_kept(init, cfg) == unwrap_or(init.timeout, cfg.req_timeout)

\* hop_request and client_deadline: how long the client itself allows a send and its body,
\* None for NO_CLIENT_DEADLINE.
client_deadline(init, cfg) ==
    IF init.headers_timeout # None THEN None ELSE unwrap_or(init.timeout, cfg.req_timeout)

-----------------------------------------------------------------------------
(* One fetch, in the phase resolve, preflight, plan, wait, peek, read,     *)
(* listen, stream or done.  turned and answered remember the first         *)
(* redirect and the headers, hits the redirects that came from the cache,  *)
(* waited_first and waited_later what the resolver took before the first   *)
(* redirect and after it, cut the phase a timer ended.                     *)

After(at, d) == IF d = None THEN None ELSE at + d

\* A hop begins: a resolver has its say first, where there is one to ask.
NewHop(f) == [f EXCEPT !.phase = "resolve", !.answers = 0, !.revalidating = FALSE]

DeadlineInit ==
    \E cfg \in FetcherConfigs, req \in FetchRequests :
        LET init == make_request_init(req, cfg)
        IN  fetch = NewHop([cfg |-> cfg, req |-> req, init |-> init, clock |-> 0, phase |-> "resolve",
                            sent |-> 0, redirects |-> req.followed, answers |-> 0, revalidating |-> FALSE,
                            redirect_deadline |-> IF req.followed > 0 THEN After(0, init.redirect_timeout) ELSE None,
                            body_deadline |-> None, silent |-> 0, answered |-> None, cut |-> None,
                            turned |-> IF req.followed > 0 THEN 0 ELSE None,
                            hits |-> 0, waited_first |-> 0, waited_later |-> 0])

\* The timers that run, each with the moment it goes off.
Timers ==
    LET f      == fetch
        client == After(f.sent, client_deadline(f.init, f.cfg))
        idle   == f.silent + f.init.read_idle_timeout
        Body   == [idle |-> idle, total |-> f.body_deadline]
    IN  CASE f.phase = "preflight" -> [client |-> f.sent + f.cfg.req_timeout]
          [] f.phase = "wait" -> [client |-> client, headers |-> After(f.sent, f.init.headers_timeout),
                                  redirect |-> f.redirect_deadline]
          [] f.phase \in {"peek", "read"} -> [client |-> client, idle |-> idle, total |-> f.body_deadline]
          [] f.phase \in {"listen", "stream"} -> Body
          [] OTHER -> <<>>

Due(t) == Timers[t] # None /\ Timers[t] <= fetch.clock

Expire ==
    \E t \in DOMAIN Timers :
        /\ Due(t)
        /\ fetch' = [fetch EXCEPT !.phase = "done", !.cut = fetch.phase]

\* check_ip_literal waits for the resolver, which no timer bounds; nothing waits while the
\* cache is asked.
Tick ==
    /\ fetch.phase \notin {"plan", "done"} /\ fetch.clock < Horizon
    /\ fetch.phase = "resolve" => fetch.req.resolves
    /\ \A t \in DOMAIN Timers : ~Due(t)
    /\ LET waits == fetch.phase = "resolve"
       IN  fetch' = [fetch EXCEPT !.clock = @ + 1,
                                  !.waited_first = IF waits /\ fetch.redirects = 0 THEN @ + 1 ELSE @,
                                  !.waited_later = IF waits /\ fetch.redirects > 0 THEN @ + 1 ELSE @]

Resolved ==
    /\ fetch.phase = "resolve"
    /\ fetch' = IF fetch.req.preflights THEN [fetch EXCEPT !.phase = "preflight", !.sent = fetch.clock]
                ELSE [fetch EXCEPT !.phase = "plan"]

PreflightDone ==
    /\ fetch.phase = "preflight"
    /\ fetch' = [fetch EXCEPT !.phase = "plan"]

\* Nothing that is stored answers the hop: it is sent, perhaps to revalidate what is.
Sent ==
    /\ fetch.phase = "plan"
    /\ \E revalidating \in {FALSE, fetch.req.caches} :
          fetch' = [fetch EXCEPT !.phase = "wait", !.sent = fetch.clock, !.revalidating = revalidating]

\* await_response got its response: no answer beats a budget that was spent before it was sent.
Responding ==
    /\ fetch.phase = "wait"
    /\ fetch.redirect_deadline # None => fetch.sent < fetch.redirect_deadline

\* The budget runs from the first redirect.
redirect_budget(f) ==
    IF f.redirect_deadline # None THEN f.redirect_deadline ELSE After(f.clock, f.init.redirect_timeout)

follow_redirect(f) ==
    NewHop([f EXCEPT !.redirects = @ + 1, !.redirect_deadline = redirect_budget(f),
                     !.turned = unwrap_or(@, f.clock)])

Redirected == Responding /\ fetch.redirects < MaxRedirects /\ fetch' = follow_redirect(fetch)

\* A hop the cache answers waits for no response, so nobody looks at the budget.
HitRedirect ==
    /\ fetch.phase = "plan" /\ fetch.req.caches /\ fetch.redirects < MaxRedirects
    /\ fetch' = follow_redirect([fetch EXCEPT !.hits = @ + 1])

\* A challenge is answered, or a 304 confirms another version than the stored one and the hop
\* is asked without conditions, once: it is sent again, with timeouts of its own.
Answered ==
    /\ Responding /\ fetch.answers < MaxAuth
    /\ fetch' = [fetch EXCEPT !.answers = @ + 1, !.sent = fetch.clock]

Contradicted ==
    /\ Responding /\ fetch.revalidating
    /\ fetch' = [fetch EXCEPT !.revalidating = FALSE, !.sent = fetch.clock]

\* The headers are there, and the budget of the body begins.
Answer(phase) ==
    fetch' = [fetch EXCEPT !.phase = phase, !.silent = fetch.clock, !.answered = fetch.clock,
                           !.body_deadline = After(fetch.clock, fetch.init.total_body_timeout)]

Headers == Responding /\ Answer("peek")

\* A stored body is in memory: it is read at once, or waits for its first subscriber.
Stored ==
    /\ \/ fetch.phase = "plan" /\ fetch.req.caches
       \/ Responding /\ fetch.revalidating
    /\ Answer(IF fetch.req.streaming THEN "listen" ELSE "done")

Chunk ==
    /\ fetch.phase \in {"peek", "read", "stream"}
    /\ fetch' = [fetch EXCEPT !.silent = fetch.clock]

\* perform_streaming hands over what is left of the budget, which from_reader adds to its own now.
remaining(f) ==
    IF f.body_deadline = None THEN None
    ELSE f.clock + (IF f.body_deadline > f.clock THEN f.body_deadline - f.clock ELSE 0)

\* The peek is over: a buffered fetch reads on, a streamed one waits for its first subscriber.
Peeked ==
    /\ fetch.phase = "peek"
    /\ fetch' = IF fetch.req.streaming
                  THEN [fetch EXCEPT !.phase = "listen", !.silent = fetch.clock, !.body_deadline = remaining(fetch)]
                  ELSE [fetch EXCEPT !.phase = "read", !.silent = fetch.clock]

Subscribed ==
    /\ fetch.phase = "listen"
    /\ fetch' = [fetch EXCEPT !.phase = "stream", !.silent = fetch.clock]

BodyEnd ==
    /\ fetch.phase \in {"peek", "read", "stream"}
    /\ fetch' = [fetch EXCEPT !.phase = "done"]

DeadlineNext ==
    \/ Expire \/ Tick \/ Resolved \/ PreflightDone \/ Sent \/ Redirected \/ HitRedirect
    \/ Answered \/ Contradicted \/ Headers \/ Stored \/ Chunk \/ Peeked \/ Subscribed \/ BodyEnd

DeadlineSpec == DeadlineInit /\ [][DeadlineNext]_fetch

-----------------------------------------------------------------------------
(* Property.                                                               *)

\* What the caller asked for, read from the documentation of the timeouts.
Allowed == unwrap_or(fetch.req.req_timeout, fetch.cfg.req_timeout)
Preflighting == IF fetch.req.preflights THEN fetch.cfg.req_timeout ELSE 0

\* The longest a fetch may take to its response headers, beside what the resolver takes: its
\* first hop, sent again for each challenge it answers and for a 304 that names another
\* version, then the budget for the redirects.  Outside that budget are the preflight of the
\* last hop and those of the redirects the cache answered.
HeadLimit ==
    LET sends  == 1 + MaxAuth + IF fetch.req.caches THEN 1 ELSE 0
        hop    == Preflighting + sends * Allowed
        budget == Lifted(fetch.req.redirect_timeout, fetch.cfg.redirect_timeout)
    IN  fetch.waited_first + fetch.waited_later
        + hop + (IF fetch.redirects = 0 THEN 0
                 ELSE IF budget = None THEN fetch.redirects * hop
                 ELSE budget + (1 + fetch.hits) * Preflighting)

\* The documentation's reasons to give up on a fetch that is in this phase.
Overdue(f, phase) ==
    LET total  == Lifted(f.req.total_body_timeout, f.cfg.total_body_timeout)
        budget == Lifted(f.req.redirect_timeout, f.cfg.redirect_timeout)
        Passed(since, d) == d # None /\ since # None /\ f.clock - since >= d
        body   == \/ Passed(f.silent, unwrap_or(f.req.read_idle_timeout, f.cfg.read_idle_timeout))
                  \/ Passed(f.answered, total)
    IN  CASE phase = "preflight" -> Passed(f.sent, f.cfg.req_timeout)
          [] phase = "wait"      -> Passed(f.sent, Allowed) \/ Passed(f.turned, budget)
          [] OTHER               -> body \/ (~f.req.streaming /\ Passed(f.sent, Allowed))

\* But for what the embedder's resolver takes, a fetch is over in time, and not before its time.
\* Its head has the first hop and the redirect budget, however many hops there are, with a
\* preflight more for each redirect the cache answers; a buffered body is read within the request
\* timeout of its hop, a streamed one within the body timeouts and is never cut by the request
\* timeout, however long it takes; and a request's own timeouts count where it set them
\* (FetcherConfig, make_request_init, client_deadline, perform_streaming).
TimeoutsHold ==
    LET f     == fetch
        total == Lifted(f.req.total_body_timeout, f.cfg.total_body_timeout)
        over  == f.phase \in {"peek", "read", "listen", "stream"} /\ Overdue([f EXCEPT !.clock = @ - 1], f.phase)
    IN  /\ f.phase \in {"resolve", "preflight", "plan", "wait"} => f.clock <= HeadLimit
        /\ f.phase # "done" /\ total # None => f.clock <= HeadLimit + total
        /\ ~over
        /\ f.cut # None => Overdue(f, f.cut)
=============================================================================
