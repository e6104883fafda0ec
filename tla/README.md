# A formal model of gosub-sonar

TLA+ modules for the networking core of gosub-sonar (`src/src/net`), the TLC
configurations that check them on small instances, and TLAPS proofs that hold for
every instance. A definition keeps the name of the Rust item it models where there is
one; `PROJECT.json` gives its lines under `map`.

Contents: [the system](#the-system), [the modules](#the-modules), [the
runs](#the-runs), [fairness](#fairness), [the proofs](#the-proofs), [what the work
found](#what-the-work-found), [what is not modelled](#what-is-not-modelled), [the
plan](#the-plan).

## The system

A host (a browser engine) submits requests to a `Fetcher`. The fetcher queues them by
priority, joins equal ones to one fetch, bounds the connections per origin and in
total, follows redirects under the web's policies, caches, retries, and hands each
caller a buffered or a streamed body, while an observer per request is told what
happens. Everything is asynchronous: the run loop, a task per fetch, a watcher per
request, the pump of each streamed body, and the host's own threads interleave at every
`await` and at every lock.

| Component | State | Operations | Meets | Hard because |
|---|---|---|---|---|
| Scheduler queue, run loop (`fetcher.rs`, `fetcher/native.rs`) | four lanes, `stopped`, two `Notify` permits, `lane_counter` | `submit`, `run`, `run_loop`, `next_item`, `stop_queue`, `revalidate_later`, `queue_revalidations` | callers, the host's shutdown token, coalescing | a submission races the drain of a shutdown; a wake-up between the empty check and the sleep; a restart before the old loop ended |
| Coalescing (`fetcher.rs`, `utils.rs`, the key in `types.rs`) | `inflight_map`, the subscriber count and `parent_cancel` of an entry, the `Waiter`'s listeners | `join_inflight`, `try_inc_sub`, `accept`, `refuse`, `spawn_fetch`, `Waiter::{cancel, finish}`, `watch_caller`, `request_key` | slots, lifecycle, shared body | a request joins a fetch the last subscriber is leaving; the entry is removed and the waiter drained in two steps; an entry of a stopped run is found by a new one; requests of one key part ways at a later hop |
| Connection slots (`slots.rs`) | global and per-origin counters, lanes of waiters, the position in the weighted cycle | `enqueue`, `grant`, `Ticket::wait`, drops, `observe` | the task of every fetch | tickets are dropped without the lock, in the middle of a grant; the limit of an origin rises |
| Lifecycle events (`lifecycle.rs`) | `ended` per request, `Shared`: attached requests and the fetch's end | `accept`, `attach`, `detach`, `on_event`, `Drop` | the loop, the task, the watcher, the host's observer | three threads race to report the end of one request |
| Shared body and pump (`shared_body.rs`, `pump.rs`) | subscribers and their queues, the replay buffer, end and error; the temporary file | `subscribe*`, `push`, `push_wait`, `finish`, `error`, `from_reader`, `spawn_pump` | body reading, callers | chunks are delivered from a snapshot of the subscribers; lagging ones are dropped; nobody may be left to read; either target of the tee fails alone |
| Body reading and retries (`fetch.rs`, `retry.rs`, `body_capture.rs`) | progress, limits and timers of one response; attempts made, the held end of an attempt | `fetch_response_top`, `ProgressReader`, `fetch_response_complete`, `with_retries`, `AttemptView` | lifecycle, shared body, cache | end, limit, timeout and cancellation race; an end is only known to be one when no retry follows |
| Redirect chain (`fetch/chain.rs` and its `native.rs`) | the hop, its credentials, the url list, preflight grants | `get_with_redirects`, `send`, `follow_redirect`, `hop_request` | policies, cache, auth and its store | three kinds of retries inside one hop; credentials must not cross origins; what is reported must be what is sent |
| HTTP cache (`cache.rs`, `fetch/native.rs`) | entries and variants, bytes, LRU order | `get`, `put`, `invalidate`, eviction, `PendingStore`, `CacheCollector` | redirect chain, body reading | a store is committed long after it was decided; clocks differ |
| HSTS, TLS overrides, credentials, preflight grants (`hsts.rs`, `tls.rs`, `auth.rs`, `cors/preflight.rs`) | bounded stores, each with its lifetimes | `record`, `should_upgrade`, `verify_server_cert`, `store`, `accepted_at`, `upfront_for`, `InMemoryPreflightCache` | every chain | stores are shared by chains that overlap, one call or one lock at a time; entries run out, are renewed and evicted while they are relied on |
| Policies (`cors.rs`, `mixed_content.rs`, `referrer.rs`, `fetch_metadata.rs`, `port_blocking.rs`) | none | decisions over a request and its chain | redirect chain | wide decision tables that must agree over many hops |
| Proxies, DNS, dials (`proxy.rs`, `dns.rs`, `transport.rs`, `connect_timing.rs`, `fetcher/native.rs`) | rules, the client's pool of connections | `proxy_authorization`, `ReqwestResolver`, `check_ip_literal`, `build_client`, `classify_send_error` | the HTTP client (external) | the crate and the client must read the same rules alike; a name may resolve to something else at each step |
| Timeouts and configuration (`fetcher.rs`, `fetch.rs`, `fetcher_context.rs`) | timers | `make_request_init`, `client_deadline`, `build_policy` | chain, body reading | six timeouts that start and stop at different moments, and waits that none of them covers |
| One-shot API (`simple.rs`, `decode.rs`, `http/response.rs`) | one call | `simple_get`, `sync_get`, `sync_fetch`, `decoded` | the HTTP client | redirects, limits and codings without the fetcher's machinery |

What makes each correct:

* the queue: nothing submitted is stranded, the loop never sleeps on work, no priority
  starves;
* coalescing: every caller gets exactly one answer, of the kind it asked for, and never
  the cancellation of somebody else; a fetch goes on while anybody wants it and stops
  when nobody does; requests that share a fetch would have sent the same;
* slots: none is lost, none is granted twice, none idles while a fetch could use it;
* lifecycle: one `Accepted` and one end per request, the right one;
* bodies: a clean end, a cache entry or a file with the final name means the whole body;
  nobody's slowness damages somebody else's stream; an abandoned body lets its connection
  go;
* the chain: it ends, secrets stay with their addressees, a detour is never forgotten, a
  cross-origin write has its grant, and the observer knows what was sent;
* the cache: what it answers is as fresh as its directives promise, and a write is not
  undone by what was stored before it;
* the stores: neither laxer nor stricter than what was declared, granted or accepted.

`PROJECT.json` lists the hazards behind these, each at its line with the properties that
would catch it.

## The modules

### The fetcher

**`SlotPool`** (`slots.rs`). The pool's mutex is `locked`: an operation takes it and
enters `grant`, whose loop is one action per iteration (`Grant`, `GrantUnsent`,
`GrantDone`), so that tickets can be dropped (`GiveUp`) between the `retain` that opens
the loop and the send that serves a waiter. A lane (`VecDeque`) is the set of its waiters
together with `ahead`, who stood before whom, which is all the code reads of the order.
`lane_order` is the 15-step cycle of the code. `passed` is a history variable: how often
in a row a lane with a waiter that can go was passed over.

**`Scheduler`** (`fetcher.rs`, `fetcher/native.rs`). `submit` takes the lock of one lane,
`stop_queue` those of all four, so each is one step; `run` stores `stopped` without a
lock; the loop of each run is a program counter (`Top`, `queue_revalidations`,
`next_item`, `Handed`, `wait_for_work`, `stop_queue`). A `Notify` is its one permit.
Several runs can be alive when `Overlap` allows the host to call `run` before the
cancelled loop has ended. A request that was answered may be submitted again, which is
how a busy host looks. A background revalidation is pushed (`revalidate_later`) and leaves its
permit (`notify_ready`) in two steps.

**`Coalescing`** (`fetcher.rs`, `utils.rs`, `lifecycle.rs`). Callers, the run loop, the
task of each fetch and the watcher of each request, over the in-flight map and its
entries. An entry is named by the request that leads it. `join_inflight` is one step, as
it runs under the shard lock of the map; `remove_if` and `finish` are two, and so are
the steps of a watcher (`watch_cancel`, `watch_dec`, `watch_fire`, `watch_detach`). What
the network does is a choice among the results the code tells apart. A streamed body that
buffered callers joined is collected for them (`finish_collected`).

**`FetchPromise`** is the abstract specification of what a caller of `submit` may rely
on: one answer; a cancellation only of its own or of a fetcher that was shut down; a
stream only if it asked for one. `Coalescing` implements it (`KeepsPromise`), under the
mapping that forgets everything but the requests asked, the tokens, the runs shut down and
the answers.

**`RequestKey`** (`types.rs`, `admit` and `make_request_init`) is what justifies
`Coalescing` in treating requests of one key as one: two requests with the same
`request_key` walk side by side over whatever redirects come, by the rules of `HopRules`,
and what each would put on the wire is compared.

**`Lifecycle`** (`lifecycle.rs`, with `accept` and `watch_caller`). `on_event` is two
steps, the decision (an atomic swap or load of `ended`) and the emission, so that the
events of the task, the loop and the watchers interleave as they can in the code. The
runtime may be dropped with all tasks (`Teardown`), after which `Drop` reports.

### Bodies

**`SharedBody`** (`shared_body.rs`). The producer takes a snapshot of the subscribers
under the lock (`read`) and then delivers to one subscriber per step (`try_deliver`,
`send`), while subscribers come, read and go. `waits` says which producer it is: the pump
of `from_reader` (with `push_wait`, a size limit, the wait for a first subscriber, and
abandonment), or one that calls `push`. Chunks are numbered and of one size, so the byte
limits of the code count chunks here. Timeouts and cancellations are `error`, possible at
any moment the code selects on them.

**`Pump`** (`pump.rs`) extends `SharedBody` with the tee that is its second producer: the
peek, a push and a write per chunk, the temporary file and its rename, and a failure of
either target, of the source, or a cancellation, at every step.

**`Transfer`** (`fetch.rs`, `retry.rs`, `body_capture.rs`, the collector of
`fetch/native.rs`). One fetch over all its attempts: the send (one step; `RedirectChain`
has its inside), the peek, `ProgressReader` and its drop, the buffered loop, a streaming
reader that reads as far as it likes, limits on either side of the peek, lengths that are
wrong, what is offered to the cache, the preview for the observer, and `AttemptView`, which
holds back an attempt's end until no retry follows. Bytes are counted in small units.

**`Deadlines`** (`fetcher.rs`, `fetch/chain.rs`, `fetch/chain/native.rs`, `fetch.rs`,
`shared_body.rs`). Which of the fetcher's and the request's timeouts are in force and the timers
they start, over the hops, the peek, a buffered body and a streamed one. A hop begins with the
embedder's resolver (`resolve`, `check_ip_literal`), which is awaited under no timer, and its
preflight; then the cache is asked (`plan`), which may answer it, and a redirect out of the cache
(`HitRedirect`) passes no `await_response` and so no look at the redirect budget. What is sent may
be sent again, each time with a timeout of its own: for each challenge answered (`Answered`) and
once for a 304 that names another version than the stored one (`Contradicted`). Time passes in
ticks; a timer that is due goes off before the next one. The embedder's other callbacks are
synchronous and take no time.

### The chain

**`HopRules`** (`mixed_content.rs`, `referrer.rs`, `fetch_metadata.rs`, `cors.rs`): the
rules a hop is judged by, as operators over requests, URLs and chains. `RedirectChain`,
`RequestKey` and `HopReports` build on it.

**`RedirectChain`** (`fetch/chain.rs`, `fetch/chain/native.rs`). One request from its first
hop to its end. `Hop` is everything up to the preflight (`secure_url`,
`enter_cors_regime`, `set_referrer`, `set_fetch_metadata`), `Preflight` the answer to one,
`Hit` and `Send` the two ways on from the plan, and the loop of `send` is
`ReceiveBlocked`, `Contradicted`, `Validated`, `Final` and `Challenged`, after which
`Settle` ends the chain or follows the redirect. `chain` is `HopChain`: a URL is its
origin, a set of headers is what the properties tell apart of it (what the caller set by
hand, the cookie and whose it is). The stores a chain shares with others (`hsts`, `creds`,
`preflights`) are variables. What a server sends and what the HTTP cache holds is any
response with one of the `Heads`. A stale answer leaves a revalidation, which `Resume`
starts when the chain has ended; it may end at any step, so the stores can be in any
state of the chain by then, but the two are not interleaved. `granted` and `asked` are
history: every grant ever made, and what the jar was asked for.

**`HopReports`** (`events.rs`, `build_policy`, the reporting of `fetch/chain.rs`). The same
chain, seen by its observer: from `Fetcher::admit` and `build_policy` on, each step comes
with the events it reports, and `panel` is an observer that knows the caller's request, its
own cookie jar and nothing but the events. How a response is judged is any outcome the code
has, so this module keeps fewer details of a hop than `RedirectChain` and more of its
events.

**`Sending`** (`make_request_init`, `HopChain::start`, `hop_request`, `order_hop_headers`,
`RequestBody`). What is put on the wire at each send of a hop, the order of headers, bodies
in memory, in files that change meanwhile and of unknown length, and what the client adds.

### The stores and rules a request consults

* **`CacheRules`** and **`HttpCache`** (`cache.rs`, `fetch/native.rs`,
  `fetch/chain/native.rs`). The first has the directives, age, freshness, storability,
  variants and validators as operators; the second the in-memory store and fetches that look
  up, ask, read and commit in steps of their own, while the server is written to and its
  answers take their time. Variants are told apart as `put` does it, by the list of selecting
  headers as the response wrote it and the decoding. `src` is what really is behind a stored
  response (its version,
  its true age, the skew of the server's clock), which only the properties read.
* **`Hsts`** (`hsts.rs`): the header, hosts and subdomains, expiry, and the bounded store, to which
  chains record side by side. `InMemoryHstsStore::store` is the calls it makes of its `DashMap`,
  one action per lock (`is_full`, `contains_key`, `read_clock`, `retain`, `min_by_key`, `evict`,
  `insert`): `len`, `retain` and `iter` go from shard to shard, and the guards an iterator holds
  keep writers out of the shards it is in. `declared` (each host's last word) and `seen` (what a
  chain that makes room may have met) are history.
  **`TlsOverrides`** (`tls.rs`) extends it with the verifier and the store of accepted
  certificates, which HSTS overrules.
* **`Preflights`** (`cors.rs`, `cors/preflight.rs`): which requests need a grant, what makes
  one, the cache of grants with its lifetimes and its limit, and what a page may read.
* **`Credentials`** (`auth.rs`): challenge headers down to their elements, protection
  spaces, directories, and the store under several logins at once; each call on the store
  is a step.
* **`Routes`** (`proxy.rs`): the rules and bypass lists, read by the client and by the crate.
* **`Dialing`** (`dns.rs`, `transport.rs`, `connect_timing.rs`, `build_client`): names that
  are rebound, dials that outlive their request, pooled connections, what a failed send is
  called. The client is external, as the code sets it up.
* **`OneShot`** (`simple.rs`, `decode.rs`, `port_blocking.rs`, `http/response.rs`): one call
  of the one-shot API.

`MC*` modules give the constants of the runs; `RequestPolicies` brings the modules of the
`policies` run together. `Parts` has what `retain` leaves of a list,
said without `SelectSeq`, which proofs cannot look into. `QueueProofs` (of `SlotPool` and
`Scheduler`), `CoalescingProofs`, `LifecycleProofs` (also of `HopReports`),
`SharedBodyProofs` (also of `Pump`), `TransferProofs`, `RedirectChainProofs`,
`HttpCacheProofs` and `PolicyProofs` (of the stores and rules a request consults, and of
`Sending`, `RequestKey` and `Deadlines`) hold the proofs. Definitions named like another with a suffix
(`release_keeps_origin` beside `release`) are faulty variants: each property is shown to
fail when the variant takes the place of the real definition, which shows that the property
can see that fault.

## The runs

| Run | Instance | Shows |
|---|---|---|
| `slot_pool` | 3 fetches, 2 origins, 4 lanes, 2 slots, limits 1 and 2 | the books of the pool are right (`SlotsAccounted`); no slot idles while a fetch could use it (`NoSlotIdles`); the bound of the weighted cycle (`LaneServedWithinCycle`) |
| `coalescing` | 3 requests for one key, 1 of them streaming | nobody is cancelled while wanted (`NotCancelledUnderReader`); `OneFetchPerKey`; no request is left open by a fetch that ended (`EveryRequestEnds`); deadlock freedom |
| `coalescing_restart` | 2 requests, 2 runs, 1 shutdown, a network that may stall | nobody gets another's cancellation (`NoForeignCancel`); `KeepsPromise`; only the network keeps a caller waiting, and not one that cancelled (`CallersAnswered`) |
| `scheduler` | a High, an Idle request and a Low revalidation, 2 runs | `NoneStranded`, `OpenWhileRunning`, `NoLostWakeup`, no starvation (`QueuedIsTaken`) |
| `scheduler_overlap` | 2 requests, overlapping runs | a violation: see below |
| `lifecycle` | a leader and a joiner, 2 events before the end; and, in other behaviours, 42 requests, 49 responses, 2 redirects, 2 configurations | one end, the right one (`OneOwnEnd`), always one (`EveryRequestEnds`); and the observer knows every hop from the events before it (`EveryChangeTold`, of `HopReports`) |
| `shared_body` | a stream, a lossless and a live subscriber, 3 chunks, queues of 1, replay of 1, size limits 2 and 3; the pump of `from_reader` and the tee with either target or both | order, completeness, lossless delivery, who may come late (`BodyDelivered`); a file with its final name is whole (`FileIsWhole`); abandonment and termination (`StreamsEnd`) |
| `redirect_chain` | 7 requests, 2 hosts, one over http too, 2 redirects, 1 answer per party, 3 sets of response headers | who sees credentials and cookies (`SecretsStayHome`); tainting, Origin, Sec-Fetch-Site, grants (`DetourCounts`); `ReferrerNeverGrows`; what is left in shared stores (`StoresStayTrue`); termination (`ChainRunsOut`) |
| `http_cache` | 2 fetches, 2 URLs, 2 partitions, a budget that two entries nearly fill, `Vary` lists that name a header once or twice, 2 moments, 1 write | the books of the store (`Accounted`); freshness in true time, of 10 kinds of requests (`AnswersStandUp`); what an overwritten version needs to come back (`OldWasOvertaken`) |
| `transfer` | a peek of 1, bodies of up to 3, limits inside and beyond the peek, entries of up to 2, a retry | nothing passes for whole that is not (`WholeOrNothing`); one end over all attempts, a count that grows, an honest preview (`ToldTrue`); `EveryFetchEnds` |
| `transfer_error` | the same | a violation: see below |
| `policies` | ten parts, each with an instance of its own, see below | ten properties, one for each part |

`policies` is one run over the modules that have nothing but a clock in common:
`RequestPolicies` puts them side by side under one letter each, `MCPolicies` adds the
one-shot calls and gives each part its instance, and a behaviour picks its `focus` and stays
with it.

| Focus | Instance | Property |
|---|---|---|
| `hsts` | 2 chains that record at once, 3 domains, two of them nested, a store of 2 in 2 shards, 6 headers, lifetimes up to 2, a clock up to 1 | `PolicyKept`: forces https only on hosts that are bound, and gives a policy up only for cause |
| `tls` | 2 hosts, 2 certificates, a store of 2, 3 kinds of errors | `OverrideIsTheUsers`: what was refused stands only by the user's word for this certificate and host, and never against HSTS |
| `grants` | 2 fetches, 3 requests, 3 preflight answers, a cache of 1 | `SentIsGranted`: a grant that covers the request and has not run out |
| `credentials` | 2 logins, 3 paths, a server with two challenge headers, one unanswerable, and a proxy, a store of 1 space with 1 directory | `UpfrontWasProven`: goes out unasked only where these very credentials were let in |
| `routes` | some 770 configurations, 16 destinations | `ProxyIsTheClients`: the crate and the client agree which proxy, if any, a request goes through |
| `keys` | pairs of some 160 requests, 2 redirects | `SameKeySameWire` |
| `timeouts` | 2 redirects, a challenge, preflights, a resolver, a cache that answers, redirects and is contradicted, 8 settings, a horizon above every bound | `TimeoutsHold`: but for the resolver, over in time; and not before its time |
| `calls` | calls of both kinds, 8 responses, 2 redirects | `OneShotKept` |
| `dials` | 2 requests for a name, a localhost and a literal, 4 addresses, 3 resolvers, direct and proxied | `DialledIsApproved`: no address the resolver refuses |
| `sends` | all bodies, header sets and methods, 2 clients, 2 places, 2 sends | `ReportedIsSent`: what `RequestSent` tells is what goes out, framed as its body is |

Why the bounds are enough to be interesting. Three fetches over two slots make a waiter,
a holder and a ticket dropped during a grant coincide; the pool has more requests than
slots, and an origin full while a global slot is free. Three requests on one key are the
fewest in which one leads, one leaves, and a third joins between the two, and in which an
abandoned leader can meet the entry of its successor. Two runs are the fewest that overlap.
A queue of one chunk is full after one push, a replay limit of one is passed by the second
chunk, and a body of three is exactly at one size limit and past the other. Two redirects
are the fewest that go abroad and come back, and each request that stands for a kind (a
script's write with and without credentials, markup, a same-origin form, a link, the host's
own request with headers of its own) meets every response at every hop. Two fetches are the
fewest of which one commits what the other's write has made old. Two chains that record at once
are the fewest of which one changes the store between two locks of the other. A store of one or two
entries is full when the second or third comes. Every bound (`MaxRuns`, `Stops`,
`MaxReports`, `BodyLen`, `MaxRedirects`, `MaxAuth`, `MaxTime`, `MaxVersion`, `MaxAsks`,
`MaxBody`, `Horizon`, `MaxHops`, `MaxSends`) is named in the module that uses it.

Deadlock is checked for `slot_pool` and `coalescing` (whose loop goes on by itself). The
other systems may stop: after the last run, after the end of the body, after every request
has ended, at the horizon of the clock.

## Fairness

* `Scheduler!FairSpec`: the runtime polls a loop that can go on, and a fetch that has pushed a
  revalidation goes on to its `notify_one`, between which there is no await. Nothing is assumed
  of callers.
* `Coalescing!LocalFairness`: the loop, the watchers, and the tasks where they do not wait
  for the network. Nothing is assumed of the network: liveness is stated up to `OnNetwork`,
  a fetch that is not cancelled and waits for slots, a response or its body.
* `Lifecycle!Fairness`: threads run on and a fetch ends some day (its timeouts); nobody has
  to cancel.
* `SharedBody!PumpFairness`, and `TeeStep` of `Pump`: the pump runs on where it waits for
  nobody; the source may stall. The second half of `StreamsEnd` takes `ReadFairness` as a
  hypothesis: the source gives data, ends or times out, and streams that are held are read.
* `Transfer!FairSpec`: a fetch that can go on does. A response, a body or a timeout comes in
  the end (each wait of the code is under a timeout or ends when the connection does), and a
  streaming caller reads on or drops its reader.
* `RedirectChain` needs none: that a chain ends is `ChainRunsOut`, a rank that every step
  lowers. That a step is taken at all is the request's timeouts' doing.

## The proofs

All are for arbitrary constants satisfying the modules' `ASSUME`s. These ask no more than
that limits are naturals (positive where the code divides or waits by them), that sets that
are counted are finite, that `None` differs from the values it stands beside, that lanes,
keys and URLs are what the code's types make them (a URL can be upgraded to https; a cached
request has a method, a URL and a jar), and of the requests of `RedirectChain` that the
embedder gives a referrer only with an origin, and a `Cookie` of its own only without one.
Each inductive invariant was first checked by TLC on an instance.

`QueueProofs`, of the pool:

* `TypeCorrect`: `Spec => []TypeOK`.
* `SlotsAreAccounted`: `SlotsAccounted`, from `AccInv`: the types, the finiteness of the set
  of holders, conservation, per-origin accounting and the limits. The three parts need each
  other: a grant is only sound because the counter it checks against the limit equals the
  number of holders. The step is proved per action, with a lemma for the steps that serve
  nobody (`SameHolders`), for a grant (`GrantAccounts`) and for a release
  (`ReleaseAccounts`), on the library's cardinality theorems.
* `NoLostWaiter`, from `LineInv`: `LiveInLine` and `NoSlotIdles`. The latter is not
  inductive alone, as the end of `grant` looks at the lanes, not at the tickets: that every
  live ticket stands in a lane closes the gap.
* `LanesAreServed`: `LaneServedWithinCycle`. The inductive invariant relates how often a
  lane was passed over to the position in the cycle: since the lane's last turn at most so
  many grants were made.

`QueueProofs`, of the scheduler:

* `QueueTypeCorrect`.
* `ShutdownStrandsNone` (`NoneStranded`), `QueueOpenInRun` (`OpenWhileRunning`) and
  `WakeupsAreKept` (`NoLostWakeup`), when runs do not overlap. `SchedInv` adds to the three
  that runs go one after the other (`InOrder`), that the queue is closed only between runs
  (`ClosedBetweenRuns`), and what a loop that has looked at the queue and found it empty can
  rely on (`LanesSeen`, `RevalidationsSeen`): either nothing came since, or a permit waits
  for it or is about to be left. Without the hypothesis the second property is false, as
  `scheduler_overlap` shows.

`CoalescingProofs`:

* `TypeCorrect`, `NeverCancelledUnderReader` (`NotCancelledUnderReader`) and
  `CancellationsAreOwn` (`NoForeignCancel`), from `CoalInv`. Its heart is `CountExact`:
  `sub_count` is the number of requests that joined the entry and whose watcher has not
  counted them out. A caller that cancelled still counts from its answer to the decrement,
  so a count of zero, which `FiredAtZero` ties to `parent_cancel`, leaves nobody who
  listens or reads. The rest says what the count and the answers rest on: what a request
  not yet taken has left alone (`FreshUnused`), that one that was taken is of the run of
  its entry (`TakenJoined`), who can still be answered (`AnswersMatch`), that earlier runs
  were shut down (`RunsInOrder`), and that an abort has a cause (`AbortedIsCancelled`).
* `FetchesAreShared` (`OneFetchPerKey`): with `MapInv`, a fetch that could be joined is the
  one the map names for its key, so there cannot be two.
* `NoneLeftOpen` (`EveryRequestEnds`): with `OpenAttached`, a request that has heard of no
  end is still attached to a fetch that has not ended, or its watcher or its own fetch has
  yet to tell it.
* `PromiseKept`: `Spec => KeepsPromise`. The initial states map to those of
  `FetchPromise`; `StepPromise` maps each action to an asking, a cancellation, a stop, an
  answer or a stutter, the answers through one lemma (`Answering`): who is sent something
  had no answer, and the answer is justified.

`LifecycleProofs`, of the requests that share a fetch: `TypeCorrect` and `EndsAreOwn`
(`OneOwnEnd`), from `LifeInv`, which says where the end of a request is at any moment: with
nobody while `ended` is unset (`NotYet`), then with the one thread that swapped it and is
still to emit (`OnItsWay`), then with the observer (`Arrived`). `Drop` reports without setting
the flag, which is safe because nobody is inside `on_event` any more when the runtime is gone
(`TornIsIdle`).

`LifecycleProofs`, of the reports of a chain: `ChangesAreTold` (`EveryChangeTold`), under
`ReportAssumption`, which says of what kind requests, responses and URLs are. `ReportInv`
relates the panel to the chain. `Shows` is what it shows of a hop at any stage (URL, method,
headers that are left, taint); `ShowsEarly` and `ShowsLate` say how Referer and Origin stand
before and after the hop's policies were applied, when the panel has been reset by a redirect
and the chain still carries what it showed last; `ShowsUnsent` and `ShowsSent` what it knows
of the credentials. The events of a step are a list of up to eight, most of which may be
missing, so what the panel makes of a list is proved part by part: `Seen` of a list in two
parts is `Seen` of the second after the first (by induction on its length, from the
library's theorem that a set of naturals has a least member), and each optional event has a
lemma that says it is in its place and what it changes.

`SharedBodyProofs`:

* `SubscribersGetBody` (`BodyDelivered`), from `BodyInv`. `Placed` is its heart: what a
  subscriber has got, what is left of its replay and what is queued for it follow on one
  another and reach up to the last chunk read, or to the one before while the push that
  works from a snapshot still has to hand the last one over. `Registered` and `Unregistered`
  say who is in the list, in the snapshot, or lagging.
* `TeeKeepsPromise`: `Pump` implements `SharedBody`: each of its steps is one of the
  producer's or leaves the body alone, under the fairness of either. What holds of the readers
  of `from_reader` so holds of those that read along with a download.
* `NamedFileIsWhole` (`FileIsWhole`), from `TeeInv`: what the temporary file holds, at each
  stage of the tee, of what was read.

`TransferProofs`: `BodiesAreWhole` (`WholeOrNothing`) and `ObserverIsToldTrue` (`ToldTrue`),
from `TransferInv`. `ReaderOK` is the ledger of a body: the bytes handed on, pending and put
back in front of the stream add up to what the client gave; the collector holds exactly what
was handed on; a capture that is not truncated holds all but what was put back; and a length
that is known is the body's own, or the body has come in full. An attempt is `Open` or
`Closed`, and its end is with the observer in the last attempt and with the view before. What
a step reports are at most three events, so `Said` is taken apart by lemmas about one, two and
three, and each event has a lemma that says what it does to an open or a closed attempt.

`RedirectChainProofs`: `NothingSecretLeaks` (`SecretsStayHome`), `DetoursAreKept`
(`DetourCounts`), `ReferrerStaysCut` (`ReferrerNeverGrows`), `ChainEnds` (`ChainRunsOut`) and
`StoresAreTrue` (`StoresStayTrue`). The invariant is about the chain as a value: `Between` is
true of it between two hops wherever it is kept (in the loop, in the hop under way, in the
revalidation to come), and says that what the caller put in by hand is still at its host and
what the flags know of every URL visited; `AtUrl` is what the checks of a hop add. Each step
fails, moves on within the hop, settles it or resumes (`Failing`, `Staging`, `Settling`,
`Resume`), and the rank of `ChainRunsOut` falls in each. The proof showed that the first
statement of `DetourCounts` was too strong: `follow_redirect` compares the origins of the two
URLs before HSTS makes https of the second, so a redirect within a host counts as none even if
the scheme changes at last. `Moved` is the comparison the code makes.

`HttpCacheProofs`: `OldIsOvertaken` (`OldWasOvertaken`) and `JarsApart`, from `CacheInv`, which
follows a response from the server to the store: `SrcFits` holds of what is behind it while it
is on its way as well as where it is stored. It needs that a 304 that answers a revalidation
names the version the revalidated response shows. `JarsApart` has no run of its own: nothing
is stored under a jar's key but what that jar's cookies bought, and variants of a key differ
in the list of selecting headers, as written, or in their decoding. `AnswersHold`
(`AnswersStandUp`) adds `TimesInv`, that an entry never
says less of its age than the true age of what is behind it, under `TimeAssumption`: no
response is older than an `Age` header can say, and a clock that is fast shows in a `Date`.
With a reply that has no `Date`, from a server whose clock is ahead, `Expires` is measured
from the moment of receipt and vouches for too long; the code cannot know. The proof also
showed that an `Expires` in the past of the server's own clock must count as the moment the
response was made, which is how `VouchedUntil` now reads. `BooksAreKept` (`Accounted`), from
`BookInv`: a charge is counted byte by byte (`Bytes`, `BytesUnder`), so that what a sum over
variants and keys loses and gains is said of cardinalities of finite sets, which needs no
induction; `Without` and `touch` keep the order a list of distinct keys (`WithoutIs`,
`TouchIs`), `evict` stops because the whole order frees all that is charged (`EvictBooks`),
and `Names`, what a `Vary` may name, is assumed finite.

`PolicyProofs` is about the parts of `RequestPolicies` and proves the property of each:

* `HstsKept` (`PolicyKept`), under `HstsAssumption`, from `HstsInv`: what a policy that is
  stored, or about to be, rests on is the last header of its host that was taken down
  (`StoredOK`, `TakesDown`); and of a chain that makes room, `Knows` relates what it counted,
  swept and scanned, shard by shard, to the store as the others leave it meanwhile: what it
  counted it met, and of the entries that stood all the while none had run out and the one it
  chose expires first. `is_known_host` is said with the ancestors of a host rather than by
  recursion over its labels.
* `OverridesAreTheUsers` (`OverrideIsTheUsers`), under `TlsAssumption`, from `TlsInv`: what is
  in the store of accepted certificates was accepted by the user and not taken back, which
  `Retained` must keep over evictions and revocations.
* `GrantsAreKept` (`SentIsGranted`), under `GrantAssumption`, from `GrantInv`: each grant in
  the cache was given by an answer to its origin, URL and credentials, and whoever holds one
  got it within its lifetime.
* `UpfrontIsProven` (`UpfrontWasProven`), under `SomeRoom`, from `CredInv`: what is stored of
  a space was let in there, or a login is between its two calls on the store, in which case
  it is marked. The store of directories and of spaces are both bounded lists from which the
  oldest goes, so the proof is about what `Retained` leaves in them.
* `RoutesAgree` (`ProxyIsTheClients`) and `KeysSuffice` (`SameKeySameWire`): rules with no
  state between requests, the second over any number of redirects; what two requests of one
  key have in common is kept by every step of a chain.
* `FetchesInTime` (`TimeoutsHold`), under `TimesAssumption`, from `DeadlineInv`: `HeadInTime` says
  by when each phase of a hop has begun and is over, counted from `Begun`: while no redirect
  budget runs, what the hops before may have taken, once it runs, its end and a preflight for each
  redirect out of the cache, and what the resolver took beside; `BodyInTime` says what each timer
  of the body has left. That the bound carries over from hop to hop is said once for each way a
  hop goes on (`RedirectedInTime`, `SendInTime`, `HeadersInTime`).
* `DialsApproved` (`DialledIsApproved`), under `NoneIsNoFailure`, from `DialInv`: every dial
  under way and every pooled connection to an address of a name was approved by the resolver
  of the request that began it.
* `SendsReported` (`ReportedIsSent`): framing is what `start` removes and each send computes
  anew from the body as it is then.

Only model-checked:

* every liveness property: fairness and `ENABLED` are outside what the provers handle;
* `OneShotKept`: the list of codings is put together from the header lines and taken apart
  again by library operators on sequences that take an operator, of which the provers know
  nothing.

## What the work found

By a run that violates what the repository says:

* `scheduler_overlap`: `run` documents that it reopens the queue there and then. If the
  loop of the run before it has not yet got to `stop_queue`, that closes the queue of the
  new run, which then refuses every request.
* `transfer_error`: `Failed` is documented as the event of any request that ends in an
  error. The buffered loop returns its timeouts and its size limit without an event, and the
  `ProgressReader` it drops reports `Cancelled`, or `Finished` when all bytes of a known
  length had been read.

Met while modelling, and part of the models as the code has them, without a run of their own:

* `slots.rs:183`: the position in the weighted cycle advances with every grant, whatever its
  origin. While an Idle fetch waits for a full origin, the turns of its lane can all fall on
  grants to another origin, against "it will not starve lower priority queues"
  (`docs/net-design.md`). `LanesAreServed` states what does hold: a lane with a waiter *that
  can go* is served within a cycle.
* `lifecycle.rs:94`: `on_event` checks and then emits, so an event that passed its check can
  arrive after the `Cancelled` the watcher emitted meanwhile ("and nothing after the end",
  `lifecycle.rs:8`). The preview of an abandoned body (`body_capture.rs:110`) comes after the
  end too, and is dropped.
* `fetch/chain.rs:466`: a password the hook returned is to be stored when the retry succeeds
  (`auth.rs:11`). When the retry is a revalidation and the server answers 304, `send` leaves
  its loop before `accepted` is called, and the password is asked for again next time.
* `fetch.rs:270`: `accepted` stores and then notes the directory, in two calls. What another
  login stored in between is vouched for at a directory where it was never tried; the
  exception in `UpfrontWasProven` is this one. Likewise a rejection drops what is in the
  store, even a newer and good password (`chain.rs:518`).
* `cache.rs:1174`: a 304 with a new `Vary` is to replace the stored one; the updated entry is
  put beside the old variant, which stays until it is evicted.
* `cache.rs:1174`: `put` is to keep "one variant per set of selecting request headers"
  (`cache.rs:1168`, likewise `cache.rs:993`), but compares the lists of them as `Vary` wrote
  them. A response with `Vary: a, b` and a later one with `Vary: b, a`, or with a name given
  twice, are selected by the same requests and stand side by side; the newest by `Date` answers,
  and both are charged for until the key is evicted.
* `hsts.rs:92`: `store` reads the length, sweeps, scans, removes and inserts under separate locks.
  A host that renews its policy between the scan and the removal loses it, though it no longer
  expires soonest, and two chains that each find the store one short of full both insert, against
  "past `MAX_HSTS_ENTRIES`, expired entries are swept and then the one expiring soonest is
  dropped" (`hsts.rs:62`); as one insertion into a full store evicts one entry, the excess stays
  and can grow, against `the_hsts_store_is_bounded` (`hsts.rs:359`). `PolicyKept` exempts the
  renewed policy and says nothing of the limit; for a policy that stood while room was made, it
  holds. Two recordings of one host at once may be taken down in either order.
* `fetch/chain/native.rs:281`: a preflight of a later hop is bounded by neither the redirect
  budget nor the request's own timeout, but by the fetcher's `req_timeout`, which is the
  client's.
* `fetcher.rs:109`: the redirect budget "must cover every later hop up to the final response
  headers". A hop the cache answers does not look at it, so a chain of cached redirects goes on
  past it, with a preflight for each.
* `fetch/chain.rs:464`: a hop that is sent again for a contradicted 304 gets a new `req_timeout`,
  which is the "deadline for one hop" (`fetcher.rs:81`), as one does for each challenge.
* `fetch/chain/native.rs:203`: the resolver that `check_ip_literal` waits on has no timeout at all.
  `TimeoutsHold` allows for these four and counts the resolver's time apart.
* `fetch.rs:1062`: a body that comes out of the cache and fits in the peek is not held to
  `max_bytes`.
* `body_capture.rs`: the preview of a body that broke off says it is not truncated.
* `simple/native.rs`: a `Content-Encoding` that is not text leaves the coded bytes with no
  label, where `decode.rs:11` has the caller be able to tell.
* `types/native.rs`: a POST with an empty `RequestBody` goes out without `Content-Length`, one
  without a body with a length of 0.
* `events.rs:246`: `Blocked` is documented as "refused by policy and never sent"; for a CORS
  check that fails on the response it is reported after the hop was sent.
* A caller's own `Cookie` is dropped at a redirect that sets cookies without a
  `RequestModified`, and body headers under `MethodDowngraded` alone; `HopReports` has its
  panel know these rules.
* `only-if-cached` without a cache configured goes to the network.

## What is not modelled

* The browser build (`wasm.rs` files), which leaves the work to the browser; examples, tests
  and test support.
* Text: URL, header and challenge syntax below the level of elements, date formats, base64,
  quoting, punycode; the coders behind `decode.rs`; tables of ports and of safelisted bytes,
  of which a few members stand for the rest.
* The inside of reqwest, hyper and rustls, which `Dialing`, `Sending`, `Routes` and
  `TlsOverrides` model from how the code sets them up.
* A panic in a host callback: the code has no path that handles it.
* Chains are modelled one at a time; what they share is concurrent in `Credentials`,
  `Preflights` and `HttpCache`, where each call on a store is a step, and in `Hsts`, where each
  lock a call takes is one. `is_known_host` loads the entries of a host and its superdomains one
  after the other; the model looks at them at once.
* `request_key` of a request that names a referrer and has a `Referer` set by hand too: the
  embedder is taken to do one or the other.
* The HSTS upgrade of `Fetcher::admit` is in `HopReports` and `RequestKey`; `RedirectChain`
  begins with the chain, whose own upgrade comes after the referrer was judged.

## The plan

Every component of the native build has its module, and every safety property of the runs
but those named above its theorem. What would be worth adding next: two chains over one set of
stores, to replace the store modules' single calls by whole hops.
