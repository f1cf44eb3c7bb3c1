# aware-gateway in TLA+

A verification development of aware-gateway, an HTTP gateway that routes LLM
requests of agents: it authenticates a request, lets a router choose a pool,
an endpoint and a model, proxies it with retries, circuit breakers and a
fallback pool, and records what happened in an audit store. The modules here
are translated from the Go source, and from the Python scripts that feed the
gateway, probe it and reduce its records; the TLC runs check them on small instances
and TLAPS proves the most important results for every instance.

Paths below are relative to the repository's root; `PROJECT.json` maps every
definition to the lines it stands for.

## 1. Inventory

| Component | State | Operations | Talks to | What makes it correct |
|---|---|---|---|---|
| Proxy loop (`internal/core/handler.go`, `internal/proxy/reverse.go`) | per request: attempt, pool, endpoint, response so far | `ServeHTTP`, `proxyWithRetry`, `abortRoutedRequest` | pools, breakers, decision writer, routers, audit sinks | one answer per request; no retry after the first byte; pools given up in order; counters restored on every exit |
| Circuit breaker (sony/gobreaker, configured by `NewPool`) | per endpoint: state, consecutive failures, generation | `Execute`, `State`, lazy timers | proxy loop, selection, `/health` | one trial when half-open; stale results ignored; a trial always ends |
| Endpoint selection (`internal/pool/pool.go`) | per pool: round-robin counter; per endpoint: weighted counter, in-flight count, known models | `Next`, `NextForModel`, `SelectEndpoint` | health flags and breakers, read without a common lock | available endpoints preferred; shares follow weights; model respected when somebody serves it |
| Health checks and model discovery (`pool.go`) | per endpoint: healthy, discovered models; per pool: a cancel function | `checkAll`, `discoverModels`, `Stop` | selection | a dead endpoint is avoided, a recovered one comes back |
| Decision writer (`internal/core/writer.go`) | code, header, body buffer, discard, direct mode | `WriteHeader`, `Write`, `commit`, `reset` | reverse proxy on one side, net/http on the other | a client gets one attempt's answer, whole |
| Audit store (`plugins/audit/plugin.go`) | buffer, open transactions, SQLite file | `Record`, `Flush`, `QueryTraces`, `RecordEpisodeEvent`, `Close` | handler, ingest endpoint, `/v1/traces` | every record in one place, written at most once, eventually written |
| Episode state (`plugins/smartrouter/episode.go`) | per episode: counters, phase, windows, events; per session: a stack of episodes and the active one | session operations, event projection, backfill, session rebuild, completion, snapshots | ingest endpoint, route decisions, audit store | a call counts once and in its own episode; stacks stay consistent; a rebuild gives what was there |
| Safe control and routing decision (`safe_control.go`, `plugin.go`) | per episode: last error, escalation, premium and cheap calls in a row, cooldown; warm-start and decision caches | `Route`, `safeControlDecision`, `applyCapabilityFloor`, `fallbackDecision` | decision model (remote), cache, episode state | limits and floors hold whatever the model answers, and for requests that overlap |
| Route budget (`budget.go`) | configuration maps | `applyRouteBudget`, `inferBudgetAction` | `Route` | budgets within the configured range |
| Event ingest (`internal/core/server.go`) | none | `episodeEventIngestHandler` | smart router, audit store | a batch accepted is a batch in every sink |
| Event sidecar (`scripts/watch_harbor_episode_events.py`, started and stopped by `scripts/run_v4_matrix.sh`) | ids seen, state file, event file | scan, post, mark, save, poll, flush | files Harbor writes, ingest endpoint | nothing is taken for sent that is not stored; nothing stays behind; steps in order and once |
| Command runner (`scripts/run_episode_command.py`) | none | run, `build_events`, `post_events` | ingest endpoint | a command's events say how it ended |
| Probe (`scripts/run_safe_control_probe.py`) | scenario, step | post, ask, read the state | a running gateway with mocks behind it | what it expects holds on every schedule of its posts |
| Outcome extraction (`scripts/extract_episode_outcomes.py`) | none; files in, files out | extract, annotate, derive, reduce, cut off | audit store's traces, Harbor's files | agrees with the router; a replay sees only its past |
| Decision cache (`cache.go`), rate limiter (`plugins/ratelimit/plugin.go`) | bounded map; token buckets | `Get`, `Set`; middleware | `Route`; HTTP server | size bound, no expired entry; limits per key and in total |
| Server and hot reload (`cmd/gateway/main.go`) | pool registry, handler | `SwapAndReturn`, `Get`, SIGHUP, shutdown | everything | a request sees one configuration |
| Plugin registry, task router, configuration, observability, billing | start-up lists, rules, values | – | – | no shared state of their own |
| Policy gate, replay, reports, analysis (other `scripts/`) | none | one pass over finished files | files | – |

### Hard behaviour

- Concurrency: each request is a goroutine; health probes, discovery, the audit
  ticker, full-buffer flushes and reloads run beside them. Selection reads
  health, breaker and counters one by one without a common lock, and acts later.
- Failure: upstreams time out, break off in the middle of a stream
  (`ErrAbortHandler`), answer errors or informational statuses; SQLite refuses
  writes; sinks fail half way through a batch.
- Crashes: the gateway loses its projections and keeps its store; the sidecar is
  killed at the end of every job, wherever it is, and run once more.
- Ordering: results of requests that a breaker admitted before it tripped come
  late; outcomes of overlapping route decisions are attributed afterwards;
  events of one moment are ordered by a hash.
- Two implementations of one thing: the router's projection in Go, the
  extractor's in Python, and the probe's expectations of the first.
- Limits: attempts, the half-open slot, the retry buffer, the limits of cost,
  calls and length.

`PROJECT.json` lists the hazards line by line with the property that covers
each, or why none does.

## 2. Modules

| Module | Models | Notes |
|---|---|---|
| `Breaker` | one circuit breaker | generations as the set of calls the present generation admitted |
| `Pool` | the selection strategies as sets of endpoints they may return | counters abstracted |
| `Gateway` | `proxyWithRetry` for concurrent requests, probes, breaker timers | extends `Pool` and `Breaker` |
| `ClientView` | what the gateway promises to a client | abstract specification |
| `DecisionWriter` | one request's writer over all its attempts | also checked against `ClientView` |
| `WeightedPool` | smooth weighted round robin, counter by counter | the abstraction made in `Pool`, taken apart |
| `AuditStore` | the SQLite store with its flushing goroutines | |
| `EpisodeRuntime` | the smart router's sessions, episode states, backfill, rebuild and completion | what an event does to a state is abstracted to its being counted |
| `Projection` | what one event does to the state of an episode, and the next capability derived from it | operators on records, no state of its own |
| `SafeControl` | the rules of safe control, the capability floor, the budgets | extends `Projection` |
| `Probe` | the probe's scenarios and expectations against `SafeControl` | extends `SafeControl`, adds the state of one episode |
| `Routing` | overlapping requests, commands and verdicts after a scenario | extends `Probe` |
| `Outcomes` | the offline extraction beside the online projection | extends `Projection` |
| `Watcher` | Harbor's files, the sidecar, the ingest endpoint with its sinks, the runner | |
| `GatewayProofs` | inductive invariant of `Gateway`, its safety theorems, what a step may do, and the refinement of `ClientView` | |
| `DecisionWriterProofs` | inductive invariant of `DecisionWriter`, its invariants and its steps of `ClientView` | |
| `WeightedPoolProofs` | sums over finite sets; inductive invariant of `WeightedPool` and its theorems | |
| `AuditStoreProofs` | inductive invariant of `AuditStore` and its safety theorems | |
| `EpisodeProofs` | folds and lists in time order; inductive invariants of `EpisodeRuntime` and its theorems | |
| `WatcherProofs` | inductive invariants of `Watcher`: from Harbor's files to the store and the router | |
| `RoutingProofs` | the capability floor and the bounds of budgets; inductive invariants of `Routing` and its theorems | |
| `OutcomesProofs` | folds over a trial; inductive invariants of `Outcomes` and its theorems, the agreement of the router and the extractor among them | |
| `MCGateway`, `MCWeightedPool`, `MCEpisodes`, `MCWatcher`, `MCRouting`, `MCOutcomes` | values of constants for TLC | |

### Gateway

A request's `pc` follows `proxyWithRetry`:

    idle --Start--> select --Select--> picked --Begin--> upstream
    upstream --RespondDirect--> streaming --StreamEnd--> returned
    upstream --RespondBuffered--> returned --Report--> leaving --Leave--> select | answered
    answered --Finish--> idle

`Begin` is `ep.Inc()` and the breaker's admission in `Execute`; `Report` is the
result `Execute` gives the breaker; `Leave` is the deferred `ep.Dec()` and the
rest of the loop body. They are separate steps because other goroutines run
between them: that is where a breaker trips between selection and admission,
where its timer runs out under a slow call, and where counters would leak.
`Start` stands for everything `ServeHTTP` does before the loop (trace id, body,
authentication, routers, transformers, model rewriting): none of it touches
pools, and its outcome is one of `Decision`. `Refuse` is an answer given before
the loop.

Statuses are abstracted to what the loop tells apart: `ok` (2xx/3xx, sent on
as it comes), `error` (5xx and 429, a failure), `client_error` (other 4xx),
`early` (an informational status, which the writer takes for the final one). A
retryable status among the buffered ones is given by `Retryable`; "error"
never gets that far because `Execute` has already returned an error for it.
Transport errors, attempt timeouts and a client that goes away all end in the
reverse proxy's 502, hence `error`.

`Pool` gives each strategy as the set of endpoints it may return. The weighted
one may return nil when availability changes between its two passes; that is
not a guess: `WeightedPool` models the passes endpoint by endpoint.

### DecisionWriter

Body units and header fields are tagged with the attempt they come from, so
mixing attempts is visible. The environment is `httputil.ReverseProxy` and
net/http, modelled by the calls they make: an informational status passes
through `WriteHeader` and clears the header map, the error handler calls
`http.Error`, a body may break off. The header map is not part of `reset`; see
the findings.

### WeightedPool

Counters, availability and per-selector locals; each action is one pass over
one endpoint under that endpoint's lock. `steady` and `seen` are history: the
endpoints available throughout and at some time during a selection.

### AuditStore

The flushing goroutines are the ticker loop, one goroutine per record that
fills the buffer, and queries. SQLite is external: one write lock taken by the
first insert and kept to the end of the transaction; no busy timeout is
configured, so a statement that cannot get the lock fails at once, and a commit
may fail while another connection reads. A commit that fails is assumed to end
its transaction.

### EpisodeRuntime

An episode id is `<<s, n>>`, for `key#episode-n`; `n = 0` is the main episode,
whose id is the session's key. A call's `pc` follows one request through the
router and the audit sinks:

    idle --Resolve--> check --CheckState--> mark --MarkState--> load
    load --LoadState--> install --InstallState--> routed
    routed --RecordCall--> [clear --ClearState--> unstack --ClearSessions-->] audit
    audit --AuditCall--> done
    routed --Abort--> done

Each step is one critical section (`sessionMu`, `episodeMu`, `backfillMu`) or
one call of the store; other requests and posted events run between them. A
request that pins a model goes to `routed` at once. The snapshot a decision is
made on only reads the state and is left out. The router is the first of the
audit sinks (priority 50, audit 100), so a call is in the state before the
audit plugin has it. That plugin only appends its trace to a buffer
(`unwritten`); `Flush` is any flush, of the ticker, of a full buffer or of a
query, and writes some of what it has taken: an insert that fails loses its
row, a transaction that fails all of them, and a restart whatever is not
written. `AuditStore` has the flushers one by one. A posted event is written at
once, or its sink fails. A call whose route names no pool ends in `Abort`
without a record, after `Resolve` has moved its session. `continue` stands for
`global` and `unknown`, which treat a session alike. A call's timestamp is its
arrival, given by `Resolve`; an event carries the one its client gives it, of
any moment up to `LastTime`, with its session, its episode and no operation.
Each query of the store may fail, and returns the oldest `Limit` rows, by
session or by episode (1000 in the code). Rows are ordered by their time; that
the store compares times as text, of which some are written with fewer digits
than others, is left out, as are the queries by trial, whose name is given with
the session. `lost` is history: the traces of calls that memory knows and the
store never will. `orderly` is history as well: it records whether anything
happened that a rebuild from the store could not follow (overlapping calls, a
named episode, a completion, an event posted twice or dated by another moment
than its arrival, a request that comes before the rebuild, a rebuild from part
of the queries), and
`RebuiltAsItWas` is claimed without these. It is claimed of sessions of which the
store has every trace and every query every row. That is not the rule in the
code: what is buffered when the gateway dies is gone, and the session that is
rebuilt is the one without it.

### Projection and SafeControl

An event is a record; its text is what the projection tells apart (a rule id for
the routing reason it is found in, a value for a fingerprint or a hypothesis, a
target for a path). The state keeps the names of the counters, shortened.
`Project` is `projectEpisodeEvent` whole: counts by kind, the outcome of the
last route, progress and what it resets, the window of recent events, severity
and the next capability. A field no rule, floor or expectation reads is left
out. `NextCapability` is the chain of `deriveNextCapability`, first match first.

`SafeControl` keeps each family of rules as a sequence of `R(rule, action,
when)` and takes the first that applies; `Pass` is an early return, after which
the rules behind it are not tried. A message is the fingerprint of its error
and the set of cues the regular expressions find. `Message.young` says whether
the latest call is within the 30 seconds of grace. There are two models on the
menu. `Decision` is what `inferBudgetAction` reads of an answer: the model, the
step's criticality, recoverability and type, and the action it names itself, if
any, which comes first. `RouteCapability` rates a route as the code does: a
cheap model with the action of the strongest counts as the strongest. Costs are
whole cents. The four snapshots the families of rules take one after the other
are one state; an event that falls between them counts as one that comes after
the request.

### Probe and Routing

A scenario of `Probe` is a sequence of steps: post an event, ask with a message
and compare the route, read the state and compare it. The counts, rule ids,
actions, budgets and reasons are those the script writes down. The script posts
everything once; the model delivers anything posted again at any later time.

`Routing` begins where a scenario ends. A request that pins a model of the menu
(`Pin`) or confirms that the task is complete (`Confirm`) returns before safe
control: no gate is asked, and its call is recorded with its cost like any other.
Any other request is observed (`Arrive`), decided
by a rule or handed to the decision model with a snapshot (`Decide`), judged
seconds later or given to the fallback (`Judged`), answered and only then recorded
(`Answered`). The record of a completion, also of one that the decision model
asked for by its action, makes the router forget the episode: what safe control
remembers first (`ClearControl`), then its state (`ClearState`). Commands and
verdicts are posted between any two of these. The events of a command are one
batch (`RunCommand`), which the endpoint projects event by event (`Ingest`) while
requests run in between; when storing one fails the rest is not taken. One batch
is under way at a time, as the commands of an agent come one after another; a
verdict may come inside one.
`excused`, `allowed` and `stopped` are history: whether anything has lifted the
limit of the cost, how many cents the gate cannot keep from being spent, and
whether a gate that should last has refused and nothing came after. `allowed` is
worked out anew with every call that is recorded while the limit is not passed: the
limit, or what is spent by then and one call for each request that has passed the
gate (`Open`), whichever is more. Afterwards it only grows by the calls that no gate
was asked about (`Ungated`).

### Outcomes

A trial grows by calls, tool calls and verdicts. Events of one moment may be in
any order, since their ids are hashes, and a derived event may stand before or
after its trigger. `live` is folded with `Project` as events happen; `record` and
`offline` are what the extractor makes of the whole log at every moment. `Counts`
has the names the router has for the same counts, so that they can be compared
field by field.

### Watcher

    scan --ScanPost--> post --Connect .. Accepted--> mark --Mark--> scan
    scan --SaveBegins--> saving --SaveEnds--> sleep --Wake--> scan

An event stands for its id, a hash: `[trial, fact, body, stamp]`. A file of Harbor
is absent, half-written or there, and the scan reads what the parser makes of
half a file: an empty trajectory, no result, an exception for `ctrf.json`, another
content for a patch or a reward. The endpoint hands every event to the router and
then to the store, step by step; a client that gives up leaves its request behind
as an orphan that goes on. `KillSidecar`, `Flush` and `FlushLost` are the runner at
the end of a job.

## 3. Runs

| Run | Instance | Shows |
|---|---|---|
| `one_pool` | 2 requests, a least_conn pool of 2 endpoints, 2 attempts, threshold 2, health and breakers free | `InflightExact`, `AdmittedAreRunning`, `BreakerShields`, `BreakerMoves`, `NoRetryAfterAnswer` |
| `two_pools` | 2 requests, a pool and a weighted fallback pool, 1 endpoint each, threshold 1, fairness | `PoolsExhaustedInOrder`, `TrialEnds`, `KeepsPromise` (`Gateway` implements `ClientView`, liveness included) |
| `writer` | 3 attempts, bodies up to 3 units, a buffer of 2 | `OneBody`, `WholeBody`, `OneHead`, `PromisedSteps` |
| `header_leak`, `early_hints` | the same | violations, see the findings |
| `weighted_shared` | 2 selectors, weights 3, 2, 1, a model served by endpoints 1 and 3, 1 availability change | `WeightConserved`, `PicksAvailable`, `RoundExact` |
| `audit_store` | 2 records, a query, an event, flush at 2, fairness | `Conserved`, `QueryReadsItsPast`, `Settles` |
| `episodes` | 1 session, 2 calls that may name a branch, 1 posted event, 2 under way at a time, times 1 to 3, queries of 1 row, 1 restart | `ActiveOnStack`, `CountedOnce`, `LoadedOnce`, `RebuiltAsItWas`, `StatesOnlyGrow` |
| `branch_calls` | 1 session, 3 calls one at a time | violation, see the findings |
| `watcher` | a trial with 2 steps, a patch and a result, one with an early result, a bad reward and test results, 1 crash of the gateway, 2 undated scans told apart, fairness | `SeenIsStored`, `FlushComplete`, `StepsInOrder`, `FactOnceIfFinal`, `Delivered`, `FlushEnds` |
| `routing` | the 18 scenarios with the probe's limits, then 2 requests that may overlap, pinned, confirming or neither, 1 command or verdict; a request may come within 30 seconds of the latest call, or later with an error; 4 answers of the decision model | `RoutesAsExpected`, `StatesAsExpected`, `SpendBounded`, `VerdictHeeded`, `StopStays` |
| `outcomes` | 12 acts and 4 verdicts, 4 moments, limits of 1 to 4 | `OncePerStretch`, `CountsAgree`, `FloorsAgree`, `InOneWindow`, `PastIsSettled` |

Bounds. Two requests are enough for every pairwise race on an endpoint (a trial
and a competitor, a stale result and a fresh one); two endpoints for every
choice between an available and a refusing one; two attempts make first, last
and intermediate iterations differ; threshold 2 separates "a failure" from "the
failure that trips". `HealthBound` fixes health in `two_pools` only, where each
pool has one endpoint and the breakers already make it come and go. `MaxBody`
exceeds `MaxRetryBuf` by one so that the buffer overflows. `Flips` bounds the
changes of availability in `WeightedPool`: after one change conservation no
longer holds (see below), and one is enough to reach every race of a scan.
In-flight counters, failures and weighted counters are not bounded; they stay
finite by what the runs check.

In `episodes` two calls and an event are the smallest instance in which a load,
a live call and a posted event of one episode meet after a restart; `MaxFlight`
and `MaxRestarts` bound what is under way and how often memory is lost. Times
reach the last operation's, so that an event may be older than, as old as or
younger than any call. A named branch (`NamedBranch`) lets a request enter a
branch without the interrupt that made it. A query of one row makes the limit
bind: a second call is found only if it is the main episode's and the first is
not, and an event always; rebuilds of longer sessions, and those that follow a
rebuild, are the theorem's. Calls are symmetric, and the view (`Seen`) leaves
out of a state what no later step and no property reads.

In `watcher` two trials make one stand in the way of the other, two steps make
an order, and one crash separates what the gateway keeps from what it loses.
`MaxClock` tells two undated scans apart: one more would only give one more id.
In `routing` two requests can overlap, or the second is decided on what the first
came to; one call costs more than the limit, so the first one that is counted
reaches the gate. The decision model may name its action, the end of the episode
among them. `MaxPosts` is one because a scenario has already posted up to
fifty events. In `outcomes` the limits are so small that four moments, up to
eight events, reach every rule that needs several calls or stalls.

Fairness. `Gateway.FairSpec` is weak fairness of each request's own steps: a
goroutine that can run does, and an upstream call ends because every endpoint
has a timeout (the configuration's default gives one to every endpoint).
Nothing is assumed of clients, probes and timers. `AuditStore.FairSpec` assumes
that the ticker ticks, that goroutines run and that a mutex is granted to a
goroutine that keeps asking. `Watcher.FairSpec` assumes that the sidecar, the
handler of a request and the runner go on, that a write of Harbor that has begun
ends, and that a request without an answer times out; failures are never forced,
and `Delivered` is claimed for schedules in which they stop and the sidecar stays
alive.

`CHECK_DEADLOCK FALSE` stands in the audit, episode, watcher, routing and outcome
configurations: a run ends when every record, query, call and event has been used
up, when the runner is done, or when the trial is over.

`TypeOK` is checked in `one_pool`, where it bounds the loop counter; in the other
modules it documents the state and no run is spent on it.

## 4. Theorems

`GatewayProofs` holds for any finite set of requests, any
endpoints, pools, strategies, models, retry limit and threshold
(`GatewayAssumption`, `ThresholdAssumption`).

`InflightExact`, `AdmittedAreRunning` and `BreakerShields` are not inductive:
that a step of `Leave` gives back the right count needs the request to have an
endpoint, that a retry does not follow an answer needs what the writer holds at
each program counter, and that counters are natural numbers needs them to be
exact. `IInv` therefore adds `Placed` (who has an endpoint and a fallback
pool) and `Written` (what code and answer are, by program counter), and types
in-flight counters as integers. From it:

| Theorem | Says |
|---|---|
| `Inductive` | `Spec => []IInv` |
| `TypeCorrect` | `Spec => []TypeOK`; counters are never negative |
| `InflightIsExact` | `Spec => []InflightExact` |
| `NoTrialLeaks` | `Spec => []AdmittedAreRunning` |
| `BreakersShield` | `Spec => []BreakerShields` |
| `BreakersMove` | `Spec => BreakerMoves` |
| `AnswersAreFinal` | `Spec => NoRetryAfterAnswer` |
| `PoolsInOrder` | `Spec => PoolsExhaustedInOrder` |
| `PromiseIsKept` | `Spec => Promise!SafeSpec`: the safety part of the refinement of `ClientView` |

`DecisionWriterProofs` holds for any number of attempts and any sizes of buffer,
bodies and writes (`WriterAssumption`), and for any set of retried statuses.
`OneBody` and `WholeBody` are not inductive: both need to know what the buffer
holds before it is committed. `IInv` adds that an attempt begins with an empty
buffer, none of its body sent and nothing discarded (`Begun`), that a buffered
body is this attempt's, complete unless more was produced than the buffer takes,
and that the client has nothing until the commit (`Buffered`), and that in direct
mode the client has all that was produced (`Streamed`). Under `IInv` the client's
view is determined by the phase, the mode and the code (`Seen`), which gives the
steps of `ClientView`.

| Theorem | Says |
|---|---|
| `Inductive` | `Spec => []IInv` |
| `BodyIsOne` | `Spec => []OneBody` |
| `BodyIsWhole` | `Spec => []WholeBody` |
| `HeadIsOne` | `Spec => []OneHead` |
| `StepsArePromised` | `Spec => PromisedSteps` |

`WeightedPoolProofs` holds for any weights, any finite set of selectors, any
filters and any number of changes of availability (`WeightAssumption`). That no
weight is lost follows from what each selection owes: the sum of the counters is
the sum of the weights that passes under way have added and not yet paid back, of
which every action is shown to move the same amount on both sides. That a
selection answers with what stayed up needs what its passes have collected so far
(`Watching`, `Gathering`, `Choosing`, `Answered`). The period of the algorithm,
`RoundExact`, comes from the value of every counter after k undisturbed picks, p[e]
of them e's: `k * Weight[e] - W * p[e]`, with W what the weights sum to
(`Settled`). Before a payment the counters sum to W, so the largest is positive
and no counter falls to -W; after W picks no endpoint can have been picked more
often than its weight says, and as both sum to W none less often. Sums over sets
are recursions over subsets; what is needed of them is proved by the least set for
which it fails.

| Theorem | Says |
|---|---|
| `Inductive` | `Spec => []IInv` |
| `NoWeightLost` | `Spec => []WeightConserved` |
| `PicksWhatStayedUp` | `Spec => []PicksAvailable` |
| `SmoothRounds` | `Spec => []RoundExact` |

`AuditStoreProofs` holds for any records, queries, events and buffer size
(`AuditAssumption`). `Conserved` is not inductive: that a record handed over for
the first time is nowhere yet needs `Handed` (what is somewhere was recorded), that
a flusher's swap does not take over what it already holds needs `Flushing` (who
holds records, by where it is in its flush), and a query's promise needs to be
known from its swap on (`Flushed`).

| Theorem | Says |
|---|---|
| `Inductive` | `Spec => []IInv` |
| `NoRecordTwice` | `Spec => []Conserved` |
| `QueriesReadTheirPast` | `Spec => []QueryReadsItsPast` |

`EpisodeProofs` holds for any sessions, calls, events, named episodes and bounds
(`EpisodeAssumption`: calls and events have different ids, a named episode is one
of some session).
`LoadedOnce` is not inductive: that nobody else loads an episode when a request
begins to must come from its mark. `LoadInv` adds that whoever loads has marked
the episode (`MarkedFirst`); a completion keeps marks, and a restart removes
them together with the loads.

The other results are about folds: a load projects the events of a list one by
one, a rebuild replays operations one by one, a completion takes an episode off a
stack. A fold is a recursion over the indices that are left, so that it exists,
what it yields for 1 .. k, and what holds at its end go by the least number for
which they fail; a list in time order exists because what is stored is finite and
dated. `KeptInv` adds these (`Stored`, `Calls`, `Notes`, `GoodQuery`: every load
and query under way has a finite, dated part of the store) to what is claimed of
states (`Counted`) and sessions (`Stacks`). A step either keeps every state's
events where they are or is a completion or a restart, which is `StatesOnlyGrow`.

`RebuiltAsItWas` speaks of the moments when nothing is under way. `FollowInv` says
what holds between them: a session is the replay of everything that has moved
it (`Held`), where that is what the store has or has in its buffer, what a
flush or an aborted call has taken from it, the calls under way and the events
about to be stored (`Moved`). Recording, writing or losing one then changes
nothing, and what moves a session is later than all of them (`Dated`,
`Awaiting`), so that it comes last in the new list: distinct times leave one
order (`OneList`), and the last of a list is replayed last (`RebuiltLast`).
That a request's operation and the replay of its trace do the same
(`ResolvedReplays`) needs a tidy stack: the main episode at the bottom, nothing
twice, no number above the last one given out. An event is not taken for one
seen before (`Unseen`), and a query that will install a session has read all
that has moved it (`Asked`), since a restart takes what is not written together
with the session that it moved. When nothing of a session is unwritten or lost
and no query leaves rows behind, all of this is in the store, and replaying it
gives the session. The property's premise is part of the claim: without it TLC
finds sessions that come back differently.

| Theorem | Says |
|---|---|
| `LoadInductive` | `Spec => []LoadInv` |
| `OneLoader` | `Spec => []LoadedOnce` |
| `Inductive` | `Spec => []KeptInv` |
| `CountsOnce` | `Spec => []CountedOnce` |
| `StaysOnStack` | `Spec => []ActiveOnStack` |
| `LosesNothing` | `Spec => StatesOnlyGrow` |
| `FollowInductive` | `Spec => []FollowInv` |
| `RebuildsAsItWas` | `Spec => []RebuiltAsItWas` |

`WatcherProofs` holds for any trials, files, bad rewards and numbers of crashes
(`WatcherAssumption`), and for Harbor's order of files (`HarborOrder`: the
trajectory is complete before the verifier's artifacts, `result.json` with its
final time is the last file). `SeenIsStored` is not inductive: that a batch is stored
when it is marked comes from the request that was accepted for it. `IInv` adds
what a request has passed on (`Passed`), that the request the sidecar waits for
carries its batch and no orphan does so for it, and that nothing waits once the
sidecar is dead (`Waiting`).

`FlushComplete` needs what a clean flush has covered so far: `Flushing` says that
every trial is either still to be scanned, in the batch, or stored, and that
scanning unchanged files again gives the same facts (`SameFacts`). That a fact
comes under one id (`Legit`) rests on what the files allow: a final result is the
last file, so what is read beside it is complete and dated. The order of steps
(`InOrder`) is that every event anywhere on its way comes after the steps before
it or the router has them already (`Follows`); it is kept through half-written
trajectories because a batch that is fresh over what was seen begins after it.

| Theorem | Says |
|---|---|
| `Inductive` | `Spec => []IInv` |
| `SentIsStored` | `Spec => []SeenIsStored` |
| `FlushIsComplete` | `Spec => []FlushComplete` |
| `FactsComeOnce` | `Spec => []FactOnceIfFinal` |
| `StepsComeInOrder` | `Spec => []StepsInOrder` |

`RoutingProofs` has two theorems about operators, for any state and any answer of
the decision model (`Decision`), and four about `Routing`, for any finite set
of requests, any messages, commands, answers and outcomes, any cost of a call
and any limits of safe control (`ProjectionAssumption`,
`SafeControlAssumption`, `RoutingAssumption`).

These rest on what one event does to the state of an episode: its counts stay
numbers, and only a call costs (`ProjectSound`, through every part of `Project`);
a verdict that failed names its floor (`VerdictNamed`), because the next
capability is derived last; and the record of a refusal leaves all that the
lasting gates look at (`RefusalProjected`). `FirstOf` is the first rule that
applies (`FirstApplies`), and no rule behind the stop gates has the name of one
(`RulesMild`). So a state of which a lasting gate has refused one message refuses
every message (`Refuses`, `RefusedAlways`) and goes on doing so until something
other than a refusal is recorded. `Heeding` says this of the present state and of
what open requests carry from when they were decided. An episode that is forgotten
begins again with an empty state, which owes nothing; a route that no gate was
asked about refuses nothing, and its end counts as something that comes after.

The bound on what is spent counts the open calls in (`Spending`): the cost and one
call for each request that a gate has let pass and that is judged or called stay
under `allowed` once the limit is passed. No request joins them then, since the
state refuses; one that is recorded pays for the call it was, and `allowed` grows
by one call with each that no gate was asked about: a pinned one or a confirmation.
What the probe's script posts is not the gate's to refuse and is allowed. Of an
agent that only pins, the theorem says no more than that its calls are all it
spends, and the code has no limit for it. The record of a completion sets the
cost, and with it the bound, back to where an episode begins, also while other
requests of it are open: their calls then count in the new state.

| Theorem | Says |
|---|---|
| `Inductive` | `RoutingSpec => []Heeding` |
| `VerdictIsHeeded` | `RoutingSpec => []VerdictHeeded` |
| `StopIsKept` | `RoutingSpec => []StopStays` |
| `SpendStaysBounded` | `RoutingSpec => []SpendBounded` |
| `FloorIsKept` | a floor that is enforced, derived from some state by `NextCapability`, is met by the route `Decided` gives for any decision, one that names its action included, as `routeCapability` rates a route; if the decision was below it, the route is on the capability's own model |
| `BudgetWithin` | a budget is between its profile and the ceilings |

`OutcomesProofs` holds for any acts and verdicts of the shapes the extractor gives
them (`TrialAssumption`: an agent calls a model or a tool, and when it is done
there are its patch, the tests, the result and an exception), for any bound on
moments, any window of events and any threshold (`OutcomesAssumption`). What the
extractor writes is a function of the whole log, computed by two folds for
annotation and one for derived events. A fold of the library is first shown to be
one step more for one event more; `Grows` then says what one more event does to
the record: it adds the event, or the event and one derived from it, in either
order, and changes nothing before them. That the second annotation changes
nothing follows because a derived event leaves the readiness alone
(`DerivedSays`). `OInv` says of every reachable state that its log is well formed
(`AllSound`), dated and with no two calls at one moment (`Timed`), and that the
record and the reduced state are what the folds make of it. From it:

| Theorem | Says |
|---|---|
| `RecordIsFold` | `Spec => []OInv` |
| `PastIsSettledHolds` | `Spec => PastIsSettled` |
| `OncePerStretchHolds` | `Spec => []OncePerStretch` |
| `InOneWindowHolds` | `Spec => []InOneWindow` |
| `CountsAgreeHolds` | `Spec => []CountsAgree` |
| `FloorsAgreeHolds` | `Spec => []FloorsAgree` |

`OncePerStretch` needs what the fold's flag stands for (`Once`: while it is open
there has been no signal since the last derived event). A decision's evidence is a
prefix of the record because the record is in time order (`Dated`), and a prefix
of the record is the record of a prefix (`Longer`). Every event belongs to one
window because calls are at distinct moments (`CallsApart`), the derived ones
included, which carry their trigger's time.

The last two theorems are about two programs over one log: the router projects
each event into its state as it arrives (Go), the extractor annotates the whole
record, derives events and counts in it (Python). `LInv` adds to `OInv` that the
router's state is a fold of the log as well, and that after the verifier's tests
nothing but the agent's own patch changes a file (`Ordered`). Then both are
followed along the prefixes of the log (`SideMore`, `AlwaysBoth`). What is related
after each event is `Match`: the counters of the state are the numbers of the
events in the record that say so (`Tallied`), and the readiness of the two is the
same, for any trial. `MatchPlain` says the same of what is counted since the last
progress (`Sinced`), of a replan and its hypothesis (`Replanned`) and of the
validations (`Tested`), as long as every event is one that both take for the same
(`Alike`). An event that the extractor derives disturbs neither (`Quiet`). That
`Tested` is needed shows only in the proof: a test that the verifier reports as
passed counts as a validation in one of the programs and not in the other, and
the delivery floor asks for none; it stands because such a test takes the episode
out of `delivery_candidate`, and of the events both take for the same none after
the tests brings it back (`Ordered`).

From there `CountsAgree` is a matter of the definitions. For `FloorsAgree` the two
chains of rules are first given one form (`Chain`: `ReasonIs` for
`next_capability_state`, `NextIs` for `deriveNextCapability`), then their guards
are shown to agree but for the truncated application (`GuardsAgree`), and last
what two chains with such guards may come to (`ChainsAgree`).

Model-checked only:

- Everything under fairness: `TrialEnds`, the liveness part of `KeepsPromise`,
  `Settles`, `Delivered`, `FlushEnds`. TLAPS has no rules for fairness.
- `RoutesAsExpected` and `StatesAsExpected`: each compares a state with the
  values a script writes down, so a proof would be the evaluation of every
  scenario, which is what TLC does, and for every value of the limits it is false:
  the expectations are those of the probe's own configuration.

## 5. Findings

1. `reset` keeps the header map (`writer.go:145`): an answer after a retry
   carries the failed attempt's header fields too, its Content-Length first.
2. `WriteHeader` takes an informational status for the final one
   (`writer.go:45`): after a 103 an upstream error is sent to the client as a
   success and reported to the breaker as one.
3. The backfill of an episode also looks traces up by session
   (`episode.go:2394`), and a main episode's id is its session's key: loading
   the main episode projects the calls of all its branches into it, although a
   call is to be projected into the state of its own episode (`README.md:399`).

Observed while reading, without a run of their own:

- The fallback to log-only of the audit plugin (`audit/plugin.go:86`) changes a
  copy of the configuration: records are neither logged nor stored
  (`audit_store` starts from an open database).
- The recovery that is to escalate once (`docs/rsi/README.md:247`) may be
  repeated: the reminders are counted in the window of recent events, and two
  failures that alternate overwrite each other's mark (`safe_control.go:1300`).
- A verifier's failure comes after the repeated failure in `deriveNextCapability`;
  once that has been escalated, no rule acts on either (`VerdictHeeded` names the
  exception). A stall or a truncated application goes past the cost gate
  (`SpendBounded` names it, `excused`).
- A request that pins a model of the menu, or the fallback model, returns before
  the gates (`plugin.go:248`), and its cost is recorded: no limit of an episode
  holds for an agent that pins (`Pin`; `allowed` in `SpendBounded`).
- A decision for the cheap model that names the action `premium_recover` counts as
  the strongest (`plugin.go:815`), so that a floor of the strongest is met by the
  cheap model with a larger budget (`FloorIsKept` says what is met).
- A decision that names `completion_guardrail` as its action ends the episode when
  its call is recorded (`episode.go:600`), with the cost the gates look at.
- A refused call is recorded as the last action, which makes an applied
  hypothesis look open and lifts two of the gates (`StopStays` names it).
- The extractor counts a failed test of the verifier as progress that ends a
  stretch; the router does not (`CountsAgree` is claimed without one), and
  `docs/rsi/progress-rules-v1.yaml` lists only passed ones.
- `leaked` in `build_replay_cutoff_check` is filtered by the comparison it tests
  and is always empty; that a replay sees only its past is `PastIsSettled`.

What holds but surprises: after availability changes in the middle of a
weighted selection the counters no longer sum to zero (the payback is computed
from the first pass), so `WeightConserved` is claimed without changes only; and
`PicksAvailable` holds throughout. A half-open breaker's refusal costs an
attempt, so a request may end in a 503 while another endpoint is healthy.

In `EpisodeRuntime`, a request never rebuilds a session, only a query of
`/v1/episode-sessions` does; after a restart, and after the completion of a main
episode, the branch numbers therefore start again, and an interrupt may take the
id of an old branch together with its history. A trace is in a buffer until a
flush writes it, so a crash takes up to 49 calls and an interruption among them
from the session that is rebuilt, while an event that was posted after them is
there. The queries return the 1000 oldest rows: of a longer session the rebuild
lacks the end, the active branch included. A call that ends for want of a pool has
moved its session and is never recorded. A load that fails or finds
nothing is not repeated, and an event that arrives first prevents it.

## 6. Plan

What would come next, in this order: the decision cache and warm starts in
`Routing` (a cached route is judged with the floor of a newer state); the four
snapshots of one request apart; `Routing` composed with `EpisodeRuntime`, so that
a restart between a decision and its record is covered; that an interrupt starts
with an empty state (`plugin_test.go:1751` checks it for a fresh session), which
the reuse of branch numbers contradicts.

Theorems: every invariant that the runs check is proved but for the probe's
tables; what remains are the temporal properties, which are out of reach here, and
the theorems of what is modelled next.

## 7. Not modelled

- Policy gate, screening, replay, reports, analysis and benchmark scripts: one
  pass over finished files. What a replay may see is checked in `Outcomes`.
- Decision cache, warm starts and rate limiter: a map under one mutex, a count
  of the first calls, and two calls of a library in turn. A warm start comes
  before safe control, like a pinned model, and is bounded by its number of
  calls; `SpendBounded` is of a gateway without one. A cache hit gives a
  decision of an earlier request, which `Judged` already allows by any answer;
  its floor is that of `Decided`.
- Hot reload: requests keep the objects they began with, so the swap changes
  nothing under them; the shutdown's race with the audit store is in `AuditStore`.
- Plugin registry, task router, configuration, observability, billing: values
  and lists without shared state of their own.
- Within modelled components: regular expressions over messages, commands and
  outputs (their results are inputs), prompts, summaries and evidence texts,
  model discovery, schema migration, reads of the store that change nothing.
