# ModelRoute, verified

ModelRoute is an HTTP gateway in front of several LLM providers. It limits each client's
rate, routes a completion to the providers in an order chosen by a strategy, caches the
answers, retries and falls back when a provider fails, and records one telemetry row per
completion, which a dashboard displays. This directory holds TLA+ models of its parts, TLC
configurations that check them on small instances, and TLAPS proofs of the theorems that
matter most. Paths below are relative to the repository's `src/`.

    tlc -workers 2 -config MCCompletion_service.cfg MCCompletion
    tlapm CompletionProofs.tla

## 1. Inventory

| component | state | operations | what is hard about it |
|---|---|---|---|
| Completion service (`app/services/completion_service.py`) | per request: route, candidate, attempt, last error, answer | `complete`, `_record_success`, `_record_failure`, `_response` | many coroutines interleave at every `await`; retries and fallback depend on sequences of errors; only `ProviderError` is caught |
| Router (`app/services/router.py`) | none (the providers of the deployment) | `route` with fixed, cheapest, fastest | ties; estimates that depend on the request; averages that change while a request waits |
| Latency tracker (`app/services/latency.py`) | one moving average per provider | `record`, `get` | updated in the order in which concurrent calls return; lost at a restart |
| Response cache (`app/services/cache.py`) | Redis keys with a TTL | `build_key`, `get`, `set` | shared by all requests and processes, outlives configuration changes, may fail silently |
| Rate limiter (`app/services/rate_limiter.py`) | one token bucket per client in Redis | `allow` (a Lua script) | many processes, a clock that may step back, expiry, calls resent or lost |
| Completion endpoint (`app/api/routes.py`) | none | `create_completion` | the limiter before everything else; mapping of outcomes to 200, 429, 503, 500 |
| Telemetry (`app/services/metrics.py`, `app/db/`) | table `request_metrics` | `record_success`, `record_failure`, `summary`, `recent` | inserts that fail before or after the commit; two statements that see different rows |
| Metrics endpoints and dashboard (`app/api/metrics_routes.py`, `app/templates/dashboard.html`) | what the page shows and claims | page load, timed refresh | overlapping refreshes, partial failure |
| Provider adapters (`app/providers/`) | an SDK client each | `generate` | overlapping exception classes, two timeouts racing |
| Demo page (`app/templates/index.html`) | the form, the request in flight, the last payload that succeeded, the buttons' labels | submit, repeat, copy | user actions while a request is in flight; a second copy before the label is restored |
| Benchmark (`scripts/benchmark.py`) | a queue of payloads, the list of outcomes, the summaries | cases, warm-up, workers, percentiles, exit code | workers sharing a queue and a list; a zero warm-up; interpolation at the ends |
| Start-up and shutdown (`app/main.py`, `app/db/database.py`) | clients and pools | `create_app`, `lifespan`, `initialize` | a database that is down at start leaves no table; a page that outlives the process |
| Settings, schemas (`app/config.py`, `app/api/schemas.py`) | settings | validation | ranges only |
| Database URL (`app/db/database.py`) | none | `prepare_database_connection` | parameters the driver does not know; two ways to ask for TLS |
| Deployment (`Dockerfile`, `docker-compose.yml`, `render.yaml`) | none | none | Redis keeps nothing on disk |

How they interact: the endpoint asks the limiter (Redis) and then calls the service; the
service asks the router, which reads the tracker; for each candidate it reads the cache,
calls the adapter, records the latency, and writes the cache; in the end it inserts the
telemetry row and returns or raises. The dashboard reads the rows through the metrics
endpoints. The only state that requests share is in Redis, in PostgreSQL and in the tracker.

What makes each part correct:

- *service*: a candidate is given up only when it has refused for good or its retry budget is
  spent; no more calls than the budget; a truthful row for every outcome; every request ends;
- *router and tracker*: the provider preferred by the strategy answers unless it has failed;
  the average stays within what was measured;
- *cache*: whatever is served was generated for this prompt, by this provider and model, with
  the parameters that reach the provider;
- *limiter*: over any stretch a client takes at most a full bucket plus the refill;
- *endpoint*: no work that is not paid for;
- *dashboard*: figures that agree with each other, are as new as the refresh that fetched
  them, and catch up;
- *demo page*: one request at a time, and a view that is about that request alone;
- *benchmark*: every payload measured once, and an exit code that tells the truth;
- *start-up*: what a URL says of TLS, for libpq or for the driver, lets the gateway serve; a page
  left open shows an outage for as long as it lasts and recovers after it.

`PROJECT.json` lists the hazards of the code line by line, with the properties that cover them.

## 2. Modules

| module | models | extends |
|---|---|---|
| `Routing` | eligibility, the three orders and their tie-breaks, cache keys, the average: pure operators | |
| `Completion` | the service, the cache, the tracker, the inserts, expiry, restart | `Routing` |
| `Promise` | abstract: what a completion promises, without cache, attempts or order | |
| `CompletionPromise` | the refinement mapping from `Completion` to `Promise` | `Completion`, instance of `Promise` |
| `RateLimiter` | the Lua script, the Redis clock, expiry, calls that are resent, lost or refused | |
| `Attempts` | the adapters and the loop around them in time: timers, latencies, and which exception becomes which category | `Completion` |
| `Gateway` | the endpoint: the limiter and the service over the same requests | `Completion`, `RateLimiter` |
| `Dashboard` | commits, the two reads, the endpoints' refusals, the page and its timer | |
| `Lifecycle` | the database URL, start-up, stops and outages, under the open dashboard | `Dashboard` |
| `Console` | the script of the demo page | |
| `Benchmark` | the benchmark script and its workers | |
| `CompletionProofs`, `RateLimiterProofs`, `ConsoleProofs`, `BenchmarkProofs` | theorems | the module of the name |
| `PromiseProofs` | theorems about the promise and about telemetry | `CompletionPromise`, `CompletionProofs` |
| `AttemptsProofs` | theorems | `Attempts`, `CompletionProofs` |
| `GatewayProofs` | theorems | `Gateway`, `PromiseProofs`, `RateLimiterProofs` |
| `DashboardProofs` | theorems about the dashboard, and about its page in the lives of the process | `Lifecycle` |
| `MCCompletion`, `MCAttempts`, `MCRateLimiter`, `MCGateway`, `MCDashboard`, `MCLifecycle`, `MCConsole`, `MCBenchmark` | instances for TLC | the module of the name (`MCCompletion`: `CompletionPromise`) |

### Completion

The process is one asyncio event loop: a request runs alone from one `await` to the next, so
**one action is one such stretch**. `pc[r]` names the `await` in which request `r` is
suspended. The actions and the code:

| action | stretch of `complete` |
|---|---|
| `ArriveNoProvider`, `Arrive` | routing, up to the first cache read or the recording of `NoEligibleProviderError` |
| `LookupHit`, `LookupMiss` | `cache.get` returns (a failed read is a miss); a miss starts the first attempt at once |
| `AttemptSucceeds` | the adapter returns; `latency.record`, up to the cache write |
| `AttemptRetries`, `Backoff` | a retryable error with budget left; the pause, if one is configured |
| `AttemptFallsBack`, `AttemptExhausts` | an error that ends the candidate; the next lookup or the recording |
| `AttemptRaises` | an exception that is not a `ProviderError` |
| `Store`, `Record`, `Return` | the cache write, the insert, and the response or the exception |
| `Expire`, `Restart` | a TTL or an eviction; another process with other settings |

Abstractions: a prompt is a model value with a token estimate; an answer is what identifies
it (provider, model, prompt, effective parameters, and the request that paid for it);
temperature is left out because no adapter sends it; a cache entry that cannot be decoded
counts as a failed read; latencies and averages are integers and the average is rounded down;
of the cost a row keeps only whether the answer is charged. `Faults` says what may fail:
`redis`, `postgres`, `process`, `adapter`. A write that fails may or may not have taken effect.

### Promise and CompletionPromise

`Promise` knows requests, the terms they come with, providers that are given up one by one, and
answers. It forbids what no client should see: an answer of a provider that was given up, an
answer to other terms, one nobody has made, a refusal while somebody is left, a second row.
Under the mapping a request is *open* until its last lookup or attempt, *won* or *refused* while its
outcome is stored and recorded; the providers before `idx` are given up; its terms are its
body and the deployment it arrived in. Retries, pauses, cache writes, expiry and failed reads
are stutters of `Promise`; `Restart` is `Lose`; an exception that is no `ProviderError` is the `Close` of an
open request. `Promise` says nothing of how long anything takes.

### Attempts

Every step of `Attempts` is a step of `Completion` that also says *when* it may happen, or a tick
of the clock. `wait` is how long the current attempt or pause has lasted, `age` the same over the
whole request, `cause` what ended its last failed attempt. The event loop handles a timer that is
due before time moves on (`Due`); at that instant the answer may still come first, so the race of
the answer, the SDK's timer and `asyncio.timeout` is nondeterministic. The SDK's timer is renewed
by every byte that arrives, so it fires after `SdkTimeout` at the earliest, or never; it is
the whole number of milliseconds below the timeout that `gemini_provider.py:70` passes on.
The mock runs under no timeout at all. `Clauses` lists the `except` clauses of the two adapters
in their order, `ClassesOf` the SDK classes that an exception is an instance of; the latter is
how the SDKs behave as far as the clauses distinguish, and is external to the repository. A
response that the SDK cannot make sense of is an instance of no class that a clause names.
Time counts while a request calls a provider or pauses; Redis and PostgreSQL take none here.

### RateLimiter

Redis runs the script atomically, so `Execute` is one step; everything around it interleaves:
sending, a reply lost with its connection and the call sent again by the Redis client
(`Resend`), the decision, a failure before or after the script ran (`Unavailable`, 503).
`now` is the server's clock: it ticks and it may step back. `travel` counts its forward movement
only. Tokens are counted in grains, so that fractional refills are exact in integers. `Watch`
begins a stretch over which `count` is compared with the bound; `Forget` (Redis loses its data
or evicts a live bucket) restarts it, because nothing is promised across such a loss.

### Gateway

There is no `await` between the limiter's answer and the first `await` of the service, so
`Admit` is `Decide` and `Arrive` in one step. Losses of Redis and of the process are
left to the two parts. Two clients behind one address are one client here, as in the code.

### Dashboard

A row never changes once it is written, so a statement's result is determined by the rows it
can see, and the variables hold those sets. PostgreSQL runs at READ COMMITTED: `ReadTotals` and
`ReadBreakdown` are two steps. Rows are numbered by timestamp, and a timestamp is fixed when the
inserting transaction starts: `Commit` may commit them in any order. `Poll` may start a
refresh while others are under way, as `setInterval` does.

### Lifecycle

Every fetch of `Dashboard` is answered by whichever process is listening. `Launch` builds the application:
a URL that `prepare_database_connection` refuses ends the process with its `ValueError`. `Start` creates
the table, or logs that PostgreSQL is down and continues (`Initialize`, `ContinueWithoutDatabase`);
after the second the table is missing until a later start, so every read is refused even when
PostgreSQL has come back. `Stop` breaks the fetches under way, `Toggle` takes PostgreSQL away or brings it back.
A start that the driver refuses ends the process with an exception that nobody catches (`StartFails`).

A URL is a scheme and a query, a function from parameters to texts. `Accepted` looks at three
parameters, as the code does; `Arguments` is what reaches the driver: every parameter that is not removed,
whether the code knows it or not, spelled as it stands, and the translated TLS mode. Which arguments
the driver takes (`DriverArguments`) and what a text is without capitals (`Casefold`) are external, and
constants; `LifecycleAssumption` says only that the driver takes every TLS mode, which includes that the deployment
has the certificates a mode needs. `Plain` is a URL that the driver would take as it stands, were it not for
what it says to libpq about TLS. The two kinds of exception the code catches (`SQLAlchemyError`, `OSError`)
are taken to cover every other way a connection can fail, a refused password for instance; a stop
while the process starts is left out.

### Console

The script of the page runs alone between two awaits. `Send` is `sendRequest` up to its first await,
with the guard `inFlight`; `Respond` is the arrival of the headers, `Succeed`, `SucceedUnreadable` and `Fail` the
three ways on from there. The visitor may edit, submit from button or keyboard, repeat, and copy at any time
(`Edit`, `Submit`, `Repeat`, `Copy`). A copy waits for the clipboard and then for its timer of 1.2 s
(`Copied`, `CopyFails`, `Restore`); timers of one button fire in their order. What the page says is
kept only as far as the properties tell it apart.

### Benchmark

One worker's step takes in the end of a request, the appended outcome and the next payload,
since there is no await between them. The gateway is external: it looks a prompt up at one moment
(`Lookup`), answers at a later one, keeps what it made, and may forget it (`Evict`). `Percentile`
is the interpolation of the script at twentieths, times 20, so that it stays an integer. `Nth` is
what sorting is for there: the k-th smallest value is the one that fewer than k are smaller
than and at least k do not exceed, which needs no order of the sequence and no recursion.

## 3. Runs

| run | instance | shows |
|---|---|---|
| `service` | 2 requests, 2 real providers, no provider, and mock only; two retries with a pause; one retryable and one final error; Redis, PostgreSQL, the process and the provider's client faulty | types, retry budget, fallback only after exhaustion, no call after a final error, the configured provider answers, truthful rows, and the refinement of `Promise` |
| `shared` | 3 requests, for the fastest provider with one value of max_tokens and for the cheapest with another, prices that change order between them; latencies 0 and 5 around the initial 2, weight 3/10; a change of the models across a restart; Redis faulty | the cache and all answers are genuine; one row per completion; the preferred provider answers; the order follows the latencies, the average is bounded, and no candidate is skipped when it moves |
| `unrecorded` | 2 requests and one retry, and only the adapter may fail | **violation**: a completion without a row (below) |
| `attempts` | 1 request, 2 real providers, no provider, and mock only; 2 retries, pause 2, timeout 3, SDK timeout 2, mock latency 2; 8 statuses, two of them 5xx and one (404) that only the general clause catches; fair | time is bounded, the average stays within the timeout, transient failures and no others are retried, the request ends whatever the upstream does |
| `limiter` | 1 client, 3 requests, 2 sends each, capacity 2 tokens of 2 grains, clock steps of 3 ticks (1.5 s) forward and back, 12 ticks in all | admission bound, payment, conservation of tokens; expiry gives nothing away |
| `gateway` | 1 client, 2 requests, 2 sends, a bucket of 1 token refilled at 2 per second; both providers or none; fair | paid work, bounded upstream calls, every request ends |
| `dashboard_page` | 2 rows of 3 kinds, 2 overlapping refreshes, list of 1; both faults | counters agree, freshness, no gap in the list |
| `dashboard_overlap` | 1 row, 2 overlapping refreshes, no faults | **violation**: an older picture announced as up to date (below) |
| `lifecycle` | 1 row, 2 overlapping refreshes, any number of starts, stops and outages; four URLs: as hosted databases hand it out, with a TLS mode in capitals and a parameter of the driver's own; one that is refused; one with `application_name`; one that spells the driver's TLS parameter in capitals; fair | whatever a URL says of TLS the gateway comes up, every refresh ends, an outage is shown while it lasts, the page catches up after it |
| `startup` | the URL with `application_name` | **violation**: an adapted URL with which the gateway does not start (below) |
| `console` | 2 texts, 2 strategies, 2 copies of a button at a time; fair | one request at a time, a view about it alone, forms and buttons that become usable again |
| `benchmark` | 2 workers, 3 requests, both scenarios, no warm-up asked for, latencies 0 and 3, every fault | every payload measured once, percentiles where they belong, an exit code that tells the truth |

Why these bounds are enough to reach the interesting cases. Two requests suffice for every
interference through the cache and the tracker, since a request reads a key once per candidate;
the third one in `shared` lets two requests prepare the state that a third one finds. Two retries distinguish the first, a middle and the last attempt; two candidates
distinguish the first from the last. In `limiter` three requests, each sent twice, can empty the bucket
and ask again after a partial refill, a jump of three ticks leaves a fraction of a token, and
twelve ticks outlast the bucket's lifetime (BucketTTL is 8). One client is enough there because
buckets share nothing but the clock; the theorems are about any number. In `attempts` one request is enough
because its timers depend on no other request; a timeout that differs from the pause and from the
SDK's limit lets every order of the timers happen. In `dashboard_page` two rows and two
refreshes give every order of commits, statements and responses; in `lifecycle` one row
can be written before, between and after two refreshes and two outages. In `console` two copies are the overlap that
matters. In `benchmark` three payloads over two workers leave one that either may take, and
three outcomes put p50 on an outcome and p95 between two. `MaxTravel`, `MaxRows`,
`Slots` and `MaxCopies` exist to bound the state space; the theorems hold for every value of them.
Symmetry is used only in runs without liveness, over requests that have the same owner or over
refresh slots.

Deadlock is checked in every run but `benchmark`, whose script ends: `Idle` and `GatewayIdle` are the
steps of a process that has nothing to do, the timer keeps the dashboard going, and a visitor may always edit.

### Fairness

- `Gateway`: weak fairness of what limiter and service do for each request that was sent. The
  upstream calls run under `asyncio.timeout` or the SDK's timeout, `asyncio.sleep`
  ends, the number of sends is bounded by the Redis client's retry policy, and the Redis and
  PostgreSQL clients return or raise. None is assumed of arrivals,
  expiry, restarts or changes of the clock. `Completion` and `RateLimiter` alone are checked without fairness:
  that a request ends is asked of `Gateway` and of `Attempts`.
- `Attempts`: time passes and the process does its part (`Prompt`): timers fire, Redis and
  PostgreSQL answer or raise. Nothing is assumed of the upstream, which may never answer, nor of the
  SDK's timer. That `Termination` holds here is what justifies the fairness of the service in `Gateway`.
- `Lifecycle`: a start ends, fetches end, the timer fires, and the page's script handles what arrives.
  The page sets no timeout on its fetches, so their ending is owed to browser and server.
  Nobody has to launch or stop the process, to visit the page, or to repair PostgreSQL: `CatchesUp` speaks of
  behaviours in which the process stays up after a start that reached PostgreSQL.
- `Console`: a fetch settles, the clipboard answers, timers fire. Visitors owe nothing.

## 4. Proofs

Theorems hold for every value of the constants that satisfies the named assumptions
(`RoutingAssumption`, `CompletionAssumption`, `AttemptsAssumption`, `RateLimiterAssumption`,
`GatewayAssumption`, `DashboardAssumption`, `LifecycleAssumption`, `ConsoleAssumption`, `BenchmarkAssumption`,
and that `None` and `NoBucket` are not members of the sets they stand beside); these are the ranges
that `config.py`, the schemas and the benchmark's command line enforce, and TLC evaluates them in
every run. `GatewayAssumption` says that every request has its check. `LifecycleAssumption` is
about the driver, and of the URLs says only that they consist of texts. `MCLifecycle` fixes the faults for the run's liveness (`BothFail`), the
theorems hold for any.

| theorem | argument |
|---|---|
| `CompletionProofs!TypeCorrect` | the type invariant is inductive; it includes that a request being served stands at a candidate of its own route |
| `EveryStepCounts` | `StepsLeft` bounds the steps a request still has: those of its later candidates, what is left at the one it stands at, and storing, recording and returning. A fallback resets `tries`, so the measure must charge a whole candidate for it; `StepsOfLaterCandidates` is the arithmetic. This is the safety part of termination; that the request gets its turns is fairness, which TLC checks |
| `AnswersAreGenuine` | `CacheSound` is needed for answers taken from the cache, and it is preserved only because an answer waiting to be stored is genuine: `GenuineInv` joins both and adds that a request being served still has the deployment it arrived in |
| `CandidatesAreExhausted`, `CallsStayInBudget`, `FinalErrorsAreFinal` | `ProgressInv` relates the program counter, `tries`, `calls` and `fate` of a request: what was called so far is exactly what its position says. None of the three is inductive alone |
| `CacheIsSound` | the part of `AnswersAreGenuine` that is about the cache |
| `PreferenceIsKept` | `RankedInv`: of two candidates of a route the later one is not preferred (`RoutesAreRanked`, over any prices and estimates); with `ProgressInv`, whoever stands before the answering candidate is exhausted |
| `SpeedIsRewarded` | what is taken for a latency lies within the experience it stands for, by `AverageIsBounded`; `Measured` adds that a provider with a call has an average |
| `AverageIsBounded` | the average lies between two members of `seen`; the arithmetic of `Blend` is a lemma of its own |
| `PromiseProofs!PromiseKept` | every step of `Completion` maps to a step of `Promise` or a stutter (`StepMaps`). It needs where answers come from: `OriginInv` says that what the cache keeps is the answer its maker still holds, that an answer came from the cache exactly if it was made for another request, and that rows belong to requests past their insert |
| `PromiseIsWorth` | about `Promise` itself, so for whoever implements it: `WorthInv` adds to what is claimed that an answer made is one its maker still has, and that an open request has none and no row. It guards the refinement against a promise too weak to mean anything |
| `TelemetryIsTrue` | a row is true when it is written, from `ProgressInv`, `OriginInv` and `Served` (an answer was called for unless it came from the cache), and no later step touches what it speaks of (`RowsSettled`) |
| `NoCompletionIsMissing` | under `Faults \cap {"postgres", "adapter"} = {}`, `Logged` is inductive: past its insert a request has exactly one row. The finding below shows that the hypothesis on the adapter cannot be dropped |
| `AttemptsProofs!AttemptsImplementCompletion` | a timed step is a step of `Completion`, for which the latency it records has to be one of `Latencies`: `TimerInv` shows that no attempt outlives its limit |
| `TimeStaysBounded` | `TimerInv` also bounds `age` by what the position of the request accounts for: complete candidates, rounds of attempt and pause, and the current wait (`FitsCandidates`). The bound on the whole route is not inductive without it |
| `AverageStaysWithinTimeout` | from `AverageIsBounded`, carried over, and the samples' bound in `TimerInv` |
| `TransientFailuresRetried` | `ClassifiedRight`: for every cause and clause, what is raised is retryable exactly if the failure may pass, although the classes overlap; the statuses are any set of numbers |
| `RateLimiterProofs!LimiterTypeCorrect`, `ExpiryGivesNothing` | the lifetime covers a refill from empty for every capacity and rate (`CeilDiv` is a lemma) |
| `AdmissionsAreBounded` | `Budget`: the tokens taken plus what the bucket *would* hold at its best never exceed the full bucket plus the refill; the clock's steps back make the bucket's own timestamp useless as a measure, so `Budget` is stated over `travel` |
| `NobodyPaysForOthers` | an action property, by cases of `Next`: what each step leaves in the bucket of every client (`ExecuteTakes`, `ExpireKeeps`, `TickTakesNothing`) |
| `NobodyGetsInForFree` | `Ledger` adds where a call stands: nothing spent before it is sent, less than its sends while the answer is out, at least a token once granted |
| `GatewayProofs!GatewayStaysSafe`, `GatewayKeepsPromise` | the theorems about the parts, carried over by the lemma `GatewayKeepsParts` (by its shape, every step of the gateway is a step or a stutter of each part): what is proved of service, promise, telemetry and limiter alone holds behind the endpoint |
| `WorkGetsPaid` | `PaidInv` links the limiter's `granted` and `spent` to the service's `pc`; the number of calls per token is taken over from `CompletionProofs` |
| `BillIsBounded` | `BillInv`: the requests a token was taken for are at most the tokens taken since the start (`ExecuteCharges`: a request charged twice counts once, its tokens twice). Every upstream call of a client is one of its charged requests, at an eligible provider of the deployment it is routed in (`RoutedAtHome`), in one of `MaxRetries + 1` attempts; `CostOfCalls` counts that product |
| `DashboardProofs!TypeCorrect`, `PagesAreFresh`, `CountersStayTogether` | `FreshInv`: what a statement has seen contains what was committed when it was asked for, and the second statement sees what the first saw |
| `ListsSkipNothing` | `NewestLists`: among the rows not listed the newest has `Limit` newer ones, all listed, and so has every older row (the newest exists by well-founded induction over a finite set); `ListInv` carries it from the read to the page |
| `PagesSurviveRestarts` | `Lifecycle` does not implement `Dashboard`, since a stop breaks several fetches in one step. `StepsOfTheLife`: every other step is one of `Dashboard` or leaves the page alone; `StopKeepsPage` shows the page's invariants again for the one that is not |
| `StartsStaySound` | `AcceptedIsUnderstood`: for any set of URLs, an accepted one is understood by the driver exactly if it is `Plain`, because a removed parameter comes back only as a TLS mode that was checked. So a process serves only with an accepted and plain URL, and a start fails only with one that was accepted and is not plain |
| `ConsoleProofs!PageIsTrue` | `AtMostOne`: no second request is ever under way; without it a second response could overwrite what the first has left |
| `BenchmarkProofs!ResultsAreRight` | `CountInv` accounts for the payloads of a case: in the queue in their order, with one worker each, or turned into an outcome (`Draining`), and says that a finished case has the result of its outcomes. `NthIsThere` (by finiteness, with no induction over the sequence) makes the percentile's neighbours exist, and `PercentileSplits` counts the outcomes on either side of the interpolated value |
| `ExitCodeIsTrue` | `TruthInv`: whatever disturbed a measured request shows in the results, or will in those of the case under way, and in nothing else. `QuietInv`: while nothing is disturbed the gateway holds a cached case's prompt from its first warm-up on, and no uncached prompt before its own request asked for it, because `PromptsDiffer` |

Only model-checked: the liveness properties, `Termination`, `EveryRequestEnds`, `RefreshEnds`,
`CatchesUp`, `GatewayServes`, `OutageShows`, `RequestEnds` and `LabelReturns`: liveness under fairness
is beyond the prover. `EveryStepCounts` proves the part of `Termination` that is safety. Every
other property of a passing run is stated by a theorem.

## 5. Findings

1. **A completion without its row** (`unrecorded`). `README.md:122` promises "one privacy-safe
   telemetry row per completion reaching the service". `complete` catches only `ProviderError`
   around `provider.generate` (`completion_service.py:93`): any other exception of an adapter
   leaves it before anything is recorded, and the client gets a 500. Redis and PostgreSQL work in
   this run; with a failing PostgreSQL the code openly accepts the loss. In `shared`, where
   adapters raise nothing else, the property holds, and `NoCompletionIsMissing` proves it.
2. **Older numbers announced as current** (`dashboard_overlap`). `refreshMetrics` is started by
   `setInterval` even while an earlier call is waiting, and draws whatever arrives
   (`dashboard.html:236`): a slow response overwrites a later one and the page says "Metrics up to
   date" (line 237) over fewer requests than it has already shown. The next refreshes repair it
   (`CatchesUp`).
3. **A URL that is adapted and cannot be used** (`startup`). `prepare_database_connection` is there to
   "adapt standard PostgreSQL URLs for SQLAlchemy's asyncpg dialect" (`app/db/database.py:43`), and leaves
   every parameter in the URL that it does not translate or remove (line 81);
   `tests/test_database.py:32` asserts that `application_name` stays. The driver has no such argument
   and raises a `TypeError`, which `main.py:119` does not catch: the gateway does not start, although
   its settings were accepted and although it is meant to start even without PostgreSQL. `GatewayServes` and
   `StartsStaySound` are therefore about `Plain` URLs.

Observations, which contradict no promise of the repository:

- Copying again within the 1.2 seconds of a confirmation makes the second timer restore "Copied",
  which stays until the page is reloaded (`LabelReturns` excludes it by `overlap`).
- A copy that the clipboard refuses is shown in the box headed "Request failed", even beside a
  response that succeeded.
- A TLS mode in capitals is accepted in either parameter, but only `sslmode` is passed on without them:
  with `ssl=REQUIRE` the start fails like that of finding 3 (`lifecycle` has such a URL).
- `sslmode=disable&channel_binding=require` is accepted, although a channel binding needs TLS.
- A gateway that starts while PostgreSQL is down never creates its table, and its metrics stay
  unavailable after PostgreSQL has returned, until the next start. The hypothesis `reached` of `CatchesUp` is about that.

## 6. Not modelled, and the plan

Left out for good:

- request validation (pydantic) and the command line of the benchmark: ranges, which are the assumptions
  on the constants here;
- sums, averages and percentiles computed by PostgreSQL, and the drawing of charts;
- the order in which `lifespan` closes Redis, the providers and the database (`main.py:125`): the process
  ends after it, and neither a client nor the next process can tell whether a close was skipped;
- packaging and deployment, except that Redis keeps nothing on disk (`Forget`, `Expire`).

Done in this order: `Routing` and `Completion`, `RateLimiter`, `Gateway`, `Dashboard`,
`Attempts`, `Promise`, `Lifecycle`, `Console`, `Benchmark`, and the proofs of all of them. What could follow:

1. `Gateway` over `Attempts` in place of `Completion`, to bound the time of a paid request.
2. In `Attempts`, the time a request has left as a measure like `StepsLeft`, to bound how long it can
   still take from any position.
