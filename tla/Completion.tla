----------------------------- MODULE Completion -----------------------------
(***************************************************************************)
(* One process of the gateway serving completions (CompletionService in    *)
(* app/services/completion_service.py) together with everything its        *)
(* requests share: the response cache in Redis, the latency tracker in the *)
(* process, and the telemetry table in PostgreSQL.                         *)
(*                                                                         *)
(* The service is a coroutine per request, so a request runs alone from    *)
(* one await to the next. Each action is one such stretch: what happens    *)
(* when the awaited call returns, up to the next await. pc names the await *)
(* the request is suspended in:                                            *)
(*   new         not arrived yet                                           *)
(*   lookup      reading the cache for candidate route[idx]                *)
(*   attempt     calling candidate route[idx] for the (tries+1)th time     *)
(*   backoff     sleeping before the next attempt                          *)
(*   store       writing a fresh answer to the cache                       *)
(*   record      inserting the telemetry row                               *)
(*   recorded    the insert is over, the service has not resumed yet       *)
(* and how it ended: answered, failed (503), error (an exception the       *)
(* service does not expect, 500), lost (the process stopped).              *)
(***************************************************************************)
EXTENDS Routing

CONSTANTS
    Requests,    \* the completions that reach the service
    Queries,     \* the bodies they may carry
    Configs,     \* the deployments a process may be started with
    MaxRetries,  \* PROVIDER_MAX_RETRIES
    RetryDelay,  \* PROVIDER_RETRY_DELAY_SECONDS
    Latencies,   \* the latencies an upstream call may be measured at
    Errors,      \* the ProviderError categories an upstream call may end in
    Faults       \* the parts of the environment that may fail

RetryableErrors ==
    {"ProviderTimeoutError", "ProviderRateLimitError", "ProviderUnavailableError"}
FinalErrors == {"ProviderAuthenticationError", "ProviderRequestError"}

Retryable(e) == e \in RetryableErrors

Categories == RetryableErrors \cup FinalErrors
                \cup {"NoEligibleProviderError", "AllProvidersFailedError"}

ASSUME CompletionAssumption ==
    /\ IsFiniteSet(Requests)
    /\ Queries \subseteq AllQueries
    /\ Configs \subseteq Deployments
    /\ MaxRetries \in Nat
    /\ RetryDelay \in Nat
    /\ Latencies \subseteq Nat
    /\ Errors \subseteq RetryableErrors \cup FinalErrors
    /\ Faults \subseteq {"redis", "postgres", "process", "adapter"}
    /\ None \notin Categories
    /\ None \notin Queries
    /\ None \notin Configs

VARIABLES
    deployment,  \* the settings the process runs with
    cache,       \* Redis: the answer under each key, None if there is none
    ewma,        \* the latency tracker
    rows,        \* PostgreSQL: the telemetry rows
    pc,          \* where each request is
    query,       \* its body
    route,       \* its candidates, best first
    idx,         \* the candidate it is at
    tries,       \* the attempts on that candidate that have failed
    fault,       \* last_error_category
    answer,      \* the result it is going to return
    hit,         \* whether that result came from the cache
    \* History, read by no guard:
    home,        \* the deployment a request arrived in
    calls,       \* how often a request has called each provider
    fate,        \* how its last failed call of each provider ended
    seen         \* the latencies of each provider measured since the start

shared == <<deployment, cache, ewma, rows>>
fixed == <<query, route, home>>
vars == <<deployment, cache, ewma, rows, pc, query, route, idx, tries, fault,
          answer, hit, home, calls, fate, seen>>

-----------------------------------------------------------------------------
(* Answers and telemetry rows *)

\* What an upstream call returns: who answered, what it was told, and which
\* request paid for it.
Answers == [provider : Names, model : Models, prompt : Prompts,
            parameters : {{}} \cup {{n} : n \in TokenLimits}, by : Requests]

ASSUME NoneIsNoAnswer == None \notin Answers

Generate(r, p) ==
    [provider |-> p, model |-> deployment.model[p], prompt |-> query[r].prompt,
     parameters |-> EffectiveParameters(p, query[r]), by |-> r]

\* Mutant: the candidates are ordered anew, by what has been measured meanwhile,
\* each time one of them is needed.
CandidateOfNow(r) ==
    (CHOOSE s \in SetToSeqs(Eligible(deployment)) :
        IsRoute(s, deployment, ewma, query[r]))[idx[r]]

Candidate(r) == route[r][idx[r]]
Key(r) == BuildKey(deployment, Candidate(r), query[r])

\* Mutant: a retry counts as a fallback.
FallbackUsedOnRetry(r) == idx[r] > 1 \/ tries[r] > 0

FallbackUsed(r) == idx[r] > 1

Row(r) ==
    IF answer[r] # None
    THEN [request |-> r, status |-> "success", provider |-> answer[r].provider,
          model |-> answer[r].model, cache_hit |-> hit[r], charged |-> ~hit[r],
          fallback_used |-> FallbackUsed(r), error_category |-> None]
    ELSE [request |-> r, status |-> "error", provider |-> None, model |-> None,
          cache_hit |-> FALSE, charged |-> FALSE, fallback_used |-> FALSE,
          error_category |-> fault[r]]

Rows ==
    [request : Requests, status : {"success", "error"}, provider : Names \cup {None},
     model : Models \cup {None}, cache_hit : BOOLEAN, charged : BOOLEAN,
     fallback_used : BOOLEAN, error_category : Categories \cup {None}]

-----------------------------------------------------------------------------
(* Where a request can be *)

Active == {"lookup", "attempt", "backoff", "store", "record", "recorded"}
Ended == {"answered", "failed", "error", "lost"}

Init ==
    /\ deployment \in Configs
    /\ cache = [k \in CacheKeys |-> None]
    /\ ewma = [p \in Names |-> None]
    /\ rows = {}
    /\ pc = [r \in Requests |-> "new"]
    /\ query = [r \in Requests |-> None]
    /\ route = [r \in Requests |-> <<>>]
    /\ idx = [r \in Requests |-> 1]
    /\ tries = [r \in Requests |-> 0]
    /\ fault = [r \in Requests |-> "AllProvidersFailedError"]
    /\ answer = [r \in Requests |-> None]
    /\ hit = [r \in Requests |-> FALSE]
    /\ home = [r \in Requests |-> None]
    /\ calls = [r \in Requests |-> [p \in Names |-> 0]]
    /\ fate = [r \in Requests |-> [p \in Names |-> None]]
    /\ seen = [p \in Names |-> {}]

-----------------------------------------------------------------------------
(* Arrival *)

\* A request finds no provider to go to: it will be recorded and refused.
ArriveNoProvider(r, q) ==
    /\ pc[r] = "new"
    /\ Eligible(deployment) = {}
    /\ pc' = [pc EXCEPT ![r] = "record"]
    /\ query' = [query EXCEPT ![r] = q]
    /\ home' = [home EXCEPT ![r] = deployment]
    /\ fault' = [fault EXCEPT ![r] = "NoEligibleProviderError"]
    /\ UNCHANGED <<shared, route, idx, tries, answer, hit, calls, fate, seen>>

\* A request is routed and looks its first candidate up in the cache.
Arrive(r, q) ==
    /\ pc[r] = "new"
    /\ Eligible(deployment) # {}
    /\ \E s \in SetToSeqs(Eligible(deployment)) :
          /\ IsRoute(s, deployment, ewma, q)
          /\ route' = [route EXCEPT ![r] = s]
    /\ idx' = [idx EXCEPT ![r] = 1]
    /\ pc' = [pc EXCEPT ![r] = "lookup"]
    /\ query' = [query EXCEPT ![r] = q]
    /\ home' = [home EXCEPT ![r] = deployment]
    /\ UNCHANGED <<shared, tries, fault, answer, hit, calls, fate, seen>>

-----------------------------------------------------------------------------
(* The cache lookup *)

LookupHit(r) ==
    /\ pc[r] = "lookup"
    /\ cache[Key(r)] # None
    /\ answer' = [answer EXCEPT ![r] = cache[Key(r)]]
    /\ hit' = [hit EXCEPT ![r] = TRUE]
    /\ pc' = [pc EXCEPT ![r] = "record"]
    /\ UNCHANGED <<shared, fixed, idx, tries, fault, calls, fate, seen>>

\* The entry is absent, or the read failed, which counts as absent. The first
\* attempt on the candidate starts at once.
LookupMiss(r) ==
    /\ pc[r] = "lookup"
    /\ cache[Key(r)] = None \/ "redis" \in Faults
    /\ pc' = [pc EXCEPT ![r] = "attempt"]
    /\ tries' = [tries EXCEPT ![r] = 0]
    /\ calls' = [calls EXCEPT ![r][Candidate(r)] = @ + 1]
    /\ UNCHANGED <<shared, fixed, idx, fault, answer, hit, fate, seen>>

-----------------------------------------------------------------------------
(* The attempts on one candidate *)

\* The provider answers: its latency is recorded and the answer goes to the cache.
AttemptSucceeds(r, l) ==
    /\ pc[r] = "attempt"
    /\ answer' = [answer EXCEPT ![r] = Generate(r, Candidate(r))]
    /\ hit' = [hit EXCEPT ![r] = FALSE]
    /\ ewma' = RecordLatency(ewma, Candidate(r), l)
    /\ seen' = [seen EXCEPT ![Candidate(r)] = @ \cup {l}]
    /\ pc' = [pc EXCEPT ![r] = "store"]
    /\ UNCHANGED <<deployment, cache, rows, fixed, idx, tries, fault, calls, fate>>

Fails(r, e) ==
    /\ pc[r] = "attempt"
    /\ fault' = [fault EXCEPT ![r] = e]
    /\ fate' = [fate EXCEPT ![r][Candidate(r)] = e]
    /\ UNCHANGED <<shared, fixed, answer, hit, seen>>

\* Mutants: one retry too many, one too few, a retry of whatever failed.
MayRetryOnceMore(r, e) == Retryable(e) /\ tries[r] <= MaxRetries
MayRetryOnceLess(r, e) == Retryable(e) /\ tries[r] + 1 < MaxRetries
MayRetryAnything(r, e) == tries[r] < MaxRetries

MayRetry(r, e) == Retryable(e) /\ tries[r] < MaxRetries

\* The attempt fails and another one is due: at once, or after a pause.
AttemptRetries(r, e) ==
    /\ Fails(r, e)
    /\ MayRetry(r, e)
    /\ tries' = [tries EXCEPT ![r] = @ + 1]
    /\ IF RetryDelay > 0
       THEN /\ pc' = [pc EXCEPT ![r] = "backoff"]
            /\ UNCHANGED calls
       ELSE /\ calls' = [calls EXCEPT ![r][Candidate(r)] = @ + 1]
            /\ UNCHANGED pc
    /\ UNCHANGED idx

Backoff(r) ==
    /\ pc[r] = "backoff"
    /\ pc' = [pc EXCEPT ![r] = "attempt"]
    /\ calls' = [calls EXCEPT ![r][Candidate(r)] = @ + 1]
    /\ UNCHANGED <<shared, fixed, idx, tries, fault, answer, hit, fate, seen>>

\* The attempt fails for good and there is another candidate to look up.
AttemptFallsBack(r, e) ==
    /\ Fails(r, e)
    /\ ~MayRetry(r, e)
    /\ idx[r] < Len(route[r])
    /\ idx' = [idx EXCEPT ![r] = @ + 1]
    /\ pc' = [pc EXCEPT ![r] = "lookup"]
    /\ UNCHANGED <<tries, calls>>

\* Mutant: a final error ends the request, whoever is left.
AttemptExhaustsEarly(r, e) ==
    /\ Fails(r, e)
    /\ ~MayRetry(r, e)
    /\ idx[r] = Len(route[r]) \/ e \in FinalErrors
    /\ pc' = [pc EXCEPT ![r] = "record"]
    /\ UNCHANGED <<idx, tries, calls>>

\* The attempt fails for good and it was the last candidate's.
AttemptExhausts(r, e) ==
    /\ Fails(r, e)
    /\ ~MayRetry(r, e)
    /\ idx[r] = Len(route[r])
    /\ pc' = [pc EXCEPT ![r] = "record"]
    /\ UNCHANGED <<idx, tries, calls>>

\* The provider's client raises something that is not a ProviderError, which
\* the service does not catch: the request ends in a 500.
AttemptRaises(r) ==
    /\ "adapter" \in Faults
    /\ pc[r] = "attempt"
    /\ pc' = [pc EXCEPT ![r] = "error"]
    /\ UNCHANGED <<shared, fixed, idx, tries, fault, answer, hit, calls, fate, seen>>

-----------------------------------------------------------------------------
(* Keeping the answer and recording the outcome *)

\* Mutant: the key is built once, for the first candidate.
StoredUnderFirst(r) ==
    [cache EXCEPT ![BuildKey(deployment, route[r][1], query[r])] = answer[r]]

Stored(r) == [cache EXCEPT ![Key(r)] = answer[r]]

\* The answer is cached; or the write fails, before or after it took effect.
Store(r) ==
    /\ pc[r] = "store"
    /\ cache' \in IF "redis" \in Faults THEN {Stored(r), cache} ELSE {Stored(r)}
    /\ pc' = [pc EXCEPT ![r] = "record"]
    /\ UNCHANGED <<deployment, ewma, rows, fixed, idx, tries, fault, answer, hit,
                   calls, fate, seen>>

\* Mutant: answers from the cache leave no row.
InsertedIfFresh(r) == IF hit[r] THEN rows ELSE rows \cup {Row(r)}

Inserted(r) == rows \cup {Row(r)}

\* The telemetry row is committed; or the insert fails, before or after.
Record(r) ==
    /\ pc[r] = "record"
    /\ rows' \in IF "postgres" \in Faults THEN {Inserted(r), rows} ELSE {Inserted(r)}
    /\ pc' = [pc EXCEPT ![r] = "recorded"]
    /\ UNCHANGED <<deployment, cache, ewma, fixed, idx, tries, fault, answer, hit,
                   calls, fate, seen>>

\* The service returns the response, or raises what becomes a 503.
Return(r) ==
    /\ pc[r] = "recorded"
    /\ pc' = [pc EXCEPT ![r] = IF answer[r] # None THEN "answered" ELSE "failed"]
    /\ UNCHANGED <<shared, fixed, idx, tries, fault, answer, hit, calls, fate, seen>>

-----------------------------------------------------------------------------
(* The environment *)

\* An entry outlives its TTL, or Redis evicts it.
Expire(k) ==
    /\ cache[k] # None
    /\ cache' = [cache EXCEPT ![k] = None]
    /\ UNCHANGED <<deployment, ewma, rows, pc, fixed, idx, tries, fault, answer, hit,
                   calls, fate, seen>>

\* The process stops and another takes over, perhaps with other settings: the
\* requests in flight are lost and the latency tracker starts empty, while the
\* cache and the telemetry stay.
Restart(d) ==
    /\ "process" \in Faults
    /\ deployment' = d
    /\ pc' = [r \in Requests |-> IF pc[r] \in Active THEN "lost" ELSE pc[r]]
    /\ ewma' = [p \in Names |-> None]
    /\ seen' = [p \in Names |-> {}]
    /\ UNCHANGED <<cache, rows, fixed, idx, tries, fault, answer, hit, calls, fate>>

-----------------------------------------------------------------------------
\* What the service does for a request that has arrived.
Serve(r) ==
    \/ LookupHit(r)
    \/ LookupMiss(r)
    \/ \E l \in Latencies : AttemptSucceeds(r, l)
    \/ \E e \in Errors : AttemptRetries(r, e)
    \/ \E e \in Errors : AttemptFallsBack(r, e)
    \/ \E e \in Errors : AttemptExhausts(r, e)
    \/ AttemptRaises(r)
    \/ Backoff(r)
    \/ Store(r)
    \/ Record(r)
    \/ Return(r)

\* Every request has ended: the process waits for the next one.
Idle == (\A r \in Requests : pc[r] \in Ended) /\ UNCHANGED vars

Next ==
    \/ \E r \in Requests, q \in Queries : ArriveNoProvider(r, q)
    \/ \E r \in Requests, q \in Queries : Arrive(r, q)
    \/ \E r \in Requests : Serve(r)
    \/ \E k \in CacheKeys : Expire(k)
    \/ \E d \in Configs : Restart(d)
    \/ Idle

Spec == Init /\ [][Next]_vars

-----------------------------------------------------------------------------
(* Properties *)

\* Every variable holds what the code keeps in it; in particular a request
\* that is being served has a route and stands at one of its candidates.
TypeOK ==
    /\ deployment \in Configs
    /\ cache \in [CacheKeys -> Answers \cup {None}]
    /\ ewma \in [Names -> Nat \cup {None}]
    /\ rows \subseteq Rows
    /\ pc \in [Requests -> {"new"} \cup Active \cup Ended]
    /\ query \in [Requests -> Queries \cup {None}]
    /\ route \in [Requests -> Seq(Names)]
    /\ idx \in [Requests -> Nat \ {0}]
    /\ tries \in [Requests -> 0..MaxRetries]
    /\ fault \in [Requests -> Categories]
    /\ answer \in [Requests -> Answers \cup {None}]
    /\ hit \in [Requests -> BOOLEAN]
    /\ home \in [Requests -> Configs \cup {None}]
    /\ calls \in [Requests -> [Names -> Nat]]
    /\ fate \in [Requests -> [Names -> Errors \cup {None}]]
    /\ seen \in [Names -> SUBSET Nat]
    /\ \A r \in Requests : route[r] # <<>> =>
          idx[r] \in DOMAIN route[r] /\ query[r] # None /\ home[r] # None
    /\ \A r \in Requests :
          pc[r] \in {"lookup", "attempt", "backoff", "store"} => route[r] # <<>>

\* What is kept under a key is an answer to exactly that key: the provider, the
\* model, the prompt and the parameters that reached the provider. The cache is
\* shared by all requests and outlives the process that filled it.
CacheSound ==
    \A k \in CacheKeys : cache[k] # None =>
        /\ cache[k].provider = k.provider
        /\ cache[k].model = k.model
        /\ cache[k].prompt = k.prompt
        /\ cache[k].parameters = k.parameters

\* Whatever a client is answered with, cached or fresh, was generated for its
\* own prompt, by the candidate the service had reached, with the model that was
\* configured when the request arrived and the parameters the request asks for.
AnswerIsGenuine ==
    \A r \in Requests : answer[r] # None =>
        /\ answer[r].provider = Candidate(r)
        /\ answer[r].model = home[r].model[Candidate(r)]
        /\ answer[r].prompt = query[r].prompt
        /\ answer[r].parameters = EffectiveParameters(Candidate(r), query[r])

\* A provider is done with a request when it refused it for good or when the
\* retry budget is spent.
Exhausted(r, p) ==
    /\ fate[r][p] # None
    /\ Retryable(fate[r][p]) => calls[r][p] = MaxRetries + 1

\* The service leaves a candidate behind, and reports failure, only when that
\* candidate is exhausted; and what it reports is the last candidate's error.
FallbackOnlyAfterExhaustion ==
    \A r \in Requests :
        /\ \A i \in DOMAIN route[r] : i < idx[r] => Exhausted(r, route[r][i])
        /\ pc[r] = "failed" /\ route[r] # <<>> =>
              /\ \A p \in Eligible(home[r]) : Exhausted(r, p)
              /\ fault[r] = fate[r][Candidate(r)]

\* No provider is called more than MaxRetries + 1 times for one request, and
\* none that the request has not reached yet; a mock deployment calls nothing
\* but the mock, and any other deployment never the mock.
CallBudget ==
    \A r \in Requests, p \in Names : calls[r][p] > 0 =>
        /\ calls[r][p] <= MaxRetries + 1
        /\ \E i \in DOMAIN route[r] : i <= idx[r] /\ route[r][i] = p
        /\ p \in home[r].available
        /\ p = "mock" <=> home[r].default = "mock"

\* A provider that has rejected a request for good is not called for it again.
NeverCallAfterFinalError ==
    [][\A r \in Requests, p \in Names :
          calls'[r][p] > calls[r][p] => fate'[r][p] \notin FinalErrors]_vars

\* The answer comes from the provider the strategy prefers among those that
\* could still answer: whoever is cheaper for this prompt and this max_tokens
\* (or is the configured default) had its chance and failed.
PreferredProviderAnswers ==
    \A r \in Requests : answer[r] # None =>
        \A p \in Eligible(home[r]) :
            \/ query[r].strategy = "fixed" /\ p = home[r].default
            \/ /\ query[r].strategy = "cheapest"
               /\ EstimatedCost(home[r], p, query[r])
                     < EstimatedCost(home[r], answer[r].provider, query[r])
            => p = answer[r].provider \/ Exhausted(r, p)

\* The moving average stays between the fastest and the slowest call measured
\* since the process started, however many are blended in.
AverageWithinExperience ==
    \A p \in Names :
        IF seen[p] = {} THEN ewma[p] = None
        ELSE /\ \E l \in seen[p] : l <= ewma[p]
             /\ \E l \in seen[p] : l >= ewma[p]

\* The latencies a provider is known or taken to have.
Experience(p) == IF seen[p] = {} THEN {InitialLatency} ELSE seen[p]

\* A request routed for speed never puts a provider before another one whose
\* every call has been faster than its own; one without a call since the start
\* counts as InitialLatency.
FastestFollowsExperience ==
    [][\A r \in Requests : pc[r] = "new" /\ pc'[r] = "lookup" =>
          (query'[r].strategy = "fastest" =>
             \A i, j \in DOMAIN route'[r] : i < j =>
                ~ \A a \in Experience(route'[r][i]), b \in Experience(route'[r][j]) :
                     a > b)]_vars

\* A telemetry row says what happened to its request: a cache hit means that the
\* provider was not called, only an answer this request paid for is charged, a
\* fallback means that the first choice did not answer, and an error carries the
\* category of the last failure.
TelemetryTruth ==
    \A row \in rows : LET r == row.request IN
        IF row.status = "success"
        THEN /\ answer[r] # None
             /\ row.provider = answer[r].provider /\ row.model = answer[r].model
             /\ row.cache_hit <=> calls[r][row.provider] = 0
             /\ row.charged <=> answer[r].by = r
             /\ row.fallback_used <=> row.provider # route[r][1]
        ELSE /\ answer[r] = None
             /\ \A p \in Eligible(home[r]) : Exhausted(r, p)
             /\ IF route[r] = <<>> THEN row.error_category = "NoEligibleProviderError"
                ELSE row.error_category = fate[r][route[r][Len(route[r])]]

\* A completion that got an outcome, whatever the outcome, has left one row.
OneRowPerCompletion ==
    \A r \in Requests : pc[r] \in {"answered", "failed", "error"} =>
        Cardinality({row \in rows : row.request = r}) = 1
=============================================================================
