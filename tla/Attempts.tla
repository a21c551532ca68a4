------------------------------ MODULE Attempts ------------------------------
(***************************************************************************)
(* Completion in real time: how long an attempt lasts, which timer ends    *)
(* it, and as which error the service sees what went wrong (generate in    *)
(* app/providers/openai_provider.py, gemini_provider.py, mock_provider.py  *)
(* and the loop around it in app/services/completion_service.py).          *)
(*                                                                         *)
(* Every step is a step of Completion that also says when it may happen,   *)
(* or a tick of the clock. The event loop handles a timer that is due      *)
(* before time moves on; what else happens at that instant, the answer or  *)
(* another failure, may come first. Time counts while a request calls a    *)
(* provider or pauses: Redis and PostgreSQL are not waited for here.       *)
(***************************************************************************)
EXTENDS Completion

CONSTANTS
    Timeout,      \* PROVIDER_TIMEOUT_SECONDS, in ticks
    SdkTimeout,   \* the same as given to the SDK, rounded to its own unit
    MockLatency,  \* MOCK_PROVIDER_LATENCY_MS, in ticks
    Statuses      \* the HTTP statuses a provider may refuse with

AtLeast(a, b) == IF a >= b THEN a ELSE b
LongestAttempt == AtLeast(Timeout, MockLatency)

ASSUME AttemptsAssumption ==
    /\ Timeout \in Nat \ {0}
    /\ SdkTimeout \in 0..Timeout
    /\ MockLatency \in Nat
    /\ Statuses \subseteq Nat
    /\ 0..LongestAttempt \subseteq Latencies
    /\ Errors = RetryableErrors \cup FinalErrors

VARIABLES
    wait,   \* how long the current attempt or pause of each request has lasted
    age,    \* how long its attempts and pauses have lasted in all
    cause   \* what ended its last failed attempt

timers == <<wait, age, cause>>
attemptVars == <<vars, timers>>

-----------------------------------------------------------------------------
(* What can end an attempt, and how the adapters see it *)

\* The outer asyncio.timeout, the SDK's own timer, a connection that fails, a
\* response the SDK cannot make sense of, a response with an error status.
Causes ==
    [kind : {"outer_timeout", "sdk_timeout", "unreachable", "garbled"}, code : {0}]
        \cup [kind : {"status"}, code : Statuses]

ASSUME NoneIsNoCause == None \notin Causes

\* The error classes the SDKs have for one status each, as far as a clause names them.
CodeOf ==
    [BadRequestError |-> 400, AuthenticationError |-> 401, PermissionDeniedError |-> 403,
     UnprocessableEntityError |-> 422, RateLimitError |-> 429]

\* The exception classes of the SDKs that an exception is an instance of.
KindClasses ==
    [outer_timeout |-> {"TimeoutError"},
     sdk_timeout   |-> {"APITimeoutError", "APIConnectionError"},
     unreachable   |-> {"APIConnectionError"},
     garbled       |-> {},
     status        |-> {"APIStatusError"}]

ClassesOf(c) ==
    KindClasses[c.kind]
        \cup {x \in DOMAIN CodeOf : CodeOf[x] = c.code}
        \cup (IF c.code >= 500 THEN {"InternalServerError"} ELSE {})

Clause(classes, category) == [classes |-> classes, category |-> category]

\* Mutant: the general clause comes before the one for rate limits.
ClausesStatusFirst ==
    [p \in {"openai", "gemini"} |->
        <<Clause({"TimeoutError", "APITimeoutError"}, "ProviderTimeoutError"),
          Clause({"APIStatusError"}, "by status"),
          Clause({"RateLimitError"}, "ProviderRateLimitError"),
          Clause({"APIConnectionError"}, "ProviderUnavailableError")>>]

\* The except clauses of an adapter, in their order.
Clauses ==
    [openai |->
        <<Clause({"TimeoutError", "APITimeoutError"}, "ProviderTimeoutError"),
          Clause({"RateLimitError"}, "ProviderRateLimitError"),
          Clause({"AuthenticationError", "PermissionDeniedError"},
                 "ProviderAuthenticationError"),
          Clause({"BadRequestError"}, "ProviderRequestError"),
          Clause({"InternalServerError", "APIConnectionError"},
                 "ProviderUnavailableError"),
          Clause({"APIStatusError"}, "by status")>>,
     gemini |->
        <<Clause({"APITimeoutError"}, "ProviderTimeoutError"),
          Clause({"TimeoutError"}, "ProviderTimeoutError"),
          Clause({"RateLimitError"}, "ProviderRateLimitError"),
          Clause({"AuthenticationError", "PermissionDeniedError"},
                 "ProviderAuthenticationError"),
          Clause({"BadRequestError", "UnprocessableEntityError"},
                 "ProviderRequestError"),
          Clause({"InternalServerError", "APIConnectionError"},
                 "ProviderUnavailableError"),
          Clause({"APIStatusError"}, "by status")>>]

ByStatus(c) ==
    IF c.code >= 500 THEN "ProviderUnavailableError" ELSE "ProviderRequestError"

\* Clause i of p is the first one that catches c.
Catches(p, i, c) ==
    /\ Clauses[p][i].classes \cap ClassesOf(c) # {}
    /\ \A j \in 1..(i - 1) : Clauses[p][j].classes \cap ClassesOf(c) = {}

\* The ProviderError that generate raises; a cause that no clause catches leaves it
\* as it is.
Raises(p, c, e) ==
    \E i \in DOMAIN Clauses[p] :
        /\ Catches(p, i, c)
        /\ e = IF Clauses[p][i].category = "by status" THEN ByStatus(c)
               ELSE Clauses[p][i].category

Uncaught(p, c) == \A i \in DOMAIN Clauses[p] : ~Catches(p, i, c)

-----------------------------------------------------------------------------
(* When things happen *)

AttemptLimit(r) == IF Candidate(r) = "mock" THEN MockLatency ELSE Timeout

Waiting(r) == pc[r] \in {"attempt", "backoff"}

\* Mutant: nothing limits an attempt.
DueWithoutTimeout(r) == pc[r] = "backoff" /\ wait[r] >= RetryDelay

\* A timer of request r is due.
Due(r) ==
    \/ pc[r] = "attempt" /\ wait[r] >= AttemptLimit(r)
    \/ pc[r] = "backoff" /\ wait[r] >= RetryDelay

Tick ==
    /\ \E r \in Requests : Waiting(r)
    /\ \A r \in Requests : ~Due(r)
    /\ wait' = [r \in Requests |-> IF Waiting(r) THEN wait[r] + 1 ELSE wait[r]]
    /\ age' = [r \in Requests |-> IF Waiting(r) THEN age[r] + 1 ELSE age[r]]
    /\ UNCHANGED <<vars, cause>>

Restarted(r) == wait' = [wait EXCEPT ![r] = 0] /\ UNCHANGED age

AttemptsInit ==
    /\ Init
    /\ wait = [r \in Requests |-> 0]
    /\ age = [r \in Requests |-> 0]
    /\ cause = [r \in Requests |-> None]

\* A miss starts the first attempt.
Begin(r) == LookupMiss(r) /\ Restarted(r) /\ UNCHANGED cause

\* Mutant: the latency is measured from the request's first attempt.
LatencySinceFirst(r) == age[r]

\* provider_latency_ms, measured from the start of this attempt.
MeasuredLatency(r) == wait[r]

\* The upstream answers, at any time up to the deadline.
UpstreamAnswers(r) ==
    /\ pc[r] = "attempt" /\ Candidate(r) # "mock"
    /\ AttemptSucceeds(r, MeasuredLatency(r))
    /\ UNCHANGED timers

\* The mock answers when its latency is over.
MockAnswers(r) ==
    /\ pc[r] = "attempt" /\ Candidate(r) = "mock"
    /\ wait[r] >= MockLatency
    /\ AttemptSucceeds(r, MeasuredLatency(r))
    /\ UNCHANGED timers

\* An attempt fails for cause c: the adapter raises its error, which the service
\* answers with another attempt, the next candidate or the end, or it lets the
\* exception through.
FailsFor(r, c) ==
    /\ pc[r] = "attempt" /\ Candidate(r) # "mock"
    /\ \/ \E e \in Errors :
             /\ Raises(Candidate(r), c, e)
             /\ AttemptRetries(r, e) \/ AttemptFallsBack(r, e) \/ AttemptExhausts(r, e)
       \/ Uncaught(Candidate(r), c) /\ AttemptRaises(r)
    /\ cause' = [cause EXCEPT ![r] = c]
    /\ Restarted(r)

\* Mutant: there is no outer timeout.
TimesOutNever(r) == FALSE

\* asyncio.timeout ends the attempt.
TimesOut(r) ==
    /\ wait[r] >= Timeout
    /\ \E c \in Causes : c.kind = "outer_timeout" /\ FailsFor(r, c)

\* The SDK or the upstream ends it. The SDK's timer starts anew with every byte it
\* receives, so it fires after SdkTimeout at the earliest.
UpstreamFails(r) ==
    \E c \in Causes :
        /\ c.kind # "outer_timeout"
        /\ c.kind = "sdk_timeout" => wait[r] >= SdkTimeout
        /\ FailsFor(r, c)

Wake(r) ==
    /\ wait[r] >= RetryDelay
    /\ Backoff(r)
    /\ Restarted(r)
    /\ UNCHANGED cause

\* The steps before and after the attempts.
Surrounding(r) ==
    /\ \/ LookupHit(r) \/ Store(r) \/ Record(r) \/ Return(r)
       \/ \E q \in Queries : ArriveNoProvider(r, q) \/ Arrive(r, q)
    /\ UNCHANGED timers

Elsewhere ==
    /\ (\E k \in CacheKeys : Expire(k)) \/ (\E d \in Configs : Restart(d)) \/ Idle
    /\ UNCHANGED timers

-----------------------------------------------------------------------------
AttemptsNext ==
    \/ Tick
    \/ \E r \in Requests :
          \/ Surrounding(r) \/ Begin(r) \/ Wake(r)
          \/ UpstreamAnswers(r) \/ MockAnswers(r) \/ TimesOut(r) \/ UpstreamFails(r)
    \/ Elsewhere

AttemptsSpec == AttemptsInit /\ [][AttemptsNext]_attemptVars

\* What the process does by itself: timers fire, Redis and PostgreSQL answer or raise.
Prompt(r) ==
    \/ pc[r] # "new" /\ Surrounding(r)
    \/ Begin(r) \/ Wake(r) \/ MockAnswers(r) \/ TimesOut(r)

\* Time passes and the process does its part. Nothing is expected of the upstream: it
\* may never answer.
FairAttemptsSpec ==
    /\ AttemptsSpec
    /\ WF_attemptVars(Tick)
    /\ \A r \in Requests : WF_attemptVars(Prompt(r))

-----------------------------------------------------------------------------
(* Properties *)

\* What a candidate may cost in time when every attempt runs into the timeout.
CandidateTime == (MaxRetries + 1) * LongestAttempt + MaxRetries * RetryDelay

\* However the upstream behaves, a request spends no more on its candidates than all
\* their attempts and the pauses between them, and no attempt outlives its limit.
TimeIsBounded ==
    \A r \in Requests :
        /\ age[r] <= Len(route[r]) * CandidateTime
        /\ pc[r] = "attempt" => wait[r] <= AttemptLimit(r)

\* The router never learns of a latency beyond the timeout: neither the pauses nor the
\* failed attempts before an answer enter the average.
AverageWithinTimeout ==
    \A p \in Names : ewma[p] # None => ewma[p] <= LongestAttempt

\* A failure that may pass: a timeout, a lost connection, too many requests, or a fault
\* of the server.
Transient(c) ==
    \/ c.kind \in {"outer_timeout", "sdk_timeout", "unreachable"}
    \/ c.kind = "status" /\ (c.code = 429 \/ c.code >= 500)

\* "Provider transient failure: bounded retry, then fallback". Whichever adapter saw it
\* and whichever clause caught it, an attempt is repeated only if its failure may pass,
\* and a candidate is given up only if it may not or if the retries are used up.
TransientFailuresAreRetried ==
    [][\A r \in Requests :
          LET repeated == tries'[r] > tries[r]
              givenUp == idx'[r] > idx[r] \/ (pc[r] = "attempt" /\ pc'[r] = "record")
          IN /\ repeated => Transient(cause'[r])
             /\ givenUp => tries[r] = MaxRetries \/ ~Transient(cause'[r])]_attemptVars

\* Every request that arrives ends, although the upstream may never answer: somebody's
\* timer ends every attempt, and the attempts are counted.
Termination == \A r \in Requests : pc[r] # "new" ~> pc[r] \in Ended
=============================================================================
