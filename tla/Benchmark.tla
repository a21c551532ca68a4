------------------------------ MODULE Benchmark ------------------------------
(***************************************************************************)
(* The benchmark script (scripts/benchmark.py): one case per concurrency   *)
(* level and scenario, each with a warm-up, a queue of payloads drained by *)
(* concurrent workers, and a summary; an exit code at the end.             *)
(*                                                                         *)
(* A worker runs alone from one await to the next, so that the end of one  *)
(* request, its outcome and the taking of the next payload are one step.   *)
(* The gateway it measures is external: it looks a prompt up at one moment *)
(* and answers at a later one, and keeps the answer if it had to make it.  *)
(***************************************************************************)
EXTENDS Naturals, Sequences, FiniteSets

CONSTANTS
    Levels,        \* --concurrency, a sequence
    Scenarios,     \* the scenarios of --scenario, a sequence
    RequestCount,  \* --requests
    Warmup,        \* --warmup
    Latencies,     \* the latencies a request may be measured at, in ms
    Faults,        \* what may go wrong: "request", "cache", "reply"
    None           \* no value

ASSUME BenchmarkAssumption ==
    /\ Levels \in Seq(Nat \ {0}) /\ Levels # <<>>
    /\ Scenarios \in {<<"uncached">>, <<"cached">>, <<"uncached", "cached">>}
    /\ RequestCount \in Nat \ {0}
    /\ Warmup \in Nat
    /\ Latencies \subseteq Nat
    /\ Faults \subseteq {"request", "cache", "reply"}
    /\ None \notin BOOLEAN /\ None \notin {0, 1}

Smaller(a, b) == IF a <= b THEN a ELSE b
Larger(a, b) == IF a >= b THEN a ELSE b

\* The cases in the order they are run: every scenario of a level, then the next.
CaseCount == Len(Levels) * Len(Scenarios)
Case(n) ==
    [concurrency |-> Levels[((n - 1) \div Len(Scenarios)) + 1],
     scenario |-> Scenarios[((n - 1) % Len(Scenarios)) + 1]]

Workers(n) == 1..Smaller(Case(n).concurrency, RequestCount)

\* The prompts of a case: one for all requests if it is about cached answers, one
\* for each request, warm-up or measured, if not.
Prompt(n, kind, i) ==
    IF Case(n).scenario = "cached" THEN <<n>> ELSE <<n, kind, i>>

\* Mutant: no warm-up is asked for, so nothing is cached.
WarmupsAsAsked(n) == Warmup

Warmups(n) == IF Case(n).scenario = "cached" THEN Larger(Warmup, 1) ELSE Warmup

-----------------------------------------------------------------------------
VARIABLES
    stage,     \* warming, measuring, done or aborted
    case,      \* the case being run
    warm,      \* the warm-up requests that have succeeded
    queue,     \* the payloads no worker has taken
    job,       \* the payload of each worker, 0 if it has none
    found,     \* whether the gateway found it in its cache, None before it looks
    outcomes,  \* the outcomes of the case, or of the one before while warming
    results,   \* the summaries
    exit,      \* the exit code
    held,      \* the prompts in the gateway's cache
    \* History, read by no guard:
    asked,     \* how often each payload of the case was taken
    events     \* what has gone wrong: trouble outside, failed or misserved requests

vars == <<stage, case, warm, queue, job, found, outcomes, results, exit, held,
          asked, events>>

Init ==
    /\ stage = "warming" /\ case = 1 /\ warm = 0
    /\ queue = <<>> /\ job = <<>> /\ found = <<>>
    /\ outcomes = <<>> /\ results = <<>> /\ exit = None
    /\ held = {}
    /\ asked = <<>> /\ events = {}

-----------------------------------------------------------------------------
(* The summary of a case *)

\* Mutant: the outcomes are taken to be in order already.
NthAsMeasured(values, k) == values[k]

\* The k-th smallest of some values: what stands at k once they are sorted.
Nth(values, k) ==
    CHOOSE v \in {values[i] : i \in DOMAIN values} :
        /\ Cardinality({i \in DOMAIN values : values[i] < v}) < k
        /\ Cardinality({i \in DOMAIN values : values[i] <= v}) >= k

\* The percentile at q twentieths, times 20: interpolated between its neighbours.
Percentile(values, q) ==
    LET position == (Len(values) - 1) * q
        lower == Nth(values, (position \div 20) + 1)
        upper == Nth(values, (position \div 20) + 2)
        fraction == position % 20
    IN IF fraction = 0 THEN 20 * lower ELSE 20 * lower + (upper - lower) * fraction

LatenciesOf(os) == [i \in DOMAIN os |-> os[i].latency]

Failures(os) == {i \in DOMAIN os : ~os[i].success}
Surprises(n, os) ==
    {i \in DOMAIN os : os[i].success /\ os[i].hit # (Case(n).scenario = "cached")}

Summarize(n, os) ==
    [total |-> Len(os),
     failed |-> Cardinality(Failures(os)),
     p50 |-> Percentile(LatenciesOf(os), 10),
     p95 |-> Percentile(LatenciesOf(os), 19),
     unexpected |-> Cardinality(Surprises(n, os))]

-----------------------------------------------------------------------------
(* The warm-up *)

\* One warm-up request: nothing else is under way.
WarmUp ==
    /\ stage = "warming" /\ warm < Warmups(case)
    /\ warm' = warm + 1
    /\ held' = held \cup {Prompt(case, "warmup", warm')}
    /\ UNCHANGED <<stage, case, queue, job, found, outcomes, results, exit, asked, events>>

\* It fails: the script ends with an error and writes nothing.
WarmUpFails ==
    /\ stage = "warming" /\ warm < Warmups(case)
    /\ Faults \cap {"request", "reply"} # {}
    /\ stage' = "aborted"
    /\ events' = events \cup {"trouble"}
    /\ UNCHANGED <<case, warm, queue, job, found, outcomes, results, exit, held, asked>>

\* The queue is filled and every worker takes a payload.
Begin ==
    LET n == Cardinality(Workers(case)) IN
    /\ stage = "warming" /\ warm = Warmups(case)
    /\ stage' = "measuring"
    /\ outcomes' = <<>>
    /\ queue' = [i \in 1..(RequestCount - n) |-> n + i]
    /\ job' = [w \in Workers(case) |-> w]
    /\ found' = [w \in Workers(case) |-> None]
    /\ asked' = [i \in 1..RequestCount |-> IF i \in Workers(case) THEN 1 ELSE 0]
    /\ UNCHANGED <<case, warm, results, exit, held, events>>

-----------------------------------------------------------------------------
(* The workers *)

Waiting(w) == stage = "measuring" /\ w \in DOMAIN job /\ job[w] # 0

\* The gateway looks the prompt up.
Lookup(w) ==
    /\ Waiting(w) /\ found[w] = None
    /\ found' = [found EXCEPT ![w] = Prompt(case, "measured", job[w]) \in held]
    /\ UNCHANGED <<stage, case, warm, queue, job, outcomes, results, exit, held,
                   asked, events>>

\* The worker appends the outcome and takes the next payload, or stops.
Advance(w, o) ==
    /\ outcomes' = Append(outcomes, o)
    /\ found' = [found EXCEPT ![w] = None]
    /\ IF queue = <<>>
       THEN job' = [job EXCEPT ![w] = 0] /\ UNCHANGED <<queue, asked>>
       ELSE /\ job' = [job EXCEPT ![w] = Head(queue)]
            /\ queue' = Tail(queue)
            /\ asked' = [asked EXCEPT ![Head(queue)] = @ + 1]
    /\ UNCHANGED <<stage, case, warm, results, exit>>

\* The gateway answers.
Succeed(w, l) ==
    /\ Waiting(w) /\ found[w] # None
    /\ Advance(w, [latency |-> l, success |-> TRUE, hit |-> found[w]])
    /\ held' = held \cup {Prompt(case, "measured", job[w])}
    /\ events' = IF found[w] = (Case(case).scenario = "cached") THEN events
                 ELSE events \cup {"misserved"}

\* An HTTP error, a transport error or an answer that is no JSON; the gateway may
\* have kept its answer all the same.
Fail(w, l) ==
    /\ Waiting(w) /\ "request" \in Faults
    /\ Advance(w, [latency |-> l, success |-> FALSE, hit |-> None])
    /\ held' \in {held, held \cup {Prompt(case, "measured", job[w])}}
    /\ events' = events \cup {"trouble", "failed"}

\* A success whose JSON is no object: the worker raises, and so does the script.
Crash(w) ==
    /\ Waiting(w) /\ "reply" \in Faults
    /\ stage' = "aborted"
    /\ events' = events \cup {"trouble"}
    /\ UNCHANGED <<case, warm, queue, job, found, outcomes, results, exit, held, asked>>

\* A result that makes the script exit with 1.
Invalid(result) == result.failed > 0 \/ result.unexpected > 0

Stopped == \A w \in DOMAIN job : job[w] = 0

\* Every worker has returned: the case is summarized. After the last case the
\* document is written and the exit code tells whether a result is invalid.
Conclude ==
    /\ stage = "measuring" /\ Stopped
    /\ results' = Append(results, Summarize(case, outcomes))
    /\ IF case < CaseCount
       THEN stage' = "warming" /\ case' = case + 1 /\ warm' = 0 /\ UNCHANGED exit
       ELSE /\ stage' = "done" /\ UNCHANGED <<case, warm>>
            /\ exit' = IF \E i \in DOMAIN results' : Invalid(results'[i]) THEN 1 ELSE 0
    /\ UNCHANGED <<queue, job, found, outcomes, held, asked, events>>

-----------------------------------------------------------------------------
\* The gateway's entry expires or is evicted.
Evict(p) ==
    /\ "cache" \in Faults /\ stage \in {"warming", "measuring"}
    /\ held' = held \ {p}
    /\ events' = events \cup {"trouble"}
    /\ UNCHANGED <<stage, case, warm, queue, job, found, outcomes, results, exit, asked>>

Handle(w) == Lookup(w) \/ (\E l \in Latencies : Succeed(w, l) \/ Fail(w, l)) \/ Crash(w)

Next ==
    \/ WarmUp \/ WarmUpFails \/ Begin \/ Conclude
    \/ \E w \in DOMAIN job : Handle(w)
    \/ \E p \in held : Evict(p)

Spec == Init /\ [][Next]_vars

-----------------------------------------------------------------------------
(* Properties *)

\* However the workers interleave, the summary of a case counts every payload of
\* its queue, each measured exactly once, and its percentiles split the measured
\* latencies where they should: half of them lie on either side of p50, and 19 of
\* 20 intervals between neighbours below p95.
ResultsAddUp ==
    stage \in {"warming", "done"} /\ results # <<>> =>
        LET result == results[Len(results)]
            below(v) == Cardinality({i \in DOMAIN outcomes : 20 * outcomes[i].latency <= v})
            above(v) == Cardinality({i \in DOMAIN outcomes : 20 * outcomes[i].latency >= v})
        IN /\ result.total = RequestCount
           /\ \A i \in 1..RequestCount : asked[i] = 1
           /\ 2 * below(result.p50) >= RequestCount
           /\ 2 * above(result.p50) >= RequestCount
           /\ 20 * below(result.p95) >= 19 * (RequestCount - 1)
           /\ above(result.p95) >= 1

\* The exit code is right about what was measured: 0 means that every measured
\* request succeeded and was served from the cache or not as its scenario names,
\* and a benchmark that nothing disturbs ends with 0, whatever the levels, the
\* scenarios and the number of warm-up requests asked for, none included.
ExitTellsTheTruth ==
    /\ exit = 0 => events \cap {"failed", "misserved"} = {}
    /\ exit = 1 => events \cap {"failed", "misserved"} # {}
    /\ "trouble" \notin events => exit # 1 /\ stage # "aborted"
=============================================================================
