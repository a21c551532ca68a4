------------------------------- MODULE Gateway -------------------------------
(***************************************************************************)
(* POST /v1/chat/completions as its clients see it (create_completion in   *)
(* app/api/routes.py): the rate limiter decides first, and only a request  *)
(* it admits reaches the completion service. The module composes           *)
(* RateLimiter and Completion over the same requests.                      *)
(*                                                                         *)
(* There is no await between the limiter's answer and the first await of   *)
(* the service, so admission and arrival are one step. A request has ended *)
(* when the limiter refused it (429 or 503) or when the service has ended  *)
(* (200, 503 or 500).                                                      *)
(*                                                                         *)
(* Redis keeps its data and the process keeps running: what a loss of      *)
(* either does is the subject of RateLimiter and of Completion.            *)
(***************************************************************************)
EXTENDS Completion, RateLimiter

\* Every completion is checked by the limiter first.
ASSUME GatewayAssumption == Checks = Requests

gatewayVars == <<vars, limiterVars>>

GatewayInit == Init /\ LimiterInit

-----------------------------------------------------------------------------
\* A request is received and its client's bucket is asked.
Receive(r) == Call(r) /\ UNCHANGED vars

\* Redis runs the script, or the Redis client sends it again.
Ask(r) == (Execute(r) \/ Resend(r)) /\ UNCHANGED vars

\* The limiter says no: 429.
Limited(r) == ~granted[r] /\ Decide(r) /\ UNCHANGED vars

\* The limiter cannot be asked: 503.
LimiterDown(r) == Unavailable(r) /\ UNCHANGED vars

\* Mutant: a limiter that cannot be asked is not waited for.
AdmitUnasked(r, q) ==
    /\ phase[r] \in {"sent", "executed"}
    /\ phase' = [phase EXCEPT ![r] = "admitted"]
    /\ ArriveNoProvider(r, q) \/ Arrive(r, q)
    /\ UNCHANGED <<now, bucket, granted, sends, travel, since, count, spent>>

\* The limiter says yes and the request goes on to the service.
Admit(r, q) ==
    /\ granted[r]
    /\ Decide(r)
    /\ ArriveNoProvider(r, q) \/ Arrive(r, q)

Complete(r) == Serve(r) /\ UNCHANGED limiterVars

Environment ==
    \/ \E k \in CacheKeys : Expire(k) /\ UNCHANGED limiterVars
    \/ \E d \in Steps : (Tick(d) \/ StepBack(d)) /\ UNCHANGED vars
    \/ \E c \in Clients : ExpireBucket(c) /\ UNCHANGED vars

-----------------------------------------------------------------------------
\* What the gateway does for a request it has received.
Process(r) ==
    \/ Ask(r)
    \/ Limited(r)
    \/ LimiterDown(r)
    \/ \E q \in Queries : Admit(r, q)
    \/ Complete(r)

\* Every request has its answer: the gateway waits for the next one.
Answered(r) == phase[r] \in {"limited", "unavailable"} \/ pc[r] \in Ended
GatewayIdle == (\A r \in Requests : Answered(r)) /\ UNCHANGED gatewayVars

GatewayNext ==
    \/ \E r \in Requests : Receive(r)
    \/ \E r \in Requests : Process(r)
    \/ Environment
    \/ GatewayIdle

GatewaySpec == GatewayInit /\ [][GatewayNext]_gatewayVars

\* As for the two parts: every await returns.
FairGatewaySpec ==
    GatewaySpec /\ \A r \in Requests : WF_gatewayVars(Process(r))

-----------------------------------------------------------------------------
(* Properties *)

\* The service does nothing, not even a cache lookup, for a request the limiter has
\* not admitted, and what it does is paid: one token covers MaxRetries + 1 calls of
\* each provider.
WorkIsPaid ==
    \A r \in Requests :
        /\ pc[r] # "new" <=> phase[r] = "admitted"
        /\ pc[r] # "new" => spent[r] >= 1
        /\ \A p \in Names : calls[r][p] <= (MaxRetries + 1) * spent[r]

\* The upstream calls made on behalf of a client: call n of provider p for request r.
UpstreamCalls(c) ==
    UNION {{<<r, <<p, n>>>> : n \in 1..calls[r][p]} :
              r \in {x \in Requests : Owner[x] = c}, p \in Names}

\* The operator's bill: whatever fails and is retried, a client causes no more
\* upstream calls than its bucket has let through, times the attempts of every
\* candidate of the deployment.
UpstreamBound ==
    \A c \in Clients :
        Grain * Cardinality(UpstreamCalls(c))
            <= (MaxRetries + 1) * Cardinality(Eligible(deployment))
                 * (Full + Refill * travel)

\* Every request that is received gets an answer.
EveryRequestEnds == \A r \in Requests : phase[r] = "sent" ~> Answered(r)
=============================================================================
