---------------------------- MODULE GatewayProofs ----------------------------
(***************************************************************************)
(* Theorems about Gateway: the parts behave inside it as they are          *)
(* specified alone, and so the theorems about them carry over; nothing is  *)
(* done for a request without a token; and the tokens bound the bill.      *)
(***************************************************************************)
EXTENDS Gateway, PromiseProofs, RateLimiterProofs

-----------------------------------------------------------------------------
(* The parts *)

\* Every step of the gateway is a step of the limiter, of the service, or of both,
\* or leaves them alone.
LEMMA StepsOfTheParts ==
    ASSUME [GatewayNext]_gatewayVars
    PROVE  [Next]_vars /\ [LimiterNext]_limiterVars
<1> USE DEF gatewayVars, limiterVars
<1>1. ASSUME NEW r \in Requests, Receive(r)
      PROVE  LimiterNext /\ UNCHANGED vars
  BY <1>1, GatewayAssumption DEF Receive, LimiterNext
<1>2. ASSUME NEW r \in Requests, Ask(r) \/ Limited(r) \/ LimiterDown(r)
      PROVE  LimiterNext /\ UNCHANGED vars
  BY <1>2, GatewayAssumption DEF Ask, Limited, LimiterDown, LimiterNext, Handle
<1>3. ASSUME NEW r \in Requests, NEW q \in Queries, Admit(r, q)
      PROVE  LimiterNext /\ Next
  BY <1>3, GatewayAssumption DEF Admit, LimiterNext, Handle, Next
<1>4. ASSUME NEW r \in Requests, Complete(r)
      PROVE  Next /\ UNCHANGED limiterVars
  BY <1>4 DEF Complete, Next
<1>5. ASSUME Environment
      PROVE  \/ Next /\ UNCHANGED limiterVars
             \/ LimiterNext /\ UNCHANGED vars
  BY <1>5 DEF Environment, Next, LimiterNext
<1>6. CASE GatewayIdle \/ UNCHANGED gatewayVars
  BY <1>6 DEF GatewayIdle
<1>7. QED
  BY <1>1, <1>2, <1>3, <1>4, <1>5, <1>6 DEF GatewayNext, Process

\* By the shape of GatewayNext, what holds of the service and of the limiter alone
\* carries over to the gateway.
LEMMA GatewayKeepsParts == GatewaySpec => Spec /\ LimiterSpec
<1>1. GatewayInit => Init /\ LimiterInit
  BY DEF GatewayInit
<1>2. [GatewayNext]_gatewayVars => [Next]_vars /\ [LimiterNext]_limiterVars
  BY StepsOfTheParts
<1>3. QED
  BY <1>1, <1>2, PTL DEF GatewaySpec, Spec, LimiterSpec

\* What is proved of the service and of the limiter, each alone, holds behind the
\* endpoint, where the limiter delays and refuses the requests of the service and
\* both share Redis: answers, cache and telemetry are as they should be, and so is
\* what a client can get through.
THEOREM GatewayStaysSafe ==
    GatewaySpec => [](/\ CacheSound /\ AnswerIsGenuine /\ PreferredProviderAnswers
                      /\ FallbackOnlyAfterExhaustion /\ CallBudget
                      /\ TelemetryTruth
                      /\ AdmissionBound /\ AdmissionIsPaid)
<1>1. GatewaySpec => Spec /\ LimiterSpec
  BY GatewayKeepsParts
<1>2. Spec => [](CacheSound /\ AnswerIsGenuine)
  BY AnswersAreGenuine
<1>3. Spec => [](FallbackOnlyAfterExhaustion /\ CallBudget)
  BY CandidatesAreExhausted, CallsStayInBudget, PTL
<1>4. Spec => []PreferredProviderAnswers /\ []TelemetryTruth
  BY PreferenceIsKept, TelemetryIsTrue
<1>5. LimiterSpec => []AdmissionBound /\ []AdmissionIsPaid
  BY AdmissionsAreBounded, NobodyGetsInForFree
<1>6. QED
  BY <1>1, <1>2, <1>3, <1>4, <1>5, PTL

\* The clients of the gateway get what is promised, limiter or not: the gateway
\* implements the abstract promise.
THEOREM GatewayKeepsPromise == GatewaySpec => ImplementsPromise
<1>1. GatewaySpec => Spec
  BY GatewayKeepsParts
<1>2. QED
  BY <1>1, PromiseKept

-----------------------------------------------------------------------------
(* Work is paid for *)

\* The limiter's part of a request and the service's part agree, and a token has
\* been taken before either of them says yes.
PaidFor(r) ==
    /\ pc[r] # "new" <=> phase[r] = "admitted"
    /\ phase[r] = "admitted" => spent[r] >= 1
    /\ phase[r] = "executed" /\ granted[r] => spent[r] >= 1

PaidInv ==
    /\ phase \in [Requests ->
          {"idle", "sent", "executed", "admitted", "limited", "unavailable"}]
    /\ granted \in [Requests -> BOOLEAN]
    /\ spent \in [Requests -> Nat]
    /\ \A r \in Requests : PaidFor(r)

LEMMA PaidInit == GatewayInit => PaidInv
BY GatewayAssumption DEF GatewayInit, Init, LimiterInit, PaidInv, PaidFor

\* A step of the service keeps a request that has arrived from being new again.
LEMMA ServeKeepsArrived ==
    ASSUME TypeOK, NEW r \in Requests, Serve(r)
    PROVE  /\ pc[r] # "new" /\ pc'[r] # "new"
           /\ \A x \in Requests \ {r} : pc'[x] = pc[x]
<1> USE DEF TypeOK
<1>1. CASE LookupHit(r) \/ LookupMiss(r) \/ Backoff(r) \/ Store(r) \/ Record(r)
  BY <1>1 DEF LookupHit, LookupMiss, Backoff, Store, Record
<1>2. ASSUME NEW l \in Latencies, AttemptSucceeds(r, l)
      PROVE  /\ pc[r] # "new" /\ pc'[r] # "new"
             /\ \A x \in Requests \ {r} : pc'[x] = pc[x]
  BY <1>2 DEF AttemptSucceeds
<1>3. ASSUME NEW e \in Errors,
             AttemptRetries(r, e) \/ AttemptFallsBack(r, e) \/ AttemptExhausts(r, e)
      PROVE  /\ pc[r] # "new" /\ pc'[r] # "new"
             /\ \A x \in Requests \ {r} : pc'[x] = pc[x]
  BY <1>3 DEF AttemptRetries, AttemptFallsBack, AttemptExhausts, Fails
<1>4. CASE AttemptRaises(r) \/ Return(r)
  BY <1>4 DEF AttemptRaises, Return
<1>5. QED
  BY <1>1, <1>2, <1>3, <1>4 DEF Serve

LEMMA PaidNext == TypeOK /\ PaidInv /\ [GatewayNext]_gatewayVars => PaidInv'
<1> SUFFICES ASSUME TypeOK, PaidInv, [GatewayNext]_gatewayVars PROVE PaidInv'
  OBVIOUS
<1> USE DEF PaidInv, PaidFor, limiterVars
<1>1. ASSUME NEW r \in Requests, Receive(r)
      PROVE  PaidInv'
  BY <1>1 DEF Receive, Call, history, vars
<1>2. ASSUME NEW r \in Requests, Ask(r)
      PROVE  PaidInv'
  <2>1. CASE Execute(r)
    <3>1. /\ phase' = [phase EXCEPT ![r] = "executed"] /\ phase[r] = "sent"
          /\ granted' = [granted EXCEPT ![r] = Allows(Owner[r])]
          /\ spent' = [spent EXCEPT ![r] =
                          IF Allows(Owner[r]) THEN @ + 1 ELSE @]
          /\ pc' = pc
      BY <1>2, <2>1 DEF Ask, Execute, vars
    <3>2. Allows(Owner[r]) \in BOOLEAN
      BY DEF Allows
    <3>3. QED
      BY <3>1, <3>2
  <2>2. CASE Resend(r)
    BY <1>2, <2>2 DEF Ask, Resend, history, vars
  <2>3. QED
    BY <1>2, <2>1, <2>2 DEF Ask
<1>3. ASSUME NEW r \in Requests, Limited(r) \/ LimiterDown(r)
      PROVE  PaidInv'
  BY <1>3 DEF Limited, LimiterDown, Decide, Unavailable, history, vars
<1>4. ASSUME NEW r \in Requests, NEW q \in Queries, Admit(r, q)
      PROVE  PaidInv'
  <2>1. /\ phase[r] = "executed" /\ granted[r]
        /\ phase' = [phase EXCEPT ![r] = "admitted"]
        /\ UNCHANGED <<granted, spent>>
    BY <1>4 DEF Admit, Decide, history
  <2>2. pc'[r] # "new" /\ \A x \in Requests \ {r} : pc'[x] = pc[x]
    BY <1>4 DEF Admit, ArriveNoProvider, Arrive, TypeOK
  <2>3. QED
    BY <2>1, <2>2
<1>5. ASSUME NEW r \in Requests, Complete(r)
      PROVE  PaidInv'
  BY <1>5, ServeKeepsArrived DEF Complete
<1>6. CASE Environment
  BY <1>6 DEF Environment, Expire, Tick, StepBack, ExpireBucket,
              checkVars, history, vars
<1>7. CASE GatewayIdle \/ UNCHANGED gatewayVars
  BY <1>7 DEF GatewayIdle, gatewayVars, vars
<1>8. QED
  BY <1>1, <1>2, <1>3, <1>4, <1>5, <1>6, <1>7 DEF GatewayNext, Process

\* The attempts of an admitted request are paid by its token.
LEMMA PaidImplies == TypeOK /\ ProgressInv /\ PaidInv => WorkIsPaid
<1> SUFFICES ASSUME TypeOK, ProgressInv, PaidInv, NEW r \in Requests
             PROVE  /\ pc[r] # "new" <=> phase[r] = "admitted"
                    /\ pc[r] # "new" => spent[r] >= 1
                    /\ \A p \in Names : calls[r][p] <= (MaxRetries + 1) * spent[r]
  BY DEF WorkIsPaid
<1>1. Progress(r) /\ PaidFor(r) /\ spent[r] \in Nat
  BY DEF ProgressInv, PaidInv
<1>2. \A p \in Names : calls[r][p] \in Nat
  BY DEF TypeOK
<1>3. CASE pc[r] = "new"
  <2>1. \A p \in Names : calls[r][p] = 0
    BY <1>1, <1>3 DEF Progress, Untouched
  <2>2. (MaxRetries + 1) * spent[r] >= 0
    BY <1>1, CompletionAssumption, SMT
  <2>3. QED
    BY <1>1, <1>3, <2>1, <2>2 DEF PaidFor
<1>4. CASE pc[r] # "new"
  <2>1. spent[r] >= 1
    BY <1>1, <1>4 DEF PaidFor
  <2>2. MaxRetries + 1 <= (MaxRetries + 1) * spent[r]
    BY <1>1, <2>1, CompletionAssumption, SMT
  <2>3. (MaxRetries + 1) * spent[r] \in Nat /\ MaxRetries \in Nat
    BY <1>1, CompletionAssumption, SMT
  <2>4. \A p \in Names : calls[r][p] <= MaxRetries + 1
    BY <1>1 DEF Progress
  <2>5. \A p \in Names : calls[r][p] <= (MaxRetries + 1) * spent[r]
    BY <1>2, <2>2, <2>3, <2>4
  <2>6. QED
    BY <1>1, <2>1, <2>5 DEF PaidFor
<1>5. QED
  BY <1>3, <1>4

\* Whatever is resent, retried or lost: no request is worked on that the limiter has
\* not admitted, and a token pays for no more than MaxRetries + 1 calls of a provider.
THEOREM WorkGetsPaid == GatewaySpec => []WorkIsPaid
<1>1. GatewaySpec => [](TypeOK /\ ProgressInv)
  BY GatewayKeepsParts, ProgressAlways, PTL
<1>2. GatewaySpec => []PaidInv
  BY <1>1, PaidInit, PaidNext, PTL DEF GatewaySpec
<1>3. QED
  BY <1>1, <1>2, PaidImplies, PTL

-----------------------------------------------------------------------------
(* The bill *)

\* Nobody restarts the process, so every request that has arrived is at home.
RoutedAtHome == \A r \in Requests : route[r] # <<>> => home[r] = deployment

\* The requests of a client a token has been taken for.
Charged(c) == {r \in Requests : Owner[r] = c /\ spent[r] >= 1}

\* Every charged request stands for one of the tokens the client has taken since
\* the start: nothing in the gateway restarts the watch on a client.
BillInv ==
    /\ RoutedAtHome
    /\ since = [c \in Clients |-> 0]
    /\ \A c \in Clients : Cardinality(Charged(c)) <= count[c]

LEMMA BillInit == GatewayInit => BillInv
<1> SUFFICES ASSUME GatewayInit PROVE BillInv
  OBVIOUS
<1>1. RoutedAtHome
  BY DEF GatewayInit, Init, RoutedAtHome
<1>2. \A c \in Clients : Charged(c) = {} /\ count[c] = 0
  BY GatewayAssumption DEF GatewayInit, LimiterInit, Charged
<1>3. since = [c \in Clients |-> 0]
  BY DEF GatewayInit, LimiterInit
<1>4. QED
  BY <1>1, <1>2, <1>3, FS_EmptySet DEF BillInv

LEMMA ServeKeepsHome ==
    ASSUME NEW r \in Requests, Serve(r)
    PROVE  UNCHANGED <<deployment, route, home>>
<1> USE DEF shared, fixed
<1>1. CASE LookupHit(r) \/ LookupMiss(r) \/ Backoff(r) \/ Store(r) \/ Record(r)
  BY <1>1 DEF LookupHit, LookupMiss, Backoff, Store, Record
<1>2. CASE \E l \in Latencies : AttemptSucceeds(r, l)
  BY <1>2 DEF AttemptSucceeds
<1>3. CASE \E e \in Errors :
              AttemptRetries(r, e) \/ AttemptFallsBack(r, e) \/ AttemptExhausts(r, e)
  BY <1>3 DEF AttemptRetries, AttemptFallsBack, AttemptExhausts, Fails
<1>4. CASE AttemptRaises(r) \/ Return(r)
  BY <1>4 DEF AttemptRaises, Return
<1>5. QED
  BY <1>1, <1>2, <1>3, <1>4 DEF Serve

\* A run of the script charges at most the request it runs for, and counts it.
LEMMA ExecuteCharges ==
    ASSUME TypeOK, LimiterTypeOK, BillInv, NEW r \in Requests, Execute(r),
           NEW c \in Clients
    PROVE  Cardinality(Charged(c))' <= count'[c]
<1>1. /\ spent \in [Requests -> Nat] /\ count[c] \in Nat
      /\ count \in [Clients -> Nat] /\ Owner[r] \in Clients
  BY RateLimiterAssumption, GatewayAssumption DEF LimiterTypeOK
<1>2. IsFiniteSet(Charged(c)) /\ Cardinality(Charged(c)) <= count[c]
  <2>1. Charged(c) \in SUBSET Requests
    BY DEF Charged
  <2>2. QED
    BY <2>1, CompletionAssumption, FS_Subset DEF BillInv
<1>3. Cardinality(Charged(c)) \in Nat
  BY <1>2, FS_CardinalityType
<1>4. CASE Allows(Owner[r]) /\ Owner[r] = c
  <2>1. spent' = [spent EXCEPT ![r] = @ + 1] /\ count' = [count EXCEPT ![c] = @ + 1]
    BY <1>4 DEF Execute
  <2>2. count'[c] = count[c] + 1
    BY <1>1, <2>1
  <2>3. Charged(c)' \in SUBSET (Charged(c) \cup {r})
    BY <1>1, <2>1 DEF Charged
  <2>4. /\ IsFiniteSet(Charged(c) \cup {r})
        /\ Cardinality(Charged(c) \cup {r}) \in Nat
        /\ Cardinality(Charged(c) \cup {r}) <= Cardinality(Charged(c)) + 1
    <3>1. /\ IsFiniteSet(Charged(c) \cup {r})
          /\ Cardinality(Charged(c) \cup {r}) =
                IF r \in Charged(c) THEN Cardinality(Charged(c))
                ELSE Cardinality(Charged(c)) + 1
      BY <1>2, FS_AddElement
    <3>2. QED
      BY <1>3, <3>1
  <2>5. /\ Cardinality(Charged(c)') <= Cardinality(Charged(c) \cup {r})
        /\ Cardinality(Charged(c)') \in Nat
    BY <2>3, <2>4, FS_Subset, FS_CardinalityType
  <2>6. QED
    BY <1>1, <1>2, <1>3, <2>2, <2>4, <2>5
<1>5. CASE ~(Allows(Owner[r]) /\ Owner[r] = c)
  <2>1. count'[c] = count[c]
    BY <1>1, <1>5 DEF Execute
  <2>2. \A x \in Requests : Owner[x] = c => spent'[x] = spent[x]
    BY <1>1, <1>5 DEF Execute
  <2>3. Charged(c)' = Charged(c)
    BY <2>2 DEF Charged
  <2>4. QED
    BY <1>2, <2>1, <2>3
<1>6. QED
  BY <1>4, <1>5

LEMMA BillNext ==
    TypeOK /\ LimiterTypeOK /\ BillInv /\ [GatewayNext]_gatewayVars => BillInv'
<1> SUFFICES ASSUME TypeOK, LimiterTypeOK, BillInv, [GatewayNext]_gatewayVars
             PROVE  BillInv'
  OBVIOUS
<1> USE DEF limiterVars
<1>0. ASSUME UNCHANGED <<spent, count>>
      PROVE  \A c \in Clients : (Cardinality(Charged(c)) <= count[c])'
  <2>1. \A c \in Clients : Charged(c)' = Charged(c)
    BY <1>0 DEF Charged
  <2>2. QED
    BY <1>0, <2>1 DEF BillInv
<1>1. ASSUME NEW r \in Requests,
             Receive(r) \/ Ask(r) \/ Limited(r) \/ LimiterDown(r)
      PROVE  BillInv'
  <2>1. UNCHANGED <<since, vars>>
    BY <1>1 DEF Receive, Ask, Limited, LimiterDown, Call, Execute, Resend, Decide,
                Unavailable, history
  <2>2. RoutedAtHome'
    BY <2>1 DEF BillInv, RoutedAtHome, vars
  <2>3. CASE Ask(r) /\ Execute(r)
    BY <2>1, <2>2, <2>3, ExecuteCharges DEF BillInv
  <2>4. CASE ~(Ask(r) /\ Execute(r))
    <3>1. UNCHANGED <<spent, count>>
      BY <1>1, <2>4 DEF Receive, Ask, Limited, LimiterDown, Call, Resend, Decide,
                        Unavailable, history
    <3>2. QED
      BY <1>0, <2>1, <2>2, <3>1 DEF BillInv
  <2>5. QED
    BY <2>3, <2>4
<1>2. ASSUME NEW r \in Requests, NEW q \in Queries, Admit(r, q)
      PROVE  BillInv'
  <2>1. UNCHANGED <<since, spent, count>>
    BY <1>2 DEF Admit, Decide, history
  <2>2. RoutedAtHome'
    BY <1>2 DEF Admit, ArriveNoProvider, Arrive, BillInv, RoutedAtHome, TypeOK, shared
  <2>3. QED
    BY <1>0, <2>1, <2>2 DEF BillInv
<1>3. ASSUME NEW r \in Requests, Complete(r)
      PROVE  BillInv'
  <2>1. UNCHANGED <<since, spent, count, deployment, route, home>>
    BY <1>3, ServeKeepsHome DEF Complete
  <2>2. QED
    BY <1>0, <2>1 DEF BillInv, RoutedAtHome
<1>4. CASE Environment \/ GatewayIdle \/ UNCHANGED gatewayVars
  <2>1. UNCHANGED <<since, spent, count, deployment, route, home>>
    BY <1>4 DEF Environment, Expire, Tick, StepBack, ExpireBucket, GatewayIdle,
                gatewayVars, vars, fixed, history
  <2>2. QED
    BY <1>0, <2>1 DEF BillInv, RoutedAtHome
<1>5. QED
  BY <1>1, <1>2, <1>3, <1>4 DEF GatewayNext, Process

\* If each of w requests costs at most m calls of each of e candidates, and the w
\* requests are worth no more than b, the calls are bounded by b.
LEMMA CostOfCalls ==
    ASSUME NEW a \in Nat, NEW w \in Nat, NEW k \in Nat, NEW b \in Int, NEW g \in Nat,
           NEW t \in Nat,
           a <= w * k, w <= t, g * t <= b
    PROVE  g * a <= k * b
<1>1. g * a <= g * (w * k)
  BY SMT
<1>2. g * w <= b
  <2>1. g * w <= g * t
    BY SMT
  <2>2. g * w \in Int /\ g * t \in Int
    BY SMT
  <2>3. QED
    BY <2>1, <2>2
<1>3. k * (g * w) <= k * b
  <2>1. g * w \in Int
    BY SMT
  <2>2. \A x \in Int : x <= b => k * x <= k * b
    BY SMT
  <2>3. QED
    BY <1>2, <2>1, <2>2
<1>4. g * (w * k) = k * (g * w)
  BY SMT
<1>5. g * a \in Int /\ k * (g * w) \in Int /\ k * b \in Int
  BY SMT
<1>6. QED
  BY <1>1, <1>3, <1>4, <1>5

\* A call on behalf of a client belongs to a charged request, goes to a candidate of
\* the deployment and is within the retry budget.
LEMMA CallsAreCharged ==
    ASSUME TypeOK, ProgressInv, PaidInv, BillInv, NEW c \in Clients
    PROVE  UpstreamCalls(c) \subseteq
              Charged(c) \X (Eligible(deployment) \X (1..(MaxRetries + 1)))
<1> SUFFICES ASSUME NEW r \in Requests, Owner[r] = c, NEW p \in Names,
                    NEW n \in 1..calls[r][p]
             PROVE  /\ r \in Charged(c)
                    /\ p \in Eligible(deployment)
                    /\ n \in 1..(MaxRetries + 1)
  BY DEF UpstreamCalls
<1>1. calls[r][p] \in Nat /\ Progress(r) /\ PaidFor(r) /\ MaxRetries \in Nat
  BY CompletionAssumption DEF TypeOK, ProgressInv, PaidInv
<1>2. n \in Nat /\ 1 <= n /\ n <= calls[r][p]
  BY <1>1
<1>3. n \in 1..(MaxRetries + 1)
  BY <1>1, <1>2 DEF Progress
<1>4. PICK i \in DOMAIN route[r] : route[r][i] = p
  BY <1>1, <1>2 DEF Progress, Untouched
<1>5. route[r] # <<>>
  BY <1>4
<1>6. p \in Eligible(deployment)
  BY <1>1, <1>4, <1>5, RoutedRequest DEF BillInv, RoutedAtHome
<1>7. pc[r] # "new"
  BY <1>1, <1>5 DEF Progress
<1>8. r \in Charged(c)
  BY <1>1, <1>7 DEF PaidFor, Charged
<1>9. QED
  BY <1>3, <1>6, <1>8

LEMMA BillImplies ==
    ASSUME TypeOK, ProgressInv, PaidInv, LimiterTypeOK, BillInv, AdmissionBound
    PROVE  UpstreamBound
<1> SUFFICES ASSUME NEW c \in Clients
             PROVE  Grain * Cardinality(UpstreamCalls(c))
                       <= (MaxRetries + 1) * Cardinality(Eligible(deployment))
                            * (Full + Refill * travel)
  BY DEF UpstreamBound
<1> DEFINE attempts == 1..(MaxRetries + 1)
           work == Eligible(deployment) \X attempts
           e == Cardinality(Eligible(deployment))
<1>1. IsFiniteSet(Charged(c)) /\ Cardinality(Charged(c)) \in Nat
  <2>1. Charged(c) \in SUBSET Requests
    BY DEF Charged
  <2>2. QED
    BY <2>1, CompletionAssumption, FS_Subset, FS_CardinalityType
<1>2. IsFiniteSet(Eligible(deployment)) /\ e \in Nat
  BY CompletionAssumption, EligibleProviders DEF TypeOK
<1>3. IsFiniteSet(attempts) /\ Cardinality(attempts) = MaxRetries + 1
  <2>1. MaxRetries \in Nat /\ 1 \in Int /\ MaxRetries + 1 \in Int /\ ~(1 > MaxRetries + 1)
    BY CompletionAssumption
  <2>2. QED
    BY <2>1, FS_Interval
<1>4. IsFiniteSet(work) /\ Cardinality(work) = e * (MaxRetries + 1)
  BY <1>2, <1>3, FS_Product
<1>5. /\ IsFiniteSet(Charged(c) \X work)
      /\ Cardinality(Charged(c) \X work)
            = Cardinality(Charged(c)) * (e * (MaxRetries + 1))
  BY <1>1, <1>4, FS_Product
<1>6. /\ Cardinality(UpstreamCalls(c)) \in Nat
      /\ Cardinality(UpstreamCalls(c)) <= Cardinality(Charged(c)) * (e * (MaxRetries + 1))
  <2>1. UpstreamCalls(c) \in SUBSET (Charged(c) \X work)
    BY CallsAreCharged
  <2>2. QED
    BY <1>5, <2>1, FS_Subset, FS_CardinalityType
<1>7. /\ Cardinality(Charged(c)) <= count[c] /\ count[c] \in Nat
      /\ Grain * count[c] <= Full + Refill * travel
  BY DEF BillInv, AdmissionBound, LimiterTypeOK
<1>8. /\ e * (MaxRetries + 1) \in Nat
      /\ e * (MaxRetries + 1) = (MaxRetries + 1) * e
      /\ Grain \in Nat /\ Full + Refill * travel \in Int
  BY <1>2, CompletionAssumption, RateLimiterAssumption, FullType, SMT DEF LimiterTypeOK
<1>9. Grain * Cardinality(UpstreamCalls(c))
         <= (e * (MaxRetries + 1)) * (Full + Refill * travel)
  BY <1>1, <1>6, <1>7, <1>8, CostOfCalls
<1>10. QED
  BY <1>8, <1>9

\* The operator's bill is bounded for any number of clients, requests, retries and
\* candidates: a client causes no more upstream calls than the tokens its bucket has
\* let through pay for, whatever fails, is resent or falls back.
THEOREM BillIsBounded == GatewaySpec => []UpstreamBound
<1>1. GatewaySpec => [](TypeOK /\ ProgressInv)
  BY GatewayKeepsParts, ProgressAlways, PTL
<1>2. GatewaySpec => [](LimiterTypeOK /\ AdmissionBound)
  BY GatewayKeepsParts, LimiterTypeCorrect, AdmissionsAreBounded, PTL
<1>3. GatewaySpec => []PaidInv
  BY <1>1, PaidInit, PaidNext, PTL DEF GatewaySpec
<1>4. GatewaySpec => []BillInv
  BY <1>1, <1>2, BillInit, BillNext, PTL DEF GatewaySpec
<1>5. QED
  BY <1>1, <1>2, <1>3, <1>4, BillImplies, PTL
=============================================================================
