-------------------------- MODULE CompletionProofs --------------------------
(***************************************************************************)
(* Theorems about Completion for every number of requests, every set of    *)
(* deployments, every retry budget and every combination of faults.        *)
(***************************************************************************)
EXTENDS Completion, FiniteSetTheorems, TLAPS

-----------------------------------------------------------------------------
(* Routes *)

\* The eligible providers of a deployment are finitely many.
LEMMA EligibleProviders ==
    ASSUME NEW d \in Deployments
    PROVE  /\ Eligible(d) \subseteq Names
           /\ IsFiniteSet(Eligible(d))
           /\ Cardinality(Eligible(d)) \in Nat
           /\ Eligible(d) # {} => Cardinality(Eligible(d)) >= 1
<1>1. Eligible(d) \subseteq Names
  BY DEF Eligible, RoutingProviders, Names, Deployments
<1>2. IsFiniteSet(Names)
  <2>1. Names = (({} \cup {"openai"}) \cup {"gemini"}) \cup {"mock"}
    BY DEF Names
  <2>2. IsFiniteSet({} \cup {"openai"})
    BY FS_EmptySet, FS_AddElement
  <2>3. IsFiniteSet(({} \cup {"openai"}) \cup {"gemini"})
    BY <2>2, FS_AddElement
  <2>4. QED
    BY <2>1, <2>3, FS_AddElement
<1>3. IsFiniteSet(Eligible(d)) /\ Cardinality(Eligible(d)) \in Nat
  BY <1>1, <1>2, FS_Subset, FS_CardinalityType
<1>4. Eligible(d) # {} => Cardinality(Eligible(d)) # 0
  BY <1>3, FS_EmptySet
<1>5. QED
  BY <1>1, <1>3, <1>4

\* A route lists every eligible provider, and each of them once.
LEMMA RouteShape ==
    ASSUME NEW d \in Deployments, NEW s \in SetToSeqs(Eligible(d))
    PROVE  /\ s \in Seq(Names)
           /\ \A i \in DOMAIN s : s[i] \in Eligible(d)
           /\ \A i, j \in DOMAIN s : i # j => s[i] # s[j]
           /\ \A p \in Eligible(d) : \E i \in DOMAIN s : s[i] = p
           /\ Eligible(d) # {} => s # <<>> /\ 1 \in DOMAIN s
<1> DEFINE E == Eligible(d)
           n == Cardinality(E)
<1>1. /\ E \subseteq Names /\ IsFiniteSet(E) /\ n \in Nat
      /\ E # {} => n >= 1
  BY EligibleProviders
<1>2. s \in [1..n -> E] /\ \A i, j \in 1..n : i # j => s[i] # s[j]
  BY DEF SetToSeqs
<1>3. s \in Seq(Names)
  BY <1>1, <1>2
<1>4. \A p \in E : \E i \in 1..n : s[i] = p
  <2>1. s \in Injection(1..n, E)
    BY <1>2 DEF Injection, IsInjective
  <2>2. Cardinality(1..n) = n
    BY <1>1, FS_Interval
  <2>3. s \in Surjection(1..n, E)
    BY <1>1, <2>1, <2>2, FS_Injection
  <2>4. QED
    BY <2>3 DEF Surjection
<1>5. E # {} => s # <<>> /\ 1 \in DOMAIN s
  BY <1>1, <1>2
<1>6. QED
  BY <1>2, <1>3, <1>4, <1>5

-----------------------------------------------------------------------------
(* What a step builds has its type *)

\* The candidate of a routed request is a provider, and its cache key, the
\* answer it gives and the row written for it are what their names say.
LEMMA CandidateType ==
    ASSUME TypeOK, NEW r \in Requests, route[r] # <<>>
    PROVE  /\ Candidate(r) \in Names
           /\ query[r] \in AllQueries
           /\ EffectiveParameters(Candidate(r), query[r])
                \in {{}} \cup {{n} : n \in TokenLimits}
           /\ Key(r) \in CacheKeys
           /\ Generate(r, Candidate(r)) \in Answers
<1>1. Candidate(r) \in Names
  BY DEF TypeOK, Candidate
<1>2. query[r] \in AllQueries
  BY CompletionAssumption DEF TypeOK
<1>3. EffectiveParameters(Candidate(r), query[r])
        \in {{}} \cup {{n} : n \in TokenLimits}
  BY <1>2 DEF EffectiveParameters, AllQueries
<1>4. deployment.model[Candidate(r)] \in Models
  BY <1>1, CompletionAssumption DEF TypeOK, Deployments
<1>5. Key(r) \in CacheKeys
  BY <1>1, <1>2, <1>3, <1>4 DEF Key, BuildKey, CacheKeys, AllQueries
<1>6. Generate(r, Candidate(r)) \in Answers
  BY <1>1, <1>2, <1>3, <1>4 DEF Generate, Answers, AllQueries
<1>7. QED
  BY <1>1, <1>2, <1>3, <1>5, <1>6

LEMMA RowType ==
    ASSUME TypeOK, NEW r \in Requests
    PROVE  Row(r) \in Rows
<1>1. CASE answer[r] # None
  BY <1>1 DEF TypeOK, Row, Rows, Answers, FallbackUsed
<1>2. CASE answer[r] = None
  BY <1>2 DEF TypeOK, Row, Rows
<1>3. QED
  BY <1>1, <1>2

\* Blending two natural numbers gives a natural number between them.
LEMMA BlendBetween ==
    ASSUME NEW a \in Nat, NEW b \in Nat, NEW lo \in Nat, NEW hi \in Nat,
           lo <= a, lo <= b, a <= hi, b <= hi
    PROVE  Blend(a, b) \in Nat /\ lo <= Blend(a, b) /\ Blend(a, b) <= hi
<1> DEFINE m == AlphaNum
           k == AlphaDen - AlphaNum
           total == m * b + k * a
<1>1. m \in Nat /\ k \in Nat /\ AlphaDen \in Nat \ {0} /\ m + k = AlphaDen
  BY RoutingAssumption
<1>2. m * lo <= m * b /\ m * b <= m * hi
  BY <1>1, SMT
<1>3. k * lo <= k * a /\ k * a <= k * hi
  BY <1>1, SMT
<1>4. m * lo + k * lo = AlphaDen * lo /\ m * hi + k * hi = AlphaDen * hi
  BY <1>1, SMT
<1>5. total \in Nat /\ AlphaDen * lo <= total /\ total <= AlphaDen * hi
  BY <1>1, <1>2, <1>3, <1>4
<1>6. total \div AlphaDen \in Nat /\ lo <= total \div AlphaDen
        /\ total \div AlphaDen <= hi
  BY <1>1, <1>5, SMT
<1>7. QED
  BY <1>6 DEF Blend

LEMMA RecordLatencyType ==
    ASSUME TypeOK, NEW p \in Names, NEW l \in Latencies
    PROVE  /\ RecordLatency(ewma, p, l) \in [Names -> Nat \cup {None}]
           /\ RecordLatency(ewma, p, l)[p] \in Nat
<1>1. l \in Nat
  BY CompletionAssumption
<1>2. CASE ewma[p] = None
  BY <1>1, <1>2 DEF TypeOK, RecordLatency
<1>3. CASE ewma[p] # None
  <2>1. ewma[p] \in Nat
    BY <1>3 DEF TypeOK
  <2>2. Blend(ewma[p], l) \in Nat
    <3> DEFINE hi == ewma[p] + l
    <3>1. hi \in Nat /\ ewma[p] <= hi /\ l <= hi
      BY <1>1, <2>1
    <3>2. 0 \in Nat /\ 0 <= ewma[p] /\ 0 <= l
      BY <1>1, <2>1
    <3> HIDE DEF hi
    <3>3. QED
      BY <1>1, <2>1, <3>1, <3>2, BlendBetween
  <2>3. QED
    BY <1>3, <2>2 DEF TypeOK, RecordLatency
<1>4. QED
  BY <1>2, <1>3

-----------------------------------------------------------------------------
(* Type correctness *)

LEMMA TypeInit == Init => TypeOK
BY CompletionAssumption
   DEF Init, TypeOK, Categories, Active, Ended, Names

LEMMA TypeNext == TypeOK /\ [Next]_vars => TypeOK'
<1> SUFFICES ASSUME TypeOK, [Next]_vars PROVE TypeOK'
  OBVIOUS
<1> USE DEF shared, fixed, Active, Ended
<1>1. ASSUME NEW r \in Requests, NEW q \in Queries, ArriveNoProvider(r, q)
      PROVE  TypeOK'
  BY <1>1, CompletionAssumption DEF ArriveNoProvider, TypeOK, Categories
<1>2. ASSUME NEW r \in Requests, NEW q \in Queries, Arrive(r, q)
      PROVE  TypeOK'
  <2>1. PICK s \in SetToSeqs(Eligible(deployment)) :
            route' = [route EXCEPT ![r] = s]
    BY <1>2 DEF Arrive
  <2>2. deployment \in Deployments /\ Eligible(deployment) # {}
    BY <1>2, CompletionAssumption DEF TypeOK, Arrive
  <2>3. s \in Seq(Names) /\ s # <<>> /\ 1 \in DOMAIN s
    BY <2>2, RouteShape
  <2>4. /\ route' \in [Requests -> Seq(Names)]
        /\ query' \in [Requests -> Queries \cup {None}]
        /\ home' \in [Requests -> Configs \cup {None}]
        /\ pc' \in [Requests -> {"new"} \cup Active \cup Ended]
    BY <1>2, <2>1, <2>3 DEF Arrive, TypeOK
  <2>5. \A x \in Requests : route'[x] # <<>> =>
            idx'[x] \in DOMAIN route'[x] /\ query'[x] # None /\ home'[x] # None
    <3> TAKE x \in Requests
    <3>1. CASE x = r
      <4>1. route'[x] = s /\ idx'[x] = 1 /\ query'[x] = q /\ home'[x] = deployment
        BY <1>2, <2>1, <3>1 DEF Arrive, TypeOK
      <4>2. q # None /\ deployment # None
        BY CompletionAssumption DEF TypeOK
      <4>3. QED
        BY <2>3, <4>1, <4>2
    <3>2. CASE x # r
      BY <1>2, <2>1, <3>2 DEF Arrive, TypeOK
    <3>3. QED
      BY <3>1, <3>2
  <2>6. \A x \in Requests :
           pc'[x] \in {"lookup", "attempt", "backoff", "store"} => route'[x] # <<>>
    BY <1>2, <2>1, <2>3 DEF Arrive, TypeOK
  <2>7. QED
    BY <1>2, <2>4, <2>5, <2>6 DEF Arrive, TypeOK
<1>3. ASSUME NEW r \in Requests, LookupHit(r)
      PROVE  TypeOK'
  <2>1. Key(r) \in CacheKeys
    BY <1>3, CandidateType DEF LookupHit, TypeOK
  <2>2. QED
    BY <1>3, <2>1 DEF LookupHit, TypeOK
<1>4. ASSUME NEW r \in Requests, LookupMiss(r)
      PROVE  TypeOK'
  <2>1. Candidate(r) \in Names
    BY <1>4, CandidateType DEF LookupMiss, TypeOK
  <2>2. QED
    BY <1>4, <2>1, CompletionAssumption DEF LookupMiss, TypeOK
<1>5. ASSUME NEW r \in Requests, NEW l \in Latencies, AttemptSucceeds(r, l)
      PROVE  TypeOK'
  <2>1. Candidate(r) \in Names /\ Generate(r, Candidate(r)) \in Answers
    BY <1>5, CandidateType DEF AttemptSucceeds, TypeOK
  <2>2. ewma' \in [Names -> Nat \cup {None}]
    BY <1>5, <2>1, RecordLatencyType DEF AttemptSucceeds
  <2>3. QED
    BY <1>5, <2>1, <2>2, CompletionAssumption DEF AttemptSucceeds, TypeOK
<1>6. ASSUME NEW r \in Requests, NEW e \in Errors, Fails(r, e)
      PROVE  /\ fault' \in [Requests -> Categories]
             /\ fate' \in [Requests -> [Names -> Errors \cup {None}]]
             /\ Candidate(r) \in Names
             /\ UNCHANGED <<deployment, cache, ewma, rows, query, route, home,
                            answer, hit, seen>>
  <2>1. Candidate(r) \in Names
    BY <1>6, CandidateType DEF Fails, TypeOK
  <2>2. QED
    BY <1>6, <2>1, CompletionAssumption DEF Fails, TypeOK, Categories
<1>7. ASSUME NEW r \in Requests, NEW e \in Errors, AttemptRetries(r, e)
      PROVE  TypeOK'
  <2>1. tries' \in [Requests -> 0..MaxRetries]
    BY <1>7, CompletionAssumption DEF AttemptRetries, MayRetry, TypeOK
  <2>2. calls' \in [Requests -> [Names -> Nat]]
    <3>1. Candidate(r) \in Names
      BY <1>6, <1>7 DEF AttemptRetries
    <3>2. CASE RetryDelay > 0
      BY <1>7, <3>2 DEF AttemptRetries, TypeOK
    <3>3. CASE ~(RetryDelay > 0)
      <4>1. calls' = [calls EXCEPT ![r][Candidate(r)] = @ + 1]
        BY <1>7, <3>3 DEF AttemptRetries
      <4>2. QED
        BY <3>1, <4>1 DEF TypeOK
    <3>4. QED
      BY <3>2, <3>3
  <2>3. pc' \in [Requests -> {"new"} \cup Active \cup Ended]
    BY <1>7 DEF AttemptRetries, TypeOK
  <2>4. \A x \in Requests :
           pc'[x] \in {"lookup", "attempt", "backoff", "store"} => route'[x] # <<>>
    BY <1>6, <1>7 DEF AttemptRetries, Fails, TypeOK
  <2>5. QED
    BY <1>6, <1>7, <2>1, <2>2, <2>3, <2>4 DEF AttemptRetries, TypeOK
<1>8. ASSUME NEW r \in Requests, NEW e \in Errors, AttemptFallsBack(r, e)
      PROVE  TypeOK'
  <2>1. idx' \in [Requests -> Nat \ {0}]
    BY <1>8 DEF AttemptFallsBack, TypeOK
  <2>2. \A x \in Requests : route'[x] # <<>> => idx'[x] \in DOMAIN route'[x]
    BY <1>6, <1>8 DEF AttemptFallsBack, TypeOK
  <2>3. \A x \in Requests :
           pc'[x] \in {"lookup", "attempt", "backoff", "store"} => route'[x] # <<>>
    BY <1>6, <1>8 DEF AttemptFallsBack, Fails, TypeOK
  <2>4. QED
    BY <1>6, <1>8, <2>1, <2>2, <2>3 DEF AttemptFallsBack, TypeOK
<1>9. ASSUME NEW r \in Requests, NEW e \in Errors, AttemptExhausts(r, e)
      PROVE  TypeOK'
  BY <1>6, <1>9 DEF AttemptExhausts, TypeOK
<1>10. ASSUME NEW r \in Requests, AttemptRaises(r)
       PROVE  TypeOK'
  BY <1>10 DEF AttemptRaises, TypeOK
<1>11. ASSUME NEW r \in Requests, Backoff(r)
       PROVE  TypeOK'
  <2>1. Candidate(r) \in Names
    BY <1>11, CandidateType DEF Backoff, TypeOK
  <2>2. QED
    BY <1>11, <2>1 DEF Backoff, TypeOK
<1>12. ASSUME NEW r \in Requests, Store(r)
       PROVE  TypeOK'
  <2>1. Key(r) \in CacheKeys
    BY <1>12, CandidateType DEF Store, TypeOK
  <2>2. cache' \in [CacheKeys -> Answers \cup {None}]
    BY <1>12, <2>1 DEF Store, Stored, TypeOK
  <2>3. QED
    BY <1>12, <2>2 DEF Store, TypeOK
<1>13. ASSUME NEW r \in Requests, Record(r)
       PROVE  TypeOK'
  <2>1. rows' \subseteq Rows
    BY <1>13, RowType DEF Record, Inserted, TypeOK
  <2>2. QED
    BY <1>13, <2>1 DEF Record, TypeOK
<1>14. ASSUME NEW r \in Requests, Return(r)
       PROVE  TypeOK'
  BY <1>14 DEF Return, TypeOK
<1>15. ASSUME NEW k \in CacheKeys, Expire(k)
       PROVE  TypeOK'
  BY <1>15 DEF Expire, TypeOK
<1>16. ASSUME NEW d \in Configs, Restart(d)
       PROVE  TypeOK'
  BY <1>16 DEF Restart, TypeOK
<1>17. CASE UNCHANGED vars
  BY <1>17 DEF vars, TypeOK
<1>18. QED
  BY <1>1, <1>2, <1>3, <1>4, <1>5, <1>7, <1>8, <1>9, <1>10, <1>11, <1>12, <1>13,
     <1>14, <1>15, <1>16, <1>17
     DEF Next, Serve, Idle

\* In every reachable state every variable of the service, of the cache and of
\* the telemetry table has its type, and a request in progress stands at a
\* candidate of its route.
THEOREM TypeCorrect == Spec => []TypeOK
BY TypeInit, TypeNext, PTL DEF Spec

-----------------------------------------------------------------------------
(* Every step brings a request closer to its end *)

\* A candidate takes a lookup, MaxRetries + 1 attempts and a pause between two.
StepsAtCandidate == 2 * MaxRetries + 2

\* The steps that are left for a request, at most: those of its later candidates, what
\* is left at the one it stands at, and then to store, to record and to return.
StepsLeft(r) ==
    LET later == StepsAtCandidate * (Len(route[r]) - idx[r]) IN
    CASE pc[r] = "lookup" -> later + StepsAtCandidate + 3
      [] pc[r] = "attempt" -> later + 2 * (MaxRetries - tries[r]) + 4
      [] pc[r] = "backoff" -> later + 2 * (MaxRetries - tries[r]) + 5
      [] pc[r] = "store" -> 3
      [] pc[r] = "record" -> 2
      [] pc[r] = "recorded" -> 1
      [] OTHER -> 0

LEMMA StepsOfLaterCandidates ==
    ASSUME NEW d \in Nat
    PROVE  /\ StepsAtCandidate \in Nat /\ StepsAtCandidate * d \in Nat
           /\ StepsAtCandidate * (d + 1) = StepsAtCandidate * d + StepsAtCandidate
<1>1. StepsAtCandidate \in Nat
  BY CompletionAssumption DEF StepsAtCandidate
<1>2. QED
  BY <1>1

\* What the position of a request leaves it is a number of steps.
LEMMA StepsLeftIsNat ==
    ASSUME TypeOK, NEW r \in Requests
    PROVE  /\ StepsLeft(r) \in Nat
           /\ pc[r] \in {"lookup", "attempt", "backoff"} =>
                 /\ Len(route[r]) - idx[r] \in Nat
                 /\ StepsAtCandidate * (Len(route[r]) - idx[r]) \in Nat
                 /\ MaxRetries - tries[r] \in Nat
<1>1. MaxRetries \in Nat /\ tries[r] \in 0..MaxRetries /\ idx[r] \in Nat
      /\ route[r] \in Seq(Names)
  BY CompletionAssumption DEF TypeOK
<1>2. MaxRetries - tries[r] \in Nat
  BY <1>1
<1>3. ASSUME pc[r] \in {"lookup", "attempt", "backoff"}
      PROVE  Len(route[r]) - idx[r] \in Nat
  <2>1. idx[r] \in DOMAIN route[r]
    BY <1>3 DEF TypeOK
  <2>2. QED
    BY <1>1, <2>1
<1>4. ASSUME pc[r] \in {"lookup", "attempt", "backoff"}
      PROVE  StepsAtCandidate * (Len(route[r]) - idx[r]) \in Nat
  BY <1>3, <1>4, StepsOfLaterCandidates
<1>5. StepsAtCandidate \in Nat
  BY StepsOfLaterCandidates
<1> DEFINE later == StepsAtCandidate * (Len(route[r]) - idx[r])
           retries == MaxRetries - tries[r]
<1>6. /\ pc[r] \in {"lookup", "attempt", "backoff"} => later \in Nat
      /\ retries \in Nat
  BY <1>2, <1>4
<1>7. StepsLeft(r) = CASE pc[r] = "lookup" -> later + StepsAtCandidate + 3
                       [] pc[r] = "attempt" -> later + 2 * retries + 4
                       [] pc[r] = "backoff" -> later + 2 * retries + 5
                       [] pc[r] = "store" -> 3
                       [] pc[r] = "record" -> 2
                       [] pc[r] = "recorded" -> 1
                       [] OTHER -> 0
  BY DEF StepsLeft
<1> HIDE DEF later, retries
<1>8. StepsLeft(r) \in Nat
  BY <1>5, <1>6, <1>7
<1>9. QED
  BY <1>2, <1>3, <1>4, <1>8

\* A step that leaves the position of a request alone leaves it its steps.
LEMMA StepsFrame ==
    ASSUME NEW r \in Requests, pc'[r] = pc[r], route'[r] = route[r], idx'[r] = idx[r],
           tries'[r] = tries[r]
    PROVE  StepsLeft(r)' = StepsLeft(r)
BY DEF StepsLeft

\* A step of a request takes one of those it has left, at least.
LEMMA ServeTakesSteps ==
    ASSUME TypeOK, NEW r \in Requests, Serve(r)
    PROVE  StepsLeft(r)' < StepsLeft(r)
<1> USE DEF shared, fixed
<1> DEFINE later == StepsAtCandidate * (Len(route[r]) - idx[r])
           retries == MaxRetries - tries[r]
<1>1. /\ route' = route /\ tries[r] \in 0..MaxRetries /\ MaxRetries \in Nat
      /\ pc \in [Requests -> {"new"} \cup Active \cup Ended]
      /\ tries \in [Requests -> 0..MaxRetries] /\ idx \in [Requests -> Nat \ {0}]
  BY CompletionAssumption
     DEF TypeOK, Serve, LookupHit, LookupMiss, AttemptSucceeds, AttemptRetries, Fails,
         AttemptFallsBack, AttemptExhausts, AttemptRaises, Backoff, Store, Record, Return
<1>2. StepsAtCandidate = 2 * MaxRetries + 2
  BY DEF StepsAtCandidate
<1>3. pc[r] \in {"lookup", "attempt", "backoff"} => later \in Nat /\ retries \in Nat
  BY StepsLeftIsNat
<1>4. CASE LookupHit(r)
  <2>1. pc[r] = "lookup" /\ pc'[r] = "record"
    BY <1>1, <1>4 DEF LookupHit
  <2>2. StepsLeft(r) = later + StepsAtCandidate + 3 /\ StepsLeft(r)' = 2
    BY <2>1 DEF StepsLeft
  <2>3. QED
    BY <1>1, <1>2, <1>3, <2>1, <2>2
<1>5. CASE LookupMiss(r)
  <2>1. pc[r] = "lookup" /\ pc'[r] = "attempt" /\ tries'[r] = 0 /\ idx' = idx
    BY <1>1, <1>5 DEF LookupMiss
  <2>2. /\ StepsLeft(r) = later + StepsAtCandidate + 3
        /\ StepsLeft(r)' = later + 2 * (MaxRetries - 0) + 4
    BY <1>1, <2>1 DEF StepsLeft
  <2>3. QED
    BY <1>1, <1>2, <1>3, <2>1, <2>2
<1>6. ASSUME NEW l \in Latencies, AttemptSucceeds(r, l)
      PROVE  StepsLeft(r)' < StepsLeft(r)
  <2>1. pc[r] = "attempt" /\ pc'[r] = "store"
    BY <1>1, <1>6 DEF AttemptSucceeds
  <2>2. StepsLeft(r) = later + 2 * retries + 4 /\ StepsLeft(r)' = 3
    BY <2>1 DEF StepsLeft
  <2>3. QED
    BY <1>3, <2>1, <2>2
<1>7. ASSUME NEW e \in Errors, AttemptRetries(r, e)
      PROVE  StepsLeft(r)' < StepsLeft(r)
  <2>1. /\ pc[r] = "attempt" /\ pc'[r] \in {"attempt", "backoff"}
        /\ tries'[r] = tries[r] + 1 /\ idx' = idx /\ tries[r] < MaxRetries
    BY <1>1, <1>7 DEF AttemptRetries, Fails, MayRetry
  <2>2. /\ StepsLeft(r) = later + 2 * retries + 4
        /\ \/ StepsLeft(r)' = later + 2 * (MaxRetries - (tries[r] + 1)) + 4
           \/ StepsLeft(r)' = later + 2 * (MaxRetries - (tries[r] + 1)) + 5
    BY <1>1, <2>1 DEF StepsLeft
  <2> HIDE DEF later
  <2>3. QED
    BY <1>1, <1>3, <2>1, <2>2
<1>8. ASSUME NEW e \in Errors, AttemptFallsBack(r, e)
      PROVE  StepsLeft(r)' < StepsLeft(r)
  <2> DEFINE d == Len(route[r]) - (idx[r] + 1)
  <2>1. /\ pc[r] = "attempt" /\ pc'[r] = "lookup" /\ idx'[r] = idx[r] + 1
        /\ idx[r] < Len(route[r])
    BY <1>1, <1>8 DEF AttemptFallsBack, Fails
  <2>2. d \in Nat /\ Len(route[r]) - idx[r] = d + 1
    <3>1. Len(route[r]) \in Nat /\ idx[r] \in Nat
      BY DEF TypeOK
    <3>2. QED
      BY <2>1, <3>1
  <2>3. /\ StepsLeft(r) = later + 2 * retries + 4
        /\ StepsLeft(r)' = StepsAtCandidate * d + StepsAtCandidate + 3
    BY <1>1, <2>1 DEF StepsLeft
  <2>4. later = StepsAtCandidate * d + StepsAtCandidate
    BY <2>2, StepsOfLaterCandidates
  <2> HIDE DEF later, d, retries
  <2>5. QED
    BY <1>3, <2>1, <2>3, <2>4
<1>9. ASSUME NEW e \in Errors, AttemptExhausts(r, e)
      PROVE  StepsLeft(r)' < StepsLeft(r)
  <2>1. pc[r] = "attempt" /\ pc'[r] = "record"
    BY <1>1, <1>9 DEF AttemptExhausts, Fails
  <2>2. StepsLeft(r) = later + 2 * retries + 4 /\ StepsLeft(r)' = 2
    BY <2>1 DEF StepsLeft
  <2>3. QED
    BY <1>3, <2>1, <2>2
<1>10. CASE AttemptRaises(r)
  <2>1. pc[r] = "attempt" /\ pc'[r] = "error"
    BY <1>1, <1>10 DEF AttemptRaises
  <2>2. StepsLeft(r) = later + 2 * retries + 4 /\ StepsLeft(r)' = 0
    BY <2>1 DEF StepsLeft
  <2>3. QED
    BY <1>3, <2>1, <2>2
<1>11. CASE Backoff(r)
  <2>1. pc[r] = "backoff" /\ pc'[r] = "attempt" /\ tries' = tries /\ idx' = idx
    BY <1>1, <1>11 DEF Backoff
  <2>2. /\ StepsLeft(r) = later + 2 * retries + 5
        /\ StepsLeft(r)' = later + 2 * retries + 4
    BY <1>1, <2>1 DEF StepsLeft
  <2> HIDE DEF later, retries
  <2>3. QED
    BY <1>3, <2>1, <2>2
<1>12. CASE Store(r) \/ Record(r) \/ Return(r)
  <2>1. \/ pc[r] = "store" /\ pc'[r] = "record"
        \/ pc[r] = "record" /\ pc'[r] = "recorded"
        \/ pc[r] = "recorded" /\ pc'[r] \in {"answered", "failed"}
    BY <1>1, <1>12 DEF Store, Record, Return
  <2>2. \/ StepsLeft(r) = 3 /\ StepsLeft(r)' = 2
        \/ StepsLeft(r) = 2 /\ StepsLeft(r)' = 1
        \/ StepsLeft(r) = 1 /\ StepsLeft(r)' = 0
    BY <2>1 DEF StepsLeft
  <2>3. QED
    BY <2>2
<1>13. QED
  BY <1>4, <1>5, <1>6, <1>7, <1>8, <1>9, <1>10, <1>11, <1>12 DEF Serve

\* No step of anybody else gives it more.
LEMMA OthersTakeNoSteps ==
    ASSUME TypeOK, NEW r \in Requests, pc[r] # "new", [Next]_vars, ~Serve(r)
    PROVE  StepsLeft(r)' <= StepsLeft(r)
<1> USE DEF shared, fixed
<1>0. StepsLeft(r) \in Nat
  BY StepsLeftIsNat
<1>1. ASSUME StepsLeft(r)' = StepsLeft(r) PROVE StepsLeft(r)' <= StepsLeft(r)
  BY <1>0, <1>1
<1>2. ASSUME NEW x \in Requests, NEW q \in Queries, ArriveNoProvider(x, q) \/ Arrive(x, q)
      PROVE  StepsLeft(r)' = StepsLeft(r)
  BY <1>2, StepsFrame DEF ArriveNoProvider, Arrive, TypeOK
<1>3. ASSUME NEW x \in Requests, Serve(x)
      PROVE  StepsLeft(r)' = StepsLeft(r)
  <2>1. x # r
    BY <1>3
  <2>2. UNCHANGED route
    BY <1>3 DEF Serve, LookupHit, LookupMiss, AttemptSucceeds, AttemptRetries, Fails,
                AttemptFallsBack, AttemptExhausts, AttemptRaises, Backoff, Store, Record,
                Return
  <2>3. pc'[r] = pc[r] /\ idx'[r] = idx[r] /\ tries'[r] = tries[r]
    BY <1>3, <2>1
       DEF TypeOK, Serve, LookupHit, LookupMiss, AttemptSucceeds, AttemptRetries, Fails,
           AttemptFallsBack, AttemptExhausts, AttemptRaises, Backoff, Store, Record, Return
  <2>4. QED
    BY <2>2, <2>3, StepsFrame
<1>4. CASE (\E k \in CacheKeys : Expire(k)) \/ UNCHANGED vars
  <2>1. StepsLeft(r)' = StepsLeft(r)
    BY <1>4, StepsFrame DEF Expire, vars
  <2>2. QED
    BY <1>1, <2>1
<1>5. ASSUME NEW d \in Configs, Restart(d)
      PROVE  StepsLeft(r)' <= StepsLeft(r)
  <2>1. CASE pc[r] \in Active
    <3>1. pc'[r] = "lost"
      BY <1>5, <2>1 DEF Restart
    <3>2. StepsLeft(r)' = 0
      BY <3>1 DEF StepsLeft
    <3>3. QED
      BY <1>0, <3>2
  <2>2. CASE pc[r] \notin Active
    BY <1>1, <1>5, <2>2, StepsFrame DEF Restart
  <2>3. QED
    BY <2>1, <2>2
<1>6. QED
  BY <1>1, <1>2, <1>3, <1>4, <1>5 DEF Next, Idle

\* Every step of a request brings it closer to its end, and no step of anybody else,
\* no expiry and no restart sets it back: whatever fails, and for any number of
\* retries and candidates, a request that is given its turns comes to its end.
THEOREM EveryStepCounts ==
    Spec => [][\A r \in Requests :
                  /\ pc[r] # "new" => StepsLeft(r)' <= StepsLeft(r)
                  /\ Serve(r) => StepsLeft(r)' < StepsLeft(r)]_vars
<1> DEFINE Measured == \A r \in Requests : StepsLeft(r) \in Nat
<1>1. TypeOK => Measured
  BY StepsLeftIsNat
<1>2. ASSUME TypeOK, Measured, Measured', [Next]_vars, NEW r \in Requests
      PROVE  /\ pc[r] # "new" => StepsLeft(r)' <= StepsLeft(r)
             /\ Serve(r) => StepsLeft(r)' < StepsLeft(r)
  <2>1. StepsLeft(r) \in Nat /\ StepsLeft(r)' \in Nat
    BY <1>2
  <2>2. Serve(r) => StepsLeft(r)' < StepsLeft(r)
    BY <1>2, ServeTakesSteps
  <2>3. pc[r] # "new" /\ ~Serve(r) => StepsLeft(r)' <= StepsLeft(r)
    BY <1>2, OthersTakeNoSteps
  <2> HIDE DEF Measured
  <2>4. QED
    BY <2>1, <2>2, <2>3
<1>3. TypeOK /\ Measured /\ Measured' /\ [Next]_vars =>
         [\A r \in Requests :
             /\ pc[r] # "new" => StepsLeft(r)' <= StepsLeft(r)
             /\ Serve(r) => StepsLeft(r)' < StepsLeft(r)]_vars
  BY <1>2
<1> HIDE DEF Measured
<1>4. QED
  BY <1>1, <1>3, TypeCorrect, PTL DEF Spec

-----------------------------------------------------------------------------
(* Answers are genuine *)

\* Until the last candidate has been called a request holds no answer.
Early == {"new", "lookup", "attempt", "backoff"}
Unanswered == \A r \in Requests : pc[r] \in Early => answer[r] = None

\* A request in progress arrived in the process that serves it.
AtHome == \A r \in Requests : pc[r] \in Active => home[r] = deployment

\* An answer can only be genuine if the cache is sound, and the cache is sound
\* because every answer on its way into it is genuine: neither is inductive alone.
GenuineInv == Unanswered /\ AtHome /\ CacheSound /\ AnswerIsGenuine

LEMMA GenuineInit == Init => GenuineInv
BY DEF Init, GenuineInv, Unanswered, AtHome, Active, CacheSound, AnswerIsGenuine

\* A step that leaves answers, bodies, routes and the cache alone and sends no
\* request back to the candidates.
LEMMA GenuineFrame ==
    ASSUME GenuineInv,
           UNCHANGED <<deployment, cache, query, route, idx, answer, home>>,
           \A r \in Requests : /\ pc'[r] \in Early => pc[r] \in Early
                               /\ pc'[r] \in Active => pc[r] \in Active
    PROVE  GenuineInv'
<1>1. Unanswered' /\ AtHome'
  BY DEF GenuineInv, Unanswered, AtHome
<1>2. CacheSound'
  BY DEF GenuineInv, CacheSound
<1>3. AnswerIsGenuine'
  BY DEF GenuineInv, AnswerIsGenuine, Candidate
<1>4. QED
  BY <1>1, <1>2, <1>3 DEF GenuineInv

LEMMA GenuineNext == TypeOK /\ GenuineInv /\ [Next]_vars => GenuineInv'
<1> SUFFICES ASSUME TypeOK, GenuineInv, [Next]_vars PROVE GenuineInv'
  OBVIOUS
<1> USE DEF shared, fixed, Active, Early
<1>1. ASSUME NEW r \in Requests, NEW q \in Queries,
             ArriveNoProvider(r, q) \/ Arrive(r, q)
      PROVE  GenuineInv'
  <2>1. /\ pc[r] = "new" /\ answer[r] = None
        /\ UNCHANGED <<deployment, cache, answer>>
        /\ home' = [home EXCEPT ![r] = deployment]
        /\ \A x \in Requests \ {r} :
              /\ route'[x] = route[x] /\ idx'[x] = idx[x]
              /\ query'[x] = query[x] /\ pc'[x] = pc[x]
    BY <1>1 DEF ArriveNoProvider, Arrive, GenuineInv, Unanswered, TypeOK
  <2>2. Unanswered'
    BY <2>1 DEF GenuineInv, Unanswered
  <2>3. AtHome'
    BY <2>1 DEF GenuineInv, AtHome, TypeOK
  <2>4. ASSUME NEW x \in Requests, answer'[x] # None
        PROVE  /\ answer[x] = answer'[x] /\ answer[x] # None
               /\ Candidate(x)' = Candidate(x)
               /\ home'[x] = home[x] /\ query'[x] = query[x]
    <3>1. x # r /\ answer[x] = answer'[x]
      BY <2>1, <2>4
    <3>2. home'[x] = home[x]
      BY <2>1, <3>1 DEF TypeOK
    <3>3. QED
      BY <2>1, <2>4, <3>1, <3>2 DEF Candidate
  <2>5. AnswerIsGenuine'
    BY <2>4 DEF GenuineInv, AnswerIsGenuine
  <2>6. QED
    BY <2>1, <2>2, <2>3, <2>5 DEF GenuineInv, CacheSound
<1>2. ASSUME NEW r \in Requests, LookupHit(r)
      PROVE  GenuineInv'
  <2>1. /\ pc[r] = "lookup" /\ pc' = [pc EXCEPT ![r] = "record"]
        /\ answer' = [answer EXCEPT ![r] = cache[Key(r)]]
        /\ cache[Key(r)] # None
        /\ UNCHANGED <<deployment, cache, query, route, home, idx>>
    BY <1>2 DEF LookupHit
  <2>2. Key(r) \in CacheKeys /\ home[r] = deployment
    BY <2>1, CandidateType DEF GenuineInv, AtHome, TypeOK
  <2>3. /\ cache[Key(r)].provider = Candidate(r)
        /\ cache[Key(r)].model = home[r].model[Candidate(r)]
        /\ cache[Key(r)].prompt = query[r].prompt
        /\ cache[Key(r)].parameters = EffectiveParameters(Candidate(r), query[r])
    BY <2>1, <2>2 DEF GenuineInv, CacheSound, Key, BuildKey
  <2>4. AnswerIsGenuine'
    BY <2>1, <2>3 DEF GenuineInv, AnswerIsGenuine, Candidate, TypeOK
  <2>5. QED
    BY <2>1, <2>4 DEF GenuineInv, Unanswered, AtHome, CacheSound, TypeOK
<1>3. ASSUME NEW r \in Requests, NEW l \in Latencies, AttemptSucceeds(r, l)
      PROVE  GenuineInv'
  <2>1. /\ pc[r] = "attempt" /\ pc' = [pc EXCEPT ![r] = "store"]
        /\ answer' = [answer EXCEPT ![r] = Generate(r, Candidate(r))]
        /\ UNCHANGED <<deployment, cache, query, route, home, idx>>
    BY <1>3 DEF AttemptSucceeds
  <2>2. home[r] = deployment
    BY <2>1 DEF GenuineInv, AtHome
  <2>3. AnswerIsGenuine'
    BY <2>1, <2>2 DEF GenuineInv, AnswerIsGenuine, Generate, Candidate, TypeOK
  <2>4. QED
    BY <2>1, <2>3 DEF GenuineInv, Unanswered, AtHome, CacheSound, TypeOK
<1>4. ASSUME NEW r \in Requests, NEW e \in Errors,
             AttemptRetries(r, e) \/ AttemptFallsBack(r, e) \/ AttemptExhausts(r, e)
      PROVE  GenuineInv'
  <2>1. /\ pc[r] = "attempt" /\ answer[r] = None
        /\ UNCHANGED <<deployment, cache, query, route, home, answer>>
        /\ \A x \in Requests \ {r} : idx'[x] = idx[x] /\ pc'[x] = pc[x]
    BY <1>4 DEF AttemptRetries, AttemptFallsBack, AttemptExhausts, Fails, GenuineInv,
                Unanswered, TypeOK
  <2>2. AnswerIsGenuine'
    BY <2>1 DEF GenuineInv, AnswerIsGenuine, Candidate
  <2>3. QED
    BY <2>1, <2>2 DEF GenuineInv, Unanswered, AtHome, CacheSound
<1>5. ASSUME NEW r \in Requests,
             LookupMiss(r) \/ AttemptRaises(r) \/ Backoff(r) \/ Record(r) \/ Return(r)
      PROVE  GenuineInv'
  <2>1. /\ UNCHANGED <<deployment, cache, query, route, idx, answer, home>>
        /\ \A x \in Requests : /\ pc'[x] \in Early => pc[x] \in Early
                               /\ pc'[x] \in Active => pc[x] \in Active
    BY <1>5 DEF LookupMiss, AttemptRaises, Backoff, Record, Return, TypeOK
  <2>2. QED
    BY <2>1, GenuineFrame
<1>6. ASSUME NEW r \in Requests, Store(r)
      PROVE  GenuineInv'
  <2>1. /\ pc[r] = "store" /\ pc' = [pc EXCEPT ![r] = "record"]
        /\ cache' \in {cache, [cache EXCEPT ![Key(r)] = answer[r]]}
        /\ UNCHANGED <<deployment, query, route, home, idx, answer>>
    BY <1>6 DEF Store, Stored
  <2>2. Key(r) \in CacheKeys /\ home[r] = deployment
    BY <2>1, CandidateType DEF GenuineInv, AtHome, TypeOK
  <2>3. CacheSound'
    <3>1. CASE answer[r] = None
      BY <2>1, <2>2, <3>1 DEF GenuineInv, CacheSound, TypeOK
    <3>2. CASE answer[r] # None
      <4>1. /\ answer[r].provider = Key(r).provider
            /\ answer[r].model = Key(r).model
            /\ answer[r].prompt = Key(r).prompt
            /\ answer[r].parameters = Key(r).parameters
        BY <2>2, <3>2 DEF GenuineInv, AnswerIsGenuine, Key, BuildKey
      <4>2. QED
        BY <2>1, <2>2, <4>1 DEF GenuineInv, CacheSound, TypeOK
    <3>3. QED
      BY <3>1, <3>2
  <2>4. QED
    BY <2>1, <2>3 DEF GenuineInv, Unanswered, AtHome, AnswerIsGenuine, Candidate, TypeOK
<1>7. ASSUME NEW k \in CacheKeys, Expire(k)
      PROVE  GenuineInv'
  <2>1. CacheSound'
    BY <1>7 DEF Expire, GenuineInv, CacheSound, TypeOK
  <2>2. QED
    BY <1>7, <2>1 DEF Expire, GenuineInv, Unanswered, AtHome, AnswerIsGenuine, Candidate
<1>8. ASSUME NEW d \in Configs, Restart(d)
      PROVE  GenuineInv'
  BY <1>8 DEF Restart, GenuineInv, Unanswered, AtHome, CacheSound, AnswerIsGenuine,
              Candidate
<1>9. CASE UNCHANGED vars
  BY <1>9, GenuineFrame DEF vars
<1>10. QED
  BY <1>1, <1>2, <1>3, <1>4, <1>5, <1>6, <1>7, <1>8, <1>9 DEF Next, Serve, Idle

\* Every answer a request holds, from the cache or from upstream, across restarts
\* and changes of the configured model, was generated by its own candidate for
\* its own prompt and parameters with the model it arrived under; and so is
\* everything the cache holds.
THEOREM AnswersAreGenuine == Spec => [](CacheSound /\ AnswerIsGenuine)
<1>1. Init => TypeOK /\ GenuineInv
  BY TypeInit, GenuineInit
<1>2. TypeOK /\ GenuineInv /\ [Next]_vars => (TypeOK /\ GenuineInv)'
  BY TypeNext, GenuineNext
<1>3. TypeOK /\ GenuineInv => CacheSound /\ AnswerIsGenuine
  BY DEF GenuineInv
<1>4. QED
  BY <1>1, <1>2, <1>3, PTL DEF Spec

\* What is kept under a key answers exactly that key, whoever stored it, in whichever
\* process, and whatever was configured then.
THEOREM CacheIsSound == Spec => []CacheSound
BY AnswersAreGenuine, PTL

-----------------------------------------------------------------------------
(* Candidates are exhausted one after the other *)

Untouched(r, p) == calls[r][p] = 0 /\ fate[r][p] = None

\* How far a request has got: what its candidates so far have been through, that
\* the others have not been called, and what holds of the candidate it is at.
Progress(r) ==
    /\ route[r] # <<>> => route[r] \in SetToSeqs(Eligible(home[r]))
    /\ pc[r] = "new" => route[r] = <<>>
    /\ \A p \in Names : calls[r][p] <= MaxRetries + 1
    /\ \A p \in Names :
          (\A i \in DOMAIN route[r] : i <= idx[r] => route[r][i] # p) => Untouched(r, p)
    /\ \A i \in DOMAIN route[r] : i < idx[r] => Exhausted(r, route[r][i])
    /\ pc[r] = "lookup" => Untouched(r, Candidate(r))
    /\ pc[r] = "attempt" => /\ calls[r][Candidate(r)] = tries[r] + 1
                            /\ fate[r][Candidate(r)] \notin FinalErrors
    /\ pc[r] = "backoff" => /\ calls[r][Candidate(r)] = tries[r]
                            /\ fate[r][Candidate(r)] \notin FinalErrors
    /\ pc[r] = "store" => answer[r] # None
    /\ pc[r] = "failed" => answer[r] = None
    /\ pc[r] \in {"record", "recorded", "failed"} /\ answer[r] = None =>
          IF route[r] = <<>>
          THEN fault[r] = "NoEligibleProviderError" /\ Eligible(home[r]) = {}
          ELSE /\ idx[r] = Len(route[r])
               /\ Exhausted(r, Candidate(r))
               /\ fault[r] = fate[r][Candidate(r)]

ProgressInv == \A r \in Requests : Progress(r)

LEMMA ProgressInit == Init => ProgressInv
BY CompletionAssumption
   DEF Init, ProgressInv, Progress, Untouched, Exhausted, Candidate, Names

\* A request that a step does not touch keeps its progress.
LEMMA ProgressFrame ==
    ASSUME NEW r \in Requests, Progress(r),
           pc'[r] = pc[r], route'[r] = route[r], idx'[r] = idx[r],
           tries'[r] = tries[r], fault'[r] = fault[r], answer'[r] = answer[r],
           home'[r] = home[r], calls'[r] = calls[r], fate'[r] = fate[r]
    PROVE  Progress(r)'
BY DEF Progress, Untouched, Exhausted, Candidate

\* A request whose pc alone moves past the upstream calls keeps its progress.
LEMMA ProgressMove ==
    ASSUME NEW r \in Requests, Progress(r),
           pc'[r] \in {"record", "recorded", "failed"} /\ answer'[r] = None =>
              pc[r] \in {"record", "recorded"},
           pc'[r] \in {"record", "recorded", "answered", "failed", "error", "lost"},
           pc'[r] = "failed" => answer'[r] = None,
           answer'[r] = None => answer[r] = None,
           UNCHANGED <<route, idx, tries, fault, home, calls, fate>>
    PROVE  Progress(r)'
BY DEF Progress, Untouched, Exhausted, Candidate

\* The position of a routed request and the distinctness of its candidates.
LEMMA RoutedRequest ==
    ASSUME TypeOK, NEW r \in Requests, Progress(r), route[r] # <<>>
    PROVE  /\ idx[r] \in DOMAIN route[r]
           /\ Candidate(r) \in Names
           /\ \A i \in DOMAIN route[r] : route[r][i] \in Eligible(home[r])
           /\ \A i \in DOMAIN route[r] : i # idx[r] => route[r][i] # Candidate(r)
           /\ \A p \in Eligible(home[r]) : \E i \in DOMAIN route[r] : route[r][i] = p
<1>1. /\ idx[r] \in DOMAIN route[r]
      /\ home[r] \in Deployments
      /\ route[r] \in SetToSeqs(Eligible(home[r]))
  BY CompletionAssumption DEF TypeOK, Progress
<1>2. Candidate(r) \in Names
  BY CandidateType
<1>3. QED
  BY <1>1, <1>2, RouteShape DEF Candidate

\* A step at the candidate c of a request keeps its progress if it leaves the
\* other candidates alone and does at c what the new pc stands for.
LEMMA ProgressAtCandidate ==
    ASSUME TypeOK, NEW r \in Requests, Progress(r), NEW c, c = Candidate(r),
           pc[r] \in {"lookup", "attempt", "backoff"},
           pc'[r] \in {"attempt", "backoff", "record"},
           route'[r] = route[r], home'[r] = home[r], idx'[r] = idx[r],
           \A p \in Names \ {c} : calls'[r][p] = calls[r][p] /\ fate'[r][p] = fate[r][p],
           calls'[r][c] <= MaxRetries + 1,
           pc'[r] = "attempt" =>
              calls'[r][c] = tries'[r] + 1 /\ fate'[r][c] \notin FinalErrors,
           pc'[r] = "backoff" =>
              calls'[r][c] = tries'[r] /\ fate'[r][c] \notin FinalErrors,
           pc'[r] = "record" =>
              /\ idx[r] = Len(route[r])
              /\ fate'[r][c] # None
              /\ Retryable(fate'[r][c]) => calls'[r][c] = MaxRetries + 1
              /\ fault'[r] = fate'[r][c]
    PROVE  Progress(r)'
<1>1. /\ route[r] # <<>> /\ route[r] \in Seq(Names)
      /\ idx[r] \in DOMAIN route[r] /\ idx[r] \in Nat
      /\ c \in Names /\ c = route[r][idx[r]]
      /\ \A i \in DOMAIN route[r] : i # idx[r] => route[r][i] # c
  BY RoutedRequest DEF TypeOK, Candidate
<1>2. \A i \in DOMAIN route[r] : i < idx[r] => route[r][i] \in Names \ {c}
  <2> TAKE i \in DOMAIN route[r]
  <2> HAVE i < idx[r]
  <2> QED
    BY <1>1
<1>3. Candidate(r)' = c
  BY <1>1 DEF Candidate
<1>4. \A p \in Names : calls'[r][p] <= MaxRetries + 1
  BY DEF Progress
<1>5. \A p \in Names :
         (\A i \in DOMAIN route'[r] : i <= idx'[r] => route'[r][i] # p)
            => calls'[r][p] = 0 /\ fate'[r][p] = None
  BY <1>1 DEF Progress, Untouched
<1>6. \A i \in DOMAIN route'[r] : i < idx'[r] =>
         /\ fate'[r][route'[r][i]] # None
         /\ Retryable(fate'[r][route'[r][i]]) => calls'[r][route'[r][i]] = MaxRetries + 1
  BY <1>2 DEF Progress, Exhausted
<1>7. QED
  BY <1>1, <1>3, <1>4, <1>5, <1>6 DEF Progress, Untouched, Exhausted

LEMMA ProgressNext == TypeOK /\ ProgressInv /\ [Next]_vars => ProgressInv'
<1> SUFFICES ASSUME TypeOK, ProgressInv, [Next]_vars, NEW x \in Requests
             PROVE  Progress(x)'
  BY DEF ProgressInv
<1> USE DEF shared, fixed
<1>0. Progress(x)
  BY DEF ProgressInv
<1>1. ASSUME NEW r \in Requests, NEW q \in Queries, ArriveNoProvider(r, q)
      PROVE  Progress(x)'
  <2>1. CASE x # r
    BY <1>0, <1>1, <2>1, ProgressFrame DEF ArriveNoProvider, TypeOK
  <2>2. CASE x = r
    <3>1. /\ pc'[x] = "record" /\ route'[x] = <<>> /\ route[x] = <<>>
          /\ home'[x] = deployment /\ Eligible(deployment) = {}
          /\ fault'[x] = "NoEligibleProviderError"
          /\ UNCHANGED <<calls, fate>>
      BY <1>0, <1>1, <2>2 DEF ArriveNoProvider, Progress, TypeOK
    <3>2. QED
      BY <1>0, <3>1 DEF Progress, Untouched
  <2>3. QED
    BY <2>1, <2>2
<1>2. ASSUME NEW r \in Requests, NEW q \in Queries, Arrive(r, q)
      PROVE  Progress(x)'
  <2>1. CASE x # r
    BY <1>0, <1>2, <2>1, ProgressFrame DEF Arrive, TypeOK
  <2>2. CASE x = r
    <3>1. PICK s \in SetToSeqs(Eligible(deployment)) :
              route' = [route EXCEPT ![r] = s]
      BY <1>2 DEF Arrive
    <3>2. /\ pc'[x] = "lookup" /\ route'[x] = s /\ route[x] = <<>>
          /\ home'[x] = deployment /\ idx'[x] = 1
          /\ UNCHANGED <<calls, fate>>
      BY <1>0, <1>2, <2>2, <3>1 DEF Arrive, Progress, TypeOK
    <3>3. /\ s \in Seq(Names) /\ 1 \in DOMAIN s
      BY <1>2, RouteShape, CompletionAssumption DEF Arrive, TypeOK
    <3>4. \A p \in Names : Untouched(x, p)
      BY <1>0, <3>2 DEF Progress
    <3>5. s[1] \in Names /\ Untouched(x, s[1]) /\ \A i \in DOMAIN s : ~(i < 1)
      BY <3>3, <3>4
    <3>6. QED
      BY <1>0, <3>2, <3>3, <3>4, <3>5 DEF Progress, Untouched, Candidate
  <2>3. QED
    BY <2>1, <2>2
<1>3. ASSUME NEW r \in Requests, LookupHit(r)
      PROVE  Progress(x)'
  <2>1. CASE x # r
    BY <1>0, <1>3, <2>1, ProgressFrame DEF LookupHit, TypeOK
  <2>2. CASE x = r
    BY <1>0, <1>3, <2>2, ProgressMove DEF LookupHit, TypeOK
  <2>3. QED
    BY <2>1, <2>2
<1>4. ASSUME NEW r \in Requests, LookupMiss(r)
      PROVE  Progress(x)'
  <2>1. CASE x # r
    BY <1>0, <1>4, <2>1, ProgressFrame DEF LookupMiss, TypeOK
  <2>2. CASE x = r
    <3> DEFINE c == Candidate(x)
    <3>1. /\ pc[x] = "lookup" /\ pc'[x] = "attempt" /\ tries'[x] = 0
          /\ calls'[x] = [calls[x] EXCEPT ![c] = @ + 1]
          /\ UNCHANGED <<route, idx, fault, answer, home, fate>>
      BY <1>4, <2>2 DEF LookupMiss, TypeOK
    <3>2. c \in Names
      BY <3>1, CandidateType DEF TypeOK
    <3>3. calls[x][c] = 0 /\ fate[x][c] = None
      BY <1>0, <3>1 DEF Progress, Untouched
    <3>4. /\ calls'[x][c] = 1
          /\ \A p \in Names \ {c} : calls'[x][p] = calls[x][p]
          /\ MaxRetries \in Nat /\ None \notin FinalErrors
      BY <3>1, <3>2, <3>3, CompletionAssumption DEF TypeOK, Categories
    <3> HIDE DEF c
    <3>5. c = Candidate(x)
      BY DEF c
    <3>6. /\ calls'[x][c] <= MaxRetries + 1
          /\ calls'[x][c] = tries'[x] + 1 /\ fate'[x][c] \notin FinalErrors
          /\ \A p \in Names \ {c} : fate'[x][p] = fate[x][p]
          /\ route'[x] = route[x] /\ home'[x] = home[x] /\ idx'[x] = idx[x]
      BY <3>1, <3>3, <3>4
    <3>7. QED
      BY <1>0, <3>1, <3>4, <3>5, <3>6, ProgressAtCandidate, Zenon
  <2>3. QED
    BY <2>1, <2>2
<1>5. ASSUME NEW r \in Requests, NEW l \in Latencies, AttemptSucceeds(r, l)
      PROVE  Progress(x)'
  <2>1. CASE x # r
    BY <1>0, <1>5, <2>1, ProgressFrame DEF AttemptSucceeds, TypeOK
  <2>2. CASE x = r
    <3>0. route[r] # <<>>
      BY <1>5 DEF AttemptSucceeds, TypeOK
    <3>1. Generate(r, Candidate(r)) # None
      BY <3>0, CandidateType, NoneIsNoAnswer
    <3>2. /\ pc'[x] = "store" /\ answer'[x] # None
          /\ UNCHANGED <<route, idx, tries, fault, home, calls, fate>>
      BY <1>5, <2>2, <3>1 DEF AttemptSucceeds, TypeOK
    <3>3. QED
      BY <1>0, <3>2 DEF Progress, Untouched, Exhausted
  <2>3. QED
    BY <2>1, <2>2
<1>6. ASSUME NEW r \in Requests, NEW e \in Errors, Fails(r, e), x = r
      PROVE  \E c \in Names :
                /\ c = Candidate(x) /\ pc[x] = "attempt"
                /\ route[x] # <<>>
                /\ fault'[x] = e /\ fate'[x][c] = e /\ e # None
                /\ \A p \in Names \ {c} : fate'[x][p] = fate[x][p]
                /\ route'[x] = route[x] /\ home'[x] = home[x] /\ answer'[x] = answer[x]
                /\ tries[x] \in 0..MaxRetries /\ MaxRetries \in Nat
                /\ calls[x][c] = tries[x] + 1
  <2>1. pc[x] = "attempt" /\ route[x] # <<>> /\ Candidate(x) \in Names
    BY <1>6, CandidateType DEF Fails, TypeOK
  <2>2. e # None
    BY CompletionAssumption DEF Categories
  <2>3. calls[x][Candidate(x)] = tries[x] + 1
    BY <1>0, <2>1 DEF Progress
  <2>4. QED
    BY <1>6, <2>1, <2>2, <2>3, CompletionAssumption DEF Fails, TypeOK
<1>7. ASSUME NEW r \in Requests, NEW e \in Errors, AttemptRetries(r, e)
      PROVE  Progress(x)'
  <2>1. CASE x # r
    BY <1>0, <1>7, <2>1, ProgressFrame DEF AttemptRetries, Fails, TypeOK
  <2>2. CASE x = r
    <3>1. PICK c \in Names :
                /\ c = Candidate(x) /\ pc[x] = "attempt"
                /\ fault'[x] = e /\ fate'[x][c] = e
                /\ \A p \in Names \ {c} : fate'[x][p] = fate[x][p]
                /\ route'[x] = route[x] /\ home'[x] = home[x]
                /\ tries[x] \in 0..MaxRetries /\ MaxRetries \in Nat
                /\ calls[x][c] = tries[x] + 1
      BY <1>6, <1>7, <2>2 DEF AttemptRetries
    <3>2. /\ e \notin FinalErrors /\ tries[x] < MaxRetries
          /\ tries'[x] = tries[x] + 1 /\ idx'[x] = idx[x]
      BY <1>7, <2>2, <3>1
         DEF AttemptRetries, MayRetry, Retryable, RetryableErrors, FinalErrors, TypeOK
    <3>3. \/ pc'[x] = "backoff" /\ calls'[x] = calls[x]
          \/ /\ pc'[x] = "attempt"
             /\ calls'[x] = [calls[x] EXCEPT ![c] = @ + 1]
      BY <1>7, <2>2, <3>1 DEF AttemptRetries, TypeOK
    <3>4. \A p \in Names \ {c} : calls'[x][p] = calls[x][p]
      BY <3>3 DEF TypeOK
    <3>5. /\ pc'[x] = "backoff" => calls'[x][c] = tries'[x]
          /\ pc'[x] = "attempt" => calls'[x][c] = tries'[x] + 1
          /\ calls'[x][c] <= MaxRetries + 1
      <4>1. calls[x] \in [Names -> Nat] /\ tries[x] \in Nat /\ tries[x] <= MaxRetries
        BY <3>1 DEF TypeOK
      <4>2. CASE pc'[x] = "backoff" /\ calls'[x] = calls[x]
        BY <3>1, <3>2, <4>1, <4>2
      <4>3. CASE pc'[x] = "attempt" /\ calls'[x] = [calls[x] EXCEPT ![c] = @ + 1]
        <5>1. calls'[x][c] = calls[x][c] + 1
          BY <4>1, <4>3
        <5>2. QED
          BY <3>1, <3>2, <4>1, <4>3, <5>1
      <4>4. QED
        BY <3>3, <4>2, <4>3
    <3>6. pc'[x] \in {"attempt", "backoff"} /\ fate'[x][c] \notin FinalErrors
      BY <3>1, <3>2, <3>3
    <3>7. QED
      BY <1>0, <3>1, <3>2, <3>4, <3>5, <3>6, ProgressAtCandidate, Zenon
  <2>3. QED
    BY <2>1, <2>2
<1>8. ASSUME NEW r \in Requests, NEW e \in Errors, AttemptFallsBack(r, e)
      PROVE  Progress(x)'
  <2>1. CASE x # r
    BY <1>0, <1>8, <2>1, ProgressFrame DEF AttemptFallsBack, Fails, TypeOK
  <2>2. CASE x = r
    <3>1. PICK c \in Names :
                /\ c = Candidate(x) /\ pc[x] = "attempt"
                /\ route[x] # <<>>
                /\ fate'[x][c] = e /\ e # None
                /\ \A p \in Names \ {c} : fate'[x][p] = fate[x][p]
                /\ route'[x] = route[x] /\ home'[x] = home[x]
                /\ tries[x] \in 0..MaxRetries /\ MaxRetries \in Nat
                /\ calls[x][c] = tries[x] + 1
      BY <1>6, <1>8, <2>2 DEF AttemptFallsBack
    <3>2. /\ pc'[x] = "lookup" /\ idx'[x] = idx[x] + 1 /\ calls'[x] = calls[x]
          /\ idx[x] < Len(route[x])
          /\ Retryable(e) => ~(tries[x] < MaxRetries)
      BY <1>8, <2>2 DEF AttemptFallsBack, MayRetry, TypeOK
    <3>3. Retryable(fate'[x][c]) => calls'[x][c] = MaxRetries + 1
      BY <3>1, <3>2
    <3>4. /\ route[x] \in Seq(Names) /\ idx[x] \in Nat /\ idx[x] \in DOMAIN route[x]
          /\ idx[x] + 1 \in DOMAIN route[x]
          /\ c = route[x][idx[x]]
          /\ \A i, j \in DOMAIN route[x] : i # j => route[x][i] # route[x][j]
      <4>1. idx[x] \in DOMAIN route[x] /\ home[x] \in Deployments
        BY <3>1, CompletionAssumption DEF TypeOK
      <4>2. route[x] \in SetToSeqs(Eligible(home[x]))
        BY <1>0, <3>1 DEF Progress
      <4>3. QED
        BY <3>1, <3>2, <4>1, <4>2, RouteShape DEF Candidate, TypeOK
    <3>5. \A i \in DOMAIN route[x] : i < idx[x] =>
             /\ fate[x][route[x][i]] # None
             /\ Retryable(fate[x][route[x][i]]) =>
                   calls[x][route[x][i]] = MaxRetries + 1
      BY <1>0 DEF Progress, Exhausted
    <3>6. \A i \in DOMAIN route[x] : i < idx[x] + 1 =>
             /\ fate'[x][route[x][i]] # None
             /\ Retryable(fate'[x][route[x][i]]) =>
                   calls'[x][route[x][i]] = MaxRetries + 1
      <4> TAKE i \in DOMAIN route[x]
      <4> HAVE i < idx[x] + 1
      <4>1. CASE i = idx[x]
        BY <3>1, <3>3, <3>4, <4>1
      <4>2. CASE i # idx[x]
        <5>1. i < idx[x] /\ route[x][i] \in Names \ {c}
          BY <3>4, <4>2
        <5>2. QED
          BY <3>1, <3>2, <3>5, <5>1
      <4>3. QED
        BY <4>1, <4>2
    <3>7. \A p \in Names :
             (\A i \in DOMAIN route[x] : i <= idx[x] + 1 => route[x][i] # p)
                => calls'[x][p] = 0 /\ fate'[x][p] = None
      BY <1>0, <3>1, <3>2, <3>4 DEF Progress, Untouched
    <3>8. LET n == route[x][idx[x] + 1] IN
             n \in Names /\ calls'[x][n] = 0 /\ fate'[x][n] = None
      <4> DEFINE n == route[x][idx[x] + 1]
      <4>1. n \in Names /\ n # c
        BY <3>4
      <4>2. \A i \in DOMAIN route[x] : i <= idx[x] => route[x][i] # n
        BY <3>4
      <4>3. calls[x][n] = 0 /\ fate[x][n] = None
        BY <1>0, <4>1, <4>2 DEF Progress, Untouched
      <4>4. QED
        BY <3>1, <3>2, <4>1, <4>3
    <3>9. Candidate(x)' = route[x][idx[x] + 1]
      BY <3>1, <3>2 DEF Candidate
    <3>10. QED
      BY <1>0, <3>1, <3>2, <3>6, <3>7, <3>8, <3>9 DEF Progress, Untouched, Exhausted
  <2>3. QED
    BY <2>1, <2>2
<1>9. ASSUME NEW r \in Requests, NEW e \in Errors, AttemptExhausts(r, e)
      PROVE  Progress(x)'
  <2>1. CASE x # r
    BY <1>0, <1>9, <2>1, ProgressFrame DEF AttemptExhausts, Fails, TypeOK
  <2>2. CASE x = r
    <3>1. PICK c \in Names :
                /\ c = Candidate(x) /\ pc[x] = "attempt"
                /\ fault'[x] = e /\ fate'[x][c] = e /\ e # None
                /\ \A p \in Names \ {c} : fate'[x][p] = fate[x][p]
                /\ route'[x] = route[x] /\ home'[x] = home[x]
                /\ tries[x] \in 0..MaxRetries /\ MaxRetries \in Nat
                /\ calls[x][c] = tries[x] + 1
      BY <1>6, <1>9, <2>2 DEF AttemptExhausts
    <3>2. /\ pc'[x] = "record" /\ idx'[x] = idx[x] /\ calls'[x] = calls[x]
          /\ idx[x] = Len(route[x])
          /\ Retryable(e) => ~(tries[x] < MaxRetries)
      BY <1>9, <2>2 DEF AttemptExhausts, MayRetry, TypeOK
    <3>3. /\ Retryable(fate'[x][c]) => calls'[x][c] = MaxRetries + 1
          /\ calls'[x][c] <= MaxRetries + 1
      BY <3>1, <3>2
    <3>4. QED
      BY <1>0, <3>1, <3>2, <3>3, ProgressAtCandidate, Zenon
  <2>3. QED
    BY <2>1, <2>2
<1>10. ASSUME NEW r \in Requests, AttemptRaises(r) \/ Store(r) \/ Record(r) \/ Return(r)
       PROVE  Progress(x)'
  <2>1. CASE x # r
    BY <1>0, <1>10, <2>1, ProgressFrame
       DEF AttemptRaises, Store, Record, Return, TypeOK
  <2>2. CASE x = r
    BY <1>0, <1>10, <2>2, ProgressMove
       DEF AttemptRaises, Store, Record, Return, Progress, TypeOK
  <2>3. QED
    BY <2>1, <2>2
<1>11. ASSUME NEW r \in Requests, Backoff(r)
       PROVE  Progress(x)'
  <2>1. CASE x # r
    BY <1>0, <1>11, <2>1, ProgressFrame DEF Backoff, TypeOK
  <2>2. CASE x = r
    <3>1. PICK c \in Names : c = Candidate(x)
      BY <1>11, <2>2, CandidateType DEF Backoff, TypeOK
    <3>2. /\ pc[x] = "backoff" /\ pc'[x] = "attempt"
          /\ calls'[x] = [calls[x] EXCEPT ![c] = @ + 1]
          /\ UNCHANGED <<route, home, idx, tries, fate>>
      BY <1>11, <2>2, <3>1 DEF Backoff, TypeOK
    <3>3. /\ calls[x][c] = tries[x] /\ fate'[x][c] \notin FinalErrors
          /\ tries[x] \in 0..MaxRetries /\ MaxRetries \in Nat
      BY <1>0, <3>1, <3>2, CompletionAssumption DEF Progress, TypeOK
    <3>4. /\ calls'[x][c] = tries'[x] + 1 /\ calls'[x][c] <= MaxRetries + 1
          /\ \A p \in Names \ {c} :
                calls'[x][p] = calls[x][p] /\ fate'[x][p] = fate[x][p]
          /\ route'[x] = route[x] /\ home'[x] = home[x] /\ idx'[x] = idx[x]
      BY <3>2, <3>3 DEF TypeOK
    <3>5. QED
      BY <1>0, <3>1, <3>2, <3>3, <3>4, ProgressAtCandidate, Zenon
  <2>3. QED
    BY <2>1, <2>2
<1>12. ASSUME NEW d \in Configs, Restart(d)
       PROVE  Progress(x)'
  <2>1. CASE pc[x] \in Active
    BY <1>0, <1>12, <2>1, ProgressMove DEF Restart
  <2>2. CASE pc[x] \notin Active
    BY <1>0, <1>12, <2>2, ProgressFrame DEF Restart
  <2>3. QED
    BY <2>1, <2>2
<1>13. CASE UNCHANGED vars \/ \E k \in CacheKeys : Expire(k)
  BY <1>0, <1>13, ProgressFrame DEF vars, Expire
<1>14. QED
  BY <1>1, <1>2, <1>3, <1>4, <1>5, <1>7, <1>8, <1>9, <1>10, <1>11, <1>12, <1>13
     DEF Next, Serve, Idle

\* What the inductive invariant says about a request in any reachable state.
LEMMA ProgressImplies ==
    ASSUME TypeOK, ProgressInv
    PROVE  FallbackOnlyAfterExhaustion /\ CallBudget
<1>1. ASSUME NEW r \in Requests
      PROVE  \A i \in DOMAIN route[r] : i < idx[r] => Exhausted(r, route[r][i])
  BY DEF ProgressInv, Progress
<1>2. ASSUME NEW r \in Requests, pc[r] = "failed", route[r] # <<>>
      PROVE  /\ \A p \in Eligible(home[r]) : Exhausted(r, p)
             /\ fault[r] = fate[r][Candidate(r)]
  <2>1. /\ idx[r] = Len(route[r]) /\ Exhausted(r, Candidate(r))
        /\ fault[r] = fate[r][Candidate(r)]
    BY <1>2 DEF ProgressInv, Progress
  <2>2. \A p \in Eligible(home[r]) : \E i \in DOMAIN route[r] : route[r][i] = p
    BY <1>2, RoutedRequest DEF ProgressInv
  <2>3. \A i \in DOMAIN route[r] : i < idx[r] \/ i = idx[r]
    BY <2>1 DEF TypeOK
  <2>4. QED
    BY <1>1, <2>1, <2>2, <2>3 DEF Candidate
<1>3. ASSUME NEW r \in Requests, NEW p \in Names, calls[r][p] > 0
      PROVE  /\ calls[r][p] <= MaxRetries + 1
             /\ \E i \in DOMAIN route[r] : i <= idx[r] /\ route[r][i] = p
             /\ p \in home[r].available
             /\ p = "mock" <=> home[r].default = "mock"
  <2>1. calls[r][p] <= MaxRetries + 1
    BY DEF ProgressInv, Progress
  <2>2. PICK i \in DOMAIN route[r] : i <= idx[r] /\ route[r][i] = p
    BY <1>3 DEF ProgressInv, Progress, Untouched
  <2>3. route[r] # <<>>
    BY <2>2
  <2>4. p \in Eligible(home[r])
    BY <2>2, <2>3, RoutedRequest DEF ProgressInv
  <2>5. p \in home[r].available /\ (p = "mock" <=> home[r].default = "mock")
    BY <2>4 DEF Eligible, RoutingProviders
  <2>6. QED
    BY <2>1, <2>2, <2>5
<1>4. FallbackOnlyAfterExhaustion
  BY <1>1, <1>2 DEF FallbackOnlyAfterExhaustion
<1>5. CallBudget
  BY <1>3 DEF CallBudget
<1>6. QED
  BY <1>4, <1>5

LEMMA ProgressAlways == Spec => [](TypeOK /\ ProgressInv)
<1>1. Init => TypeOK /\ ProgressInv
  BY TypeInit, ProgressInit
<1>2. TypeOK /\ ProgressInv /\ [Next]_vars => (TypeOK /\ ProgressInv)'
  BY TypeNext, ProgressNext
<1>3. QED
  BY <1>1, <1>2, PTL DEF Spec

\* Whatever fails and however the requests interleave, a candidate is left behind,
\* and a failure reported, only when that candidate has refused for good or has
\* used up the retry budget; and the reported category is the last candidate's.
THEOREM CandidatesAreExhausted == Spec => []FallbackOnlyAfterExhaustion
BY ProgressAlways, ProgressImplies, PTL

\* No request calls a provider more than MaxRetries + 1 times, calls one it has not
\* reached, or crosses between mock and real providers.
THEOREM CallsStayInBudget == Spec => []CallBudget
BY ProgressAlways, ProgressImplies, PTL

\* A provider that rejected a request for good is not called for it again.
THEOREM FinalErrorsAreFinal == Spec => NeverCallAfterFinalError
<1>1. ASSUME TypeOK, ProgressInv, Next, NEW r \in Requests, NEW p \in Names,
             calls'[r][p] > calls[r][p]
      PROVE  fate'[r][p] \notin FinalErrors
  <2> USE DEF shared, fixed
  <2>1. Progress(r) /\ None \notin FinalErrors
    BY <1>1, CompletionAssumption DEF ProgressInv, Categories
  <2>2. ASSUME NEW x \in Requests, LookupMiss(x)
        PROVE  fate'[r][p] \notin FinalErrors
    <3>1. x = r /\ p = Candidate(r)
      BY <1>1, <2>2 DEF LookupMiss, TypeOK
    <3>2. QED
      BY <2>1, <2>2, <3>1 DEF LookupMiss, Progress, Untouched
  <2>3. ASSUME NEW x \in Requests, NEW e \in Errors, AttemptRetries(x, e)
        PROVE  fate'[r][p] \notin FinalErrors
    <3>1. CASE RetryDelay > 0
      BY <1>1, <2>3, <3>1 DEF AttemptRetries, TypeOK
    <3>2. CASE ~(RetryDelay > 0)
      <4>1. calls' = [calls EXCEPT ![x][Candidate(x)] = @ + 1]
        BY <2>3, <3>2 DEF AttemptRetries
      <4>2. x = r /\ p = Candidate(r)
        BY <1>1, <4>1 DEF TypeOK
      <4>3. fate'[r][p] = e
        BY <1>1, <2>3, <4>2 DEF AttemptRetries, Fails, TypeOK
      <4>4. e \notin FinalErrors
        BY <2>3 DEF AttemptRetries, MayRetry, Retryable, RetryableErrors, FinalErrors
      <4>5. QED
        BY <4>3, <4>4
    <3>3. QED
      BY <3>1, <3>2
  <2>4. ASSUME NEW x \in Requests, Backoff(x)
        PROVE  fate'[r][p] \notin FinalErrors
    <3>1. x = r /\ p = Candidate(r)
      BY <1>1, <2>4 DEF Backoff, TypeOK
    <3>2. QED
      BY <2>1, <2>4, <3>1 DEF Backoff, Progress
  <2>5. CASE UNCHANGED calls
    BY <1>1, <2>5 DEF TypeOK
  <2>6. QED
    BY <1>1, <2>2, <2>3, <2>4, <2>5
       DEF Next, Serve, Idle, vars, ArriveNoProvider, Arrive, LookupHit,
           AttemptSucceeds, AttemptFallsBack, AttemptExhausts, AttemptRaises, Store,
           Record, Return, Expire, Restart
<1>2. TypeOK /\ ProgressInv /\ [Next]_vars =>
         [\A r \in Requests, p \in Names :
             calls'[r][p] > calls[r][p] => fate'[r][p] \notin FinalErrors]_vars
  BY <1>1
<1>3. QED
  BY <1>2, ProgressAlways, PTL DEF NeverCallAfterFinalError, Spec

-----------------------------------------------------------------------------
(* The moving average *)

LEMMA AverageNext ==
    TypeOK /\ AverageWithinExperience /\ [Next]_vars => AverageWithinExperience'
<1> SUFFICES ASSUME TypeOK, AverageWithinExperience, [Next]_vars
             PROVE  AverageWithinExperience'
  OBVIOUS
<1> USE DEF shared, fixed
<1>1. ASSUME NEW r \in Requests, NEW l \in Latencies, AttemptSucceeds(r, l),
             NEW p \in Names
      PROVE  IF seen'[p] = {} THEN ewma'[p] = None
             ELSE /\ \E m \in seen'[p] : m <= ewma'[p]
                  /\ \E m \in seen'[p] : m >= ewma'[p]
  <2>1. PICK c \in Names :
            /\ ewma' = RecordLatency(ewma, c, l)
            /\ seen' = [seen EXCEPT ![c] = @ \cup {l}]
    BY <1>1, CandidateType DEF AttemptSucceeds, TypeOK
  <2>2. CASE p # c
    BY <2>1, <2>2 DEF RecordLatency, AverageWithinExperience, TypeOK
  <2>3. CASE p = c
    <3>1. l \in Nat /\ l \in seen'[p] /\ seen[p] \subseteq seen'[p]
          /\ seen'[p] # {} /\ None \notin Nat
      BY <2>1, <2>3, CompletionAssumption, RoutingAssumption DEF TypeOK
    <3>2. CASE ewma[p] = None
      <4>1. ewma'[p] = l
        BY <2>1, <2>3, <3>2 DEF RecordLatency, TypeOK
      <4>2. QED
        BY <3>1, <4>1
    <3>3. CASE ewma[p] # None
      <4>1. ewma[p] \in Nat /\ ewma'[p] = Blend(ewma[p], l)
        BY <2>1, <2>3, <3>3 DEF RecordLatency, TypeOK
      <4>2. PICK lo \in seen[p], hi \in seen[p] : lo <= ewma[p] /\ hi >= ewma[p]
        BY <3>3 DEF AverageWithinExperience
      <4>3. lo \in Nat /\ hi \in Nat
        BY <4>2 DEF TypeOK
      <4>4. PICK low \in seen'[p] : low \in Nat /\ low <= ewma[p] /\ low <= l
        <5>1. CASE lo <= l
          BY <3>1, <4>2, <4>3, <5>1
        <5>2. CASE ~(lo <= l)
          BY <3>1, <4>1, <4>2, <4>3, <5>2
        <5>3. QED
          BY <5>1, <5>2
      <4>5. PICK high \in seen'[p] : high \in Nat /\ ewma[p] <= high /\ l <= high
        <5>1. CASE hi >= l
          BY <3>1, <4>1, <4>2, <4>3, <5>1
        <5>2. CASE ~(hi >= l)
          BY <3>1, <4>1, <4>2, <4>3, <5>2
        <5>3. QED
          BY <5>1, <5>2
      <4>6. Blend(ewma[p], l) \in Nat /\ low <= Blend(ewma[p], l)
              /\ Blend(ewma[p], l) <= high
        BY <3>1, <4>1, <4>4, <4>5, BlendBetween
      <4>7. QED
        BY <3>1, <4>1, <4>4, <4>5, <4>6
    <3>4. QED
      BY <3>2, <3>3
  <2>4. QED
    BY <2>2, <2>3
<1>2. CASE \E r \in Requests, l \in Latencies : AttemptSucceeds(r, l)
  BY <1>1, <1>2 DEF AverageWithinExperience
<1>3. CASE \E d \in Configs : Restart(d)
  BY <1>3 DEF Restart, AverageWithinExperience
<1>4. CASE UNCHANGED <<ewma, seen>>
  BY <1>4 DEF AverageWithinExperience
<1>5. QED
  BY <1>2, <1>3, <1>4
     DEF Next, Serve, Idle, vars, ArriveNoProvider, Arrive, LookupHit, LookupMiss,
         AttemptRetries, AttemptFallsBack, AttemptExhausts, Fails, AttemptRaises,
         Backoff, Store, Record, Return, Expire

\* For every weight and every sequence of measured latencies the moving average of
\* a provider lies between its fastest and its slowest call since the start.
THEOREM AverageIsBounded == Spec => []AverageWithinExperience
<1>1. Init => AverageWithinExperience
  BY DEF Init, AverageWithinExperience
<1>2. QED
  BY <1>1, TypeInit, TypeNext, AverageNext, PTL DEF Spec

-----------------------------------------------------------------------------
(* The order of the candidates *)

LEMMA CostType ==
    ASSUME NEW d \in Deployments, NEW p \in Names, NEW q \in AllQueries
    PROVE  EstimatedCost(d, p, q) \in Nat
<1>1. /\ PromptTokens[q.prompt] \in Nat /\ q.max_tokens \in Nat
      /\ d.price_in[p] \in Nat /\ d.price_out[p] \in Nat
  BY RoutingAssumption DEF Deployments, AllQueries
<1>2. \A x, y \in Nat : x * y \in Nat
  BY SMT
<1>3. /\ PromptTokens[q.prompt] * d.price_in[p] \in Nat
      /\ q.max_tokens * d.price_out[p] \in Nat
  BY <1>1, <1>2
<1>4. QED
  BY <1>3 DEF EstimatedCost

\* Of two candidates the later one is not preferred.
Ranked(d, q, s) ==
    \A i, j \in DOMAIN s : i < j =>
        /\ q.strategy = "fixed" => s[j] # d.default
        /\ q.strategy = "cheapest" => EstimatedCost(d, s[i], q) <= EstimatedCost(d, s[j], q)

LEMMA RoutesAreRanked ==
    ASSUME NEW d \in Deployments, NEW q \in AllQueries, NEW w,
           NEW s \in SetToSeqs(Eligible(d)), IsRoute(s, d, w, q)
    PROVE  Ranked(d, q, s)
<1> SUFFICES ASSUME NEW i \in DOMAIN s, NEW j \in DOMAIN s, i < j
             PROVE  /\ q.strategy = "fixed" => s[j] # d.default
                    /\ q.strategy = "cheapest" =>
                          EstimatedCost(d, s[i], q) <= EstimatedCost(d, s[j], q)
  BY DEF Ranked
<1>1. /\ Precedes(SortKey(d, w, q, s[i]), SortKey(d, w, q, s[j]))
      /\ s[i] \in Names /\ s[j] \in Names /\ s[i] # s[j]
  <2>1. /\ \A x \in DOMAIN s : s[x] \in Eligible(d)
        /\ \A x, y \in DOMAIN s : x # y => s[x] # s[y]
        /\ s \in Seq(Names)
    BY RouteShape
  <2>2. i # j
    BY <2>1
  <2>3. QED
    BY <2>1, <2>2 DEF IsRoute
<1>2. CASE q.strategy = "fixed"
  <2>1. /\ SortKey(d, w, q, s[i]) = <<IF s[i] = d.default THEN 0 ELSE 1, Position[s[i]]>>
        /\ SortKey(d, w, q, s[j]) = <<IF s[j] = d.default THEN 0 ELSE 1, Position[s[j]]>>
    BY <1>2 DEF SortKey
  <2>2. s[j] = d.default => s[i] # d.default
    BY <1>1
  <2>3. s[j] # d.default
    BY <1>1, <2>1, <2>2 DEF Precedes
  <2>4. QED
    BY <1>2, <2>3
<1>3. CASE q.strategy = "cheapest"
  <2>1. /\ SortKey(d, w, q, s[i]) = <<EstimatedCost(d, s[i], q), IdentityRank[s[i]]>>
        /\ SortKey(d, w, q, s[j]) = <<EstimatedCost(d, s[j], q), IdentityRank[s[j]]>>
    BY <1>3 DEF SortKey
  <2>2. EstimatedCost(d, s[i], q) \in Nat /\ EstimatedCost(d, s[j], q) \in Nat
    BY <1>1, CostType
  <2>3. QED
    BY <1>1, <1>3, <2>1, <2>2 DEF Precedes
<1>4. CASE q.strategy \notin {"fixed", "cheapest"}
  BY <1>4
<1>5. QED
  BY <1>2, <1>3, <1>4

RankedInv ==
    \A r \in Requests :
        /\ route[r] # <<>> => Ranked(home[r], query[r], route[r])
        /\ answer[r] # None => route[r] # <<>>

LEMMA RankedNext ==
    ASSUME TypeOK, GenuineInv, ProgressInv, RankedInv, [Next]_vars
    PROVE  RankedInv'
<1> USE DEF shared, fixed
<1>1. ASSUME NEW r \in Requests, NEW q \in Queries,
             ArriveNoProvider(r, q) \/ Arrive(r, q)
      PROVE  RankedInv'
  <2>1. pc[r] = "new" /\ answer[r] = None /\ route[r] = <<>> /\ UNCHANGED answer
    BY <1>1 DEF ArriveNoProvider, Arrive, GenuineInv, Unanswered, Early, ProgressInv,
                Progress
  <2>2. \A x \in Requests \ {r} :
           route'[x] = route[x] /\ query'[x] = query[x] /\ home'[x] = home[x]
    BY <1>1 DEF ArriveNoProvider, Arrive, TypeOK
  <2>3. CASE ArriveNoProvider(r, q)
    BY <2>1, <2>2, <2>3 DEF ArriveNoProvider, RankedInv
  <2>4. CASE Arrive(r, q)
    <3>1. PICK s \in SetToSeqs(Eligible(deployment)) :
              IsRoute(s, deployment, ewma, q) /\ route' = [route EXCEPT ![r] = s]
      BY <2>4 DEF Arrive
    <3>2. Ranked(deployment, q, s)
      BY <3>1, RoutesAreRanked, CompletionAssumption DEF TypeOK
    <3>3. route'[r] = s /\ query'[r] = q /\ home'[r] = deployment
      BY <2>4, <3>1 DEF Arrive, TypeOK
    <3>4. QED
      BY <2>1, <2>2, <3>2, <3>3 DEF RankedInv
  <2>5. QED
    BY <1>1, <2>3, <2>4
<1>2. ASSUME NEW r \in Requests,
             LookupHit(r) \/ \E l \in Latencies : AttemptSucceeds(r, l)
      PROVE  RankedInv'
  <2>1. /\ route[r] # <<>> /\ UNCHANGED <<route, query, home>>
        /\ \A x \in Requests \ {r} : answer'[x] = answer[x]
    BY <1>2 DEF LookupHit, AttemptSucceeds, TypeOK
  <2>2. QED
    BY <2>1 DEF RankedInv
<1>3. CASE UNCHANGED <<route, query, home, answer>>
  BY <1>3 DEF RankedInv
<1>4. QED
  BY <1>1, <1>2, <1>3
     DEF Next, Serve, Idle, vars, LookupMiss, AttemptRetries, AttemptFallsBack,
         AttemptExhausts, Fails, AttemptRaises, Backoff, Store, Record, Return, Expire,
         Restart

\* Who answers is the preferred provider of those that were left.
LEMMA RankedPrefers ==
    ASSUME TypeOK, GenuineInv, ProgressInv, RankedInv
    PROVE  PreferredProviderAnswers
<1> SUFFICES ASSUME NEW r \in Requests, answer[r] # None, NEW p \in Eligible(home[r]),
                    \/ query[r].strategy = "fixed" /\ p = home[r].default
                    \/ /\ query[r].strategy = "cheapest"
                       /\ EstimatedCost(home[r], p, query[r])
                             < EstimatedCost(home[r], answer[r].provider, query[r])
             PROVE  p = answer[r].provider \/ Exhausted(r, p)
  BY DEF PreferredProviderAnswers
<1>1. /\ route[r] # <<>> /\ Ranked(home[r], query[r], route[r])
      /\ answer[r].provider = Candidate(r) /\ Progress(r)
  BY DEF RankedInv, GenuineInv, AnswerIsGenuine, ProgressInv
<1>2. /\ idx[r] \in DOMAIN route[r] /\ idx[r] \in Nat /\ Candidate(r) \in Names
      /\ home[r] \in Deployments /\ query[r] \in AllQueries
  BY <1>1, RoutedRequest, CandidateType, CompletionAssumption DEF TypeOK
<1>3. PICK i \in DOMAIN route[r] : route[r][i] = p
  BY <1>1, RoutedRequest
<1>4. CASE i < idx[r]
  BY <1>1, <1>3, <1>4 DEF Progress
<1>5. CASE i = idx[r]
  BY <1>1, <1>3, <1>5 DEF Candidate
<1>6. ~(idx[r] < i)
  <2> SUFFICES ASSUME idx[r] < i PROVE FALSE
    OBVIOUS
  <2>1. p \in Names
    BY <1>2, EligibleProviders
  <2>2. /\ EstimatedCost(home[r], p, query[r]) \in Nat
        /\ EstimatedCost(home[r], Candidate(r), query[r]) \in Nat
    BY <1>2, <2>1, CostType
  <2>3. /\ query[r].strategy = "fixed" => p # home[r].default
        /\ query[r].strategy = "cheapest" =>
              EstimatedCost(home[r], Candidate(r), query[r])
                <= EstimatedCost(home[r], p, query[r])
    BY <1>1, <1>2, <1>3 DEF Ranked, Candidate
  <2>4. QED
    BY <1>1, <2>2, <2>3
<1>7. i \in Nat
  BY <1>3 DEF TypeOK
<1>8. QED
  BY <1>2, <1>4, <1>5, <1>6, <1>7

\* For every list of prices and every estimate the answer comes from the configured
\* default or from the cheapest provider, unless whoever would have been preferred
\* has used up its chance.
THEOREM PreferenceIsKept == Spec => []PreferredProviderAnswers
<1>1. Init => TypeOK /\ GenuineInv /\ ProgressInv /\ RankedInv
  BY TypeInit, GenuineInit, ProgressInit DEF Init, RankedInv
<1>2. TypeOK /\ GenuineInv /\ ProgressInv /\ RankedInv /\ [Next]_vars
        => (TypeOK /\ GenuineInv /\ ProgressInv /\ RankedInv)'
  BY TypeNext, GenuineNext, ProgressNext, RankedNext
<1>3. QED
  BY <1>1, <1>2, RankedPrefers, PTL DEF Spec

\* A provider with a call since the start has an average.
Measured == \A p \in Names : seen[p] # {} => ewma[p] # None

LEMMA MeasuredNext == TypeOK /\ Measured /\ [Next]_vars => Measured'
<1> SUFFICES ASSUME TypeOK, Measured, [Next]_vars PROVE Measured'
  OBVIOUS
<1> USE DEF shared, fixed
<1>1. ASSUME NEW r \in Requests, NEW l \in Latencies, AttemptSucceeds(r, l)
      PROVE  Measured'
  <2>1. PICK c \in Names :
            /\ ewma' = RecordLatency(ewma, c, l)
            /\ seen' = [seen EXCEPT ![c] = @ \cup {l}]
    BY <1>1, CandidateType DEF AttemptSucceeds, TypeOK
  <2>2. ewma'[c] # None
    BY <2>1, RecordLatencyType, RoutingAssumption
  <2>3. \A p \in Names \ {c} : ewma'[p] = ewma[p] /\ seen'[p] = seen[p]
    BY <2>1 DEF RecordLatency, TypeOK
  <2>4. QED
    BY <2>2, <2>3 DEF Measured
<1>2. CASE \E d \in Configs : Restart(d)
  BY <1>2 DEF Restart, Measured
<1>3. CASE UNCHANGED <<ewma, seen>>
  BY <1>3 DEF Measured
<1>4. QED
  BY <1>1, <1>2, <1>3
     DEF Next, Serve, Idle, vars, ArriveNoProvider, Arrive, LookupHit, LookupMiss,
         AttemptRetries, AttemptFallsBack, AttemptExhausts, Fails, AttemptRaises,
         Backoff, Store, Record, Return, Expire

\* What is taken for a provider's latency lies within its experience.
LEMMA LatencyWithinExperience ==
    ASSUME TypeOK, AverageWithinExperience, Measured, NEW p \in Names
    PROVE  /\ LatencyOf(ewma, p) \in Nat /\ Experience(p) \subseteq Nat
           /\ \E l \in Experience(p) : l <= LatencyOf(ewma, p)
           /\ \E l \in Experience(p) : l >= LatencyOf(ewma, p)
<1>1. CASE seen[p] = {}
  <2>1. LatencyOf(ewma, p) = InitialLatency /\ Experience(p) = {InitialLatency}
    BY <1>1 DEF AverageWithinExperience, LatencyOf, Experience
  <2>2. QED
    BY <2>1, RoutingAssumption
<1>2. CASE seen[p] # {}
  <2>1. /\ \E l \in seen[p] : l <= ewma[p]
        /\ \E l \in seen[p] : l >= ewma[p]
        /\ seen[p] \subseteq Nat /\ Experience(p) = seen[p]
    BY <1>2 DEF AverageWithinExperience, TypeOK, Experience
  <2>2. LatencyOf(ewma, p) = ewma[p] /\ ewma[p] \in Nat
    BY <1>2 DEF Measured, LatencyOf, TypeOK
  <2>3. QED
    BY <2>1, <2>2
<1>3. QED
  BY <1>1, <1>2

LEMMA RankedBySpeed ==
    ASSUME TypeOK, AverageWithinExperience, Measured, [Next]_vars,
           NEW r \in Requests, pc[r] = "new", pc'[r] = "lookup",
           query'[r].strategy = "fastest",
           NEW i \in DOMAIN route'[r], NEW j \in DOMAIN route'[r], i < j
    PROVE  ~ \A a \in Experience(route'[r][i]), b \in Experience(route'[r][j]) : a > b
<1> USE DEF shared, fixed
<1>1. \E q \in Queries : Arrive(r, q)
  <2>1. ASSUME NEW x \in Requests, NEW q \in Queries, ArriveNoProvider(x, q)
        PROVE  FALSE
    BY <2>1 DEF ArriveNoProvider, TypeOK
  <2>2. ASSUME NEW x \in Requests, NEW q \in Queries, Arrive(x, q)
        PROVE  x = r
    BY <2>2 DEF Arrive, TypeOK
  <2>3. ASSUME NEW x \in Requests, Serve(x)
        PROVE  FALSE
    <3>1. pc[x] # "new" /\ \E v : pc' = [pc EXCEPT ![x] = v]
      <4>1. CASE \E e \in Errors : AttemptRetries(x, e)
        BY <4>1 DEF AttemptRetries, Fails, TypeOK
      <4>2. CASE ~ \E e \in Errors : AttemptRetries(x, e)
        BY <2>3, <4>2
           DEF Serve, LookupHit, LookupMiss, AttemptSucceeds, AttemptFallsBack,
               AttemptExhausts, Fails, AttemptRaises, Backoff, Store, Record, Return
      <4>3. QED
        BY <4>1, <4>2
    <3>2. x # r
      BY <3>1
    <3>3. QED
      BY <3>1, <3>2 DEF TypeOK
  <2>4. CASE (\E k \in CacheKeys : Expire(k)) \/ Idle \/ UNCHANGED vars
    BY <2>4 DEF Expire, Idle, vars
  <2>5. ASSUME NEW d \in Configs, Restart(d)
        PROVE  FALSE
    BY <2>5 DEF Restart, Active, TypeOK
  <2>6. QED
    BY <2>1, <2>2, <2>3, <2>4, <2>5 DEF Next
<1>2. PICK q \in Queries : Arrive(r, q)
  BY <1>1
<1>3. PICK s \in SetToSeqs(Eligible(deployment)) :
          IsRoute(s, deployment, ewma, q) /\ route' = [route EXCEPT ![r] = s]
  BY <1>2 DEF Arrive
<1>4. route'[r] = s /\ q.strategy = "fastest"
  BY <1>2, <1>3 DEF Arrive, TypeOK
<1>5. s[i] \in Names /\ s[j] \in Names
  BY <1>4, RouteShape, CompletionAssumption DEF TypeOK
<1>6. /\ SortKey(deployment, ewma, q, s[i]) = <<LatencyOf(ewma, s[i]), IdentityRank[s[i]]>>
      /\ SortKey(deployment, ewma, q, s[j]) = <<LatencyOf(ewma, s[j]), IdentityRank[s[j]]>>
  BY <1>4 DEF SortKey
<1>7. Precedes(SortKey(deployment, ewma, q, s[i]), SortKey(deployment, ewma, q, s[j]))
  BY <1>3, <1>4 DEF IsRoute
<1>8. LatencyOf(ewma, s[i]) \in Nat /\ LatencyOf(ewma, s[j]) \in Nat
  BY <1>5, LatencyWithinExperience
<1>9. LatencyOf(ewma, s[i]) <= LatencyOf(ewma, s[j])
  BY <1>6, <1>7, <1>8 DEF Precedes
<1>10. PICK a \in Experience(s[i]) : a \in Nat /\ a <= LatencyOf(ewma, s[i])
  BY <1>5, LatencyWithinExperience
<1>11. PICK b \in Experience(s[j]) : b \in Nat /\ b >= LatencyOf(ewma, s[j])
  BY <1>5, LatencyWithinExperience
<1>12. ~(a > b)
  BY <1>8, <1>9, <1>10, <1>11
<1>13. QED
  BY <1>4, <1>10, <1>11, <1>12

\* However the measurements of concurrent requests are blended, a request routed for
\* speed puts no provider before another whose every call since the start has been faster.
THEOREM SpeedIsRewarded == Spec => FastestFollowsExperience
<1>1. Init => Measured
  BY DEF Init, Measured
<1>2. TypeOK /\ AverageWithinExperience /\ Measured /\ [Next]_vars =>
         [\A r \in Requests : pc[r] = "new" /\ pc'[r] = "lookup" =>
             (query'[r].strategy = "fastest" =>
                \A i, j \in DOMAIN route'[r] : i < j =>
                   ~ \A a \in Experience(route'[r][i]), b \in Experience(route'[r][j]) :
                        a > b)]_vars
  BY RankedBySpeed
<1>3. QED
  BY <1>1, <1>2, MeasuredNext, TypeCorrect, AverageIsBounded, PTL
     DEF FastestFollowsExperience, Spec
=============================================================================
