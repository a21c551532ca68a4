--------------------------- MODULE AttemptsProofs ---------------------------
(***************************************************************************)
(* Theorems about Attempts: in real time the service still behaves as      *)
(* Completion says, so what is proved there carries over; the time a       *)
(* request spends on its candidates is bounded; and the classification of  *)
(* failures by the adapters is right.                                      *)
(***************************************************************************)
EXTENDS Attempts, CompletionProofs

-----------------------------------------------------------------------------
(* The timers *)

\* The length of a whole round of one attempt and the pause after it.
Round == LongestAttempt + RetryDelay

LEMMA LimitTypes ==
    /\ LongestAttempt \in Nat /\ Round \in Nat /\ CandidateTime \in Nat
    /\ Timeout <= LongestAttempt /\ MockLatency <= LongestAttempt
    /\ CandidateTime = MaxRetries * Round + LongestAttempt
<1>1. /\ LongestAttempt \in Nat
      /\ Timeout <= LongestAttempt /\ MockLatency <= LongestAttempt
  BY AttemptsAssumption DEF LongestAttempt, AtLeast
<1>2. MaxRetries \in Nat /\ RetryDelay \in Nat
  BY CompletionAssumption
<1>3. \A m, l, d \in Nat : (m + 1) * l + m * d = m * (l + d) + l
  OBVIOUS
<1>4. \A m, n \in Nat : m * n \in Nat
  OBVIOUS
<1>5. QED
  BY <1>1, <1>2, <1>3, <1>4 DEF Round, CandidateTime

\* What the timers of a request show: no attempt and no pause outlives its limit, and
\* the time spent so far is what the position of the request accounts for.
TimerOf(r) ==
    LET earlier == (idx[r] - 1) * CandidateTime IN
    /\ pc[r] = "new" => age[r] = 0
    /\ pc[r] = "lookup" => age[r] <= earlier
    /\ pc[r] = "attempt" => /\ wait[r] <= AttemptLimit(r)
                            /\ age[r] <= earlier + tries[r] * Round + wait[r]
    /\ pc[r] = "backoff" =>
          /\ wait[r] <= RetryDelay
          /\ tries[r] >= 1
          /\ age[r] <= earlier + (tries[r] - 1) * Round + LongestAttempt + wait[r]
    /\ age[r] <= Len(route[r]) * CandidateTime

TimerInv ==
    /\ wait \in [Requests -> Nat]
    /\ age \in [Requests -> Nat]
    /\ \A r \in Requests : TimerOf(r)
    /\ \A p \in Names : \A l \in seen[p] : l <= LongestAttempt

LEMMA LimitIsLongest ==
    \A r \in Requests : AttemptLimit(r) \in Nat /\ AttemptLimit(r) <= LongestAttempt
BY LimitTypes, AttemptsAssumption DEF AttemptLimit

\* Products grow with their first factor.
LEMMA ProductMonotone ==
    ASSUME NEW a \in Nat, NEW b \in Nat, NEW c \in Nat, a <= b
    PROVE  a * c <= b * c /\ a * c \in Nat
OBVIOUS

\* The time of i complete candidates, t rounds and a last attempt fits into that of
\* i + 1 candidates, and of n if there are that many.
LEMMA FitsCandidates ==
    ASSUME NEW i \in Nat \ {0}, NEW n \in Nat, i <= n,
           NEW t \in 0..MaxRetries
    PROVE  /\ (i - 1) * CandidateTime \in Nat /\ t * Round \in Nat
           /\ (i - 1) * CandidateTime + t * Round + LongestAttempt <= i * CandidateTime
           /\ i * CandidateTime <= n * CandidateTime
           /\ (t + 1) * Round = t * Round + Round
           /\ i * CandidateTime \in Nat /\ n * CandidateTime \in Nat
<1> DEFINE c == CandidateTime
<1>1. /\ c \in Nat /\ Round \in Nat /\ LongestAttempt \in Nat /\ MaxRetries \in Nat
      /\ c = MaxRetries * Round + LongestAttempt
  BY LimitTypes, CompletionAssumption
<1>2. t * Round <= MaxRetries * Round /\ t * Round \in Nat
  <2>1. t \in Nat /\ t <= MaxRetries
    BY <1>1
  <2>2. QED
    BY <1>1, <2>1, ProductMonotone
<1> HIDE DEF c
<1>3. (i - 1) * c + c = i * c /\ (i - 1) * c \in Nat /\ i * c \in Nat /\ n * c \in Nat
  BY <1>1
<1>4. i * c <= n * c
  <2>1. i \in Nat
    OBVIOUS
  <2>2. QED
    BY <1>1, <2>1, ProductMonotone
<1>5. (t + 1) * Round = t * Round + Round
  BY <1>1
<1>6. MaxRetries * Round \in Nat
  BY <1>1
<1>7. (i - 1) * c + t * Round + LongestAttempt <= i * c
  BY <1>1, <1>2, <1>3, <1>6
<1>8. QED
  BY <1>2, <1>3, <1>4, <1>5, <1>7 DEF c

\* Where a request that is at a candidate stands.
LEMMA AtCandidate ==
    ASSUME TypeOK, NEW r \in Requests, pc[r] \in {"lookup", "attempt", "backoff"}
    PROVE  /\ idx[r] \in Nat \ {0} /\ Len(route[r]) \in Nat /\ idx[r] <= Len(route[r])
           /\ tries[r] \in 0..MaxRetries
           /\ route[r] # <<>>
BY DEF TypeOK

\* What a request that is at a candidate can still spend there.
LEMMA RoomLeft ==
    ASSUME TypeOK, NEW r \in Requests, pc[r] \in {"lookup", "attempt", "backoff"}
    PROVE  LET e == (idx[r] - 1) * CandidateTime
               t == tries[r] * Round
               i == idx[r] * CandidateTime
               n == Len(route[r]) * CandidateTime
           IN /\ e \in Nat /\ t \in Nat /\ i \in Nat /\ n \in Nat
              /\ e + t + LongestAttempt <= i /\ i <= n
              /\ (tries[r] + 1) * Round = t + Round
              /\ tries[r] >= 1 => /\ (tries[r] - 1) * Round \in Nat
                                 /\ t = (tries[r] - 1) * Round + Round
<1>1. /\ idx[r] \in Nat \ {0} /\ Len(route[r]) \in Nat /\ idx[r] <= Len(route[r])
      /\ tries[r] \in 0..MaxRetries /\ MaxRetries \in Nat
  BY AtCandidate, CompletionAssumption
<1>2. /\ (idx[r] - 1) * CandidateTime \in Nat /\ tries[r] * Round \in Nat
      /\ (idx[r] - 1) * CandidateTime + tries[r] * Round + LongestAttempt
            <= idx[r] * CandidateTime
      /\ idx[r] * CandidateTime <= Len(route[r]) * CandidateTime
      /\ (tries[r] + 1) * Round = tries[r] * Round + Round
      /\ idx[r] * CandidateTime \in Nat /\ Len(route[r]) * CandidateTime \in Nat
  BY <1>1, FitsCandidates
<1>3. ASSUME tries[r] >= 1
      PROVE  /\ (tries[r] - 1) * Round \in Nat
             /\ tries[r] * Round = (tries[r] - 1) * Round + Round
  <2>1. tries[r] - 1 \in 0..MaxRetries /\ (tries[r] - 1) + 1 = tries[r]
    BY <1>1, <1>3
  <2>2. /\ (tries[r] - 1) * Round \in Nat
        /\ (tries[r] - 1 + 1) * Round = (tries[r] - 1) * Round + Round
    BY <1>1, <2>1, FitsCandidates
  <2>3. QED
    BY <2>1, <2>2
<1>4. QED
  BY <1>2, <1>3

LEMMA TimerInit == AttemptsInit => TypeOK /\ TimerInv
<1> SUFFICES ASSUME AttemptsInit PROVE TypeOK /\ TimerInv
  OBVIOUS
<1>1. TypeOK
  BY TypeInit DEF AttemptsInit
<1>2. \A r \in Requests : TimerOf(r)
  <2> TAKE r \in Requests
  <2>1. pc[r] = "new" /\ age[r] = 0 /\ route[r] = <<>>
    BY DEF AttemptsInit, Init
  <2>2. 0 <= 0 * CandidateTime
    BY LimitTypes
  <2>3. QED
    BY <2>1, <2>2 DEF TimerOf
<1>3. QED
  BY <1>1, <1>2 DEF AttemptsInit, Init, TimerInv

\* A request that a step leaves alone keeps its timers.
LEMMA TimerFrame ==
    ASSUME NEW x \in Requests, TimerOf(x),
           pc'[x] = pc[x], route'[x] = route[x], idx'[x] = idx[x],
           tries'[x] = tries[x], wait'[x] = wait[x], age'[x] = age[x]
    PROVE  TimerOf(x)'
BY DEF TimerOf, AttemptLimit, Candidate

\* So does one that is done with its candidates.
LEMMA TimerDone ==
    ASSUME NEW x \in Requests, TimerOf(x), route'[x] = route[x], age'[x] = age[x],
           pc'[x] \notin {"new", "lookup", "attempt", "backoff"}
    PROVE  TimerOf(x)'
BY DEF TimerOf

\* Time passes.
LEMMA TimerTick ==
    ASSUME TypeOK, TimerInv, Tick
    PROVE  TimerInv'
<1>1. \A r \in Requests : TimerOf(r)'
  <2> TAKE r \in Requests
  <2>1. /\ TimerOf(r) /\ wait[r] \in Nat /\ age[r] \in Nat
        /\ UNCHANGED <<pc, route, idx, tries>>
        /\ wait'[r] = IF Waiting(r) THEN wait[r] + 1 ELSE wait[r]
        /\ age'[r] = IF Waiting(r) THEN age[r] + 1 ELSE age[r]
        /\ ~Due(r)
    BY DEF Tick, TimerInv, vars
  <2>2. CASE ~Waiting(r)
    BY <2>1, <2>2, TimerFrame
  <2>3. CASE pc[r] = "attempt"
    <3>1. wait[r] + 1 <= AttemptLimit(r) /\ AttemptLimit(r) <= LongestAttempt
      BY <2>1, <2>3, LimitIsLongest DEF Due
    <3> DEFINE e == (idx[r] - 1) * CandidateTime
               t == tries[r] * Round
               n == Len(route[r]) * CandidateTime
    <3>4. \E i \in Nat : /\ e \in Nat /\ t \in Nat /\ n \in Nat
                         /\ e + t + LongestAttempt <= i /\ i <= n
      BY <2>3, RoomLeft
    <3>5. age[r] <= e + t + wait[r]
      BY <2>1, <2>3 DEF TimerOf
    <3>6. wait'[r] = wait[r] + 1 /\ age'[r] = age[r] + 1
      BY <2>1, <2>3 DEF Waiting
    <3>7. age'[r] <= e + t + wait'[r] /\ age'[r] <= n
      <4> HIDE DEF e, t, n
      <4>1. QED
        BY <2>1, <3>1, <3>4, <3>5, <3>6, LimitTypes, LimitIsLongest
    <3>8. AttemptLimit(r)' = AttemptLimit(r)
      BY <2>1 DEF AttemptLimit, Candidate
    <3>9. QED
      BY <2>1, <2>3, <3>1, <3>6, <3>7, <3>8 DEF TimerOf
  <2>4. CASE pc[r] = "backoff"
    <3>1. wait[r] + 1 <= RetryDelay
      BY <2>1, <2>4, CompletionAssumption DEF Due
    <3>3. tries[r] >= 1
      BY <2>1, <2>4 DEF TimerOf
    <3> DEFINE e == (idx[r] - 1) * CandidateTime
               t == (tries[r] - 1) * Round
               n == Len(route[r]) * CandidateTime
    <3>5. \E i \in Nat : /\ e \in Nat /\ t \in Nat /\ n \in Nat
                         /\ e + (t + Round) + LongestAttempt <= i /\ i <= n
      BY <2>4, <3>3, RoomLeft
    <3>6. age[r] <= e + t + LongestAttempt + wait[r]
      BY <2>1, <2>4 DEF TimerOf
    <3>7. wait'[r] = wait[r] + 1 /\ age'[r] = age[r] + 1
      BY <2>1, <2>4 DEF Waiting
    <3>8. /\ age'[r] <= e + t + LongestAttempt + wait'[r]
          /\ age'[r] <= n
      <4>1. Round = LongestAttempt + RetryDelay /\ RetryDelay \in Nat
        BY CompletionAssumption DEF Round
      <4> HIDE DEF e, t, n
      <4>2. QED
        BY <2>1, <3>1, <3>5, <3>6, <3>7, <4>1, LimitTypes
    <3>9. QED
      BY <2>1, <2>4, <3>1, <3>3, <3>7, <3>8 DEF TimerOf
  <2>5. QED
    BY <2>2, <2>3, <2>4 DEF Waiting
<1>2. /\ wait' \in [Requests -> Nat] /\ age' \in [Requests -> Nat]
  BY DEF Tick, TimerInv
<1>3. seen' = seen
  BY DEF Tick, vars
<1>4. QED
  BY <1>1, <1>2, <1>3 DEF TimerInv

\* An attempt fails and another one or a pause begins.
LEMMA TimerRetries ==
    ASSUME TypeOK, TimerInv, NEW r \in Requests, NEW e \in Errors,
           AttemptRetries(r, e), Restarted(r)
    PROVE  TimerOf(r)'
<1>1. /\ pc[r] = "attempt" /\ tries[r] < MaxRetries /\ tries[r] \in Nat
      /\ route' = route /\ idx' = idx /\ tries'[r] = tries[r] + 1
      /\ wait'[r] = 0 /\ age'[r] = age[r]
      /\ \/ RetryDelay > 0 /\ pc'[r] = "backoff"
         \/ ~(RetryDelay > 0) /\ pc'[r] = "attempt"
  BY CompletionAssumption
     DEF AttemptRetries, Fails, MayRetry, Restarted, TypeOK, fixed, TimerInv
<1>2. /\ wait[r] \in Nat /\ age[r] \in Nat
      /\ wait[r] <= LongestAttempt
      /\ age[r] <= (idx[r] - 1) * CandidateTime + tries[r] * Round + wait[r]
      /\ age[r] <= Len(route[r]) * CandidateTime
  BY <1>1, LimitIsLongest, LimitTypes DEF TimerInv, TimerOf
<1> DEFINE d == (idx[r] - 1) * CandidateTime
           t == tries[r] * Round
<1>3. d \in Nat /\ t \in Nat /\ (tries[r] + 1) * Round = t + Round
  BY <1>1, RoomLeft
<1>4. LongestAttempt \in Nat /\ Round = LongestAttempt + RetryDelay /\ RetryDelay \in Nat
  BY LimitTypes, CompletionAssumption DEF Round
<1>5. age[r] <= d + t + LongestAttempt /\ age[r] <= d + (t + Round)
  <2>1. age[r] <= d + t + wait[r]
    BY <1>2
  <2> HIDE DEF d, t
  <2>2. QED
    BY <1>2, <1>3, <1>4, <2>1
<1>6. AttemptLimit(r)' \in Nat
  BY <1>1, AttemptsAssumption DEF AttemptLimit, Candidate
<1>7. (idx'[r] - 1) * CandidateTime = d /\ tries'[r] * Round = t + Round
  BY <1>1, <1>3
<1>8. CASE pc'[r] = "attempt"
  <2>1. age'[r] <= (idx'[r] - 1) * CandidateTime + tries'[r] * Round + wait'[r]
    <3> HIDE DEF d, t
    <3>1. QED
      BY <1>1, <1>2, <1>3, <1>4, <1>5, <1>7
  <2>2. QED
    BY <1>1, <1>2, <1>6, <1>8, <2>1 DEF TimerOf
<1>9. CASE pc'[r] = "backoff"
  <2>1. tries'[r] - 1 = tries[r] /\ tries'[r] >= 1
    BY <1>1
  <2>2. age'[r] <= (idx'[r] - 1) * CandidateTime + (tries'[r] - 1) * Round
                     + LongestAttempt + wait'[r]
    <3>1. age[r] <= d + t + LongestAttempt + 0
      <4> HIDE DEF d, t
      <4>1. QED
        BY <1>2, <1>3, <1>4, <1>5
    <3>2. QED
      BY <1>1, <2>1, <3>1
  <2>3. QED
    BY <1>1, <1>2, <1>4, <1>9, <2>1, <2>2 DEF TimerOf
<1>10. QED
  BY <1>1, <1>8, <1>9

\* An attempt fails and the request moves on to its next candidate.
LEMMA TimerFallsBack ==
    ASSUME TypeOK, TimerInv, NEW r \in Requests, NEW e \in Errors,
           AttemptFallsBack(r, e), Restarted(r)
    PROVE  TimerOf(r)'
<1>1. /\ pc[r] = "attempt" /\ pc'[r] = "lookup" /\ route' = route
      /\ idx'[r] = idx[r] + 1 /\ age'[r] = age[r] /\ idx[r] \in Nat
  BY DEF AttemptFallsBack, Fails, Restarted, TypeOK, fixed
<1>2. /\ wait[r] \in Nat /\ age[r] \in Nat
      /\ wait[r] <= LongestAttempt
      /\ age[r] <= (idx[r] - 1) * CandidateTime + tries[r] * Round + wait[r]
      /\ age[r] <= Len(route[r]) * CandidateTime
  BY <1>1, LimitIsLongest, LimitTypes DEF TimerInv, TimerOf
<1> DEFINE d == (idx[r] - 1) * CandidateTime
           t == tries[r] * Round
           i == idx[r] * CandidateTime
<1>3. d \in Nat /\ t \in Nat /\ i \in Nat /\ d + t + LongestAttempt <= i
  BY <1>1, RoomLeft
<1>4. age[r] <= i
  <2>1. age[r] <= d + t + wait[r]
    BY <1>2
  <2> HIDE DEF d, t, i
  <2>2. QED
    BY <1>2, <1>3, <2>1, LimitTypes
<1>5. (idx'[r] - 1) * CandidateTime = i
  <2>1. idx'[r] - 1 = idx[r]
    BY <1>1
  <2>2. QED
    BY <2>1
<1>6. QED
  BY <1>1, <1>2, <1>4, <1>5 DEF TimerOf

\* A miss starts the first attempt.
LEMMA TimerBegins ==
    ASSUME TypeOK, TimerInv, NEW r \in Requests, Begin(r)
    PROVE  TimerOf(r)'
<1>1. /\ pc[r] = "lookup" /\ pc'[r] = "attempt" /\ route' = route /\ idx' = idx
      /\ tries'[r] = 0 /\ wait'[r] = 0 /\ age'[r] = age[r]
  BY DEF Begin, LookupMiss, Restarted, TypeOK, fixed, TimerInv
<1>2. /\ age[r] \in Nat /\ age[r] <= (idx[r] - 1) * CandidateTime
      /\ age[r] <= Len(route[r]) * CandidateTime
  BY <1>1 DEF TimerInv, TimerOf
<1>3. (idx[r] - 1) * CandidateTime \in Nat
  BY <1>1, RoomLeft
<1>4. 0 * Round = 0
  BY LimitTypes
<1>5. AttemptLimit(r)' \in Nat
  BY <1>1, AttemptsAssumption DEF AttemptLimit, Candidate
<1>6. age'[r] <= (idx'[r] - 1) * CandidateTime + tries'[r] * Round + wait'[r]
  BY <1>1, <1>2, <1>3, <1>4
<1>7. QED
  BY <1>1, <1>2, <1>5, <1>6 DEF TimerOf

\* A pause ends and the next attempt begins.
LEMMA TimerWakes ==
    ASSUME TypeOK, TimerInv, NEW r \in Requests, Wake(r)
    PROVE  TimerOf(r)'
<1>1. /\ pc[r] = "backoff" /\ pc'[r] = "attempt" /\ route' = route /\ idx' = idx
      /\ tries' = tries /\ wait'[r] = 0 /\ age'[r] = age[r]
  BY DEF Wake, Backoff, Restarted, TypeOK, fixed, TimerInv
<1>2. /\ age[r] \in Nat /\ wait[r] \in Nat /\ wait[r] <= RetryDelay /\ tries[r] >= 1
      /\ age[r] <= (idx[r] - 1) * CandidateTime + (tries[r] - 1) * Round
                     + LongestAttempt + wait[r]
      /\ age[r] <= Len(route[r]) * CandidateTime
  BY <1>1 DEF TimerInv, TimerOf
<1> DEFINE d == (idx[r] - 1) * CandidateTime
           t == (tries[r] - 1) * Round
<1>3. d \in Nat /\ t \in Nat /\ tries[r] * Round = t + Round
  BY <1>1, <1>2, RoomLeft
<1>4. LongestAttempt \in Nat /\ Round = LongestAttempt + RetryDelay /\ RetryDelay \in Nat
  BY LimitTypes, CompletionAssumption DEF Round
<1>5. AttemptLimit(r)' \in Nat
  BY <1>1, AttemptsAssumption DEF AttemptLimit, Candidate
<1>6. age[r] <= d + (t + Round) + 0
  <2>1. age[r] <= d + t + LongestAttempt + wait[r]
    BY <1>2
  <2> HIDE DEF d, t
  <2>2. QED
    BY <1>2, <1>3, <1>4, <2>1
<1>7. age'[r] <= (idx'[r] - 1) * CandidateTime + tries'[r] * Round + wait'[r]
  BY <1>1, <1>3, <1>6
<1>8. QED
  BY <1>1, <1>2, <1>5, <1>7 DEF TimerOf

-----------------------------------------------------------------------------
(* Every timed step is a step of the service *)

LEMMA StepsOfTheService ==
    ASSUME TypeOK, TimerInv, [AttemptsNext]_attemptVars
    PROVE  [Next]_vars
<1> USE DEF attemptVars
<1>1. CASE Tick \/ UNCHANGED attemptVars
  BY <1>1 DEF Tick
<1>2. ASSUME NEW r \in Requests, Surrounding(r) \/ Begin(r) \/ Wake(r)
      PROVE  Next
  BY <1>2 DEF Surrounding, Begin, Wake, Next, Serve
<1>3. ASSUME NEW r \in Requests, UpstreamAnswers(r) \/ MockAnswers(r)
      PROVE  Next
  <2>1. pc[r] = "attempt" /\ AttemptSucceeds(r, wait[r])
    BY <1>3 DEF UpstreamAnswers, MockAnswers, MeasuredLatency
  <2>2. wait[r] \in 0..LongestAttempt
    BY <2>1, LimitTypes, LimitIsLongest DEF TimerInv, TimerOf
  <2>3. wait[r] \in Latencies
    BY <2>2, AttemptsAssumption
  <2>4. QED
    BY <2>1, <2>3 DEF Next, Serve
<1>4. ASSUME NEW r \in Requests, NEW c \in Causes, FailsFor(r, c)
      PROVE  Next
  BY <1>4 DEF FailsFor, Next, Serve
<1>5. CASE Elsewhere
  BY <1>5 DEF Elsewhere, Next
<1>6. QED
  BY <1>1, <1>2, <1>3, <1>4, <1>5 DEF AttemptsNext, TimesOut, UpstreamFails

\* A failed attempt keeps the timers in order.
LEMMA TimerFails ==
    ASSUME TypeOK, TimerInv, NEW r \in Requests, NEW c \in Causes, FailsFor(r, c)
    PROVE  TimerInv'
<1>1. /\ Restarted(r) /\ pc[r] = "attempt"
      /\ wait' \in [Requests -> Nat] /\ age' \in [Requests -> Nat]
      /\ \A x \in Requests \ {r} : wait'[x] = wait[x]
      /\ age' = age
  BY DEF FailsFor, Restarted, TimerInv
<1>2. seen' = seen /\ route' = route
  BY DEF FailsFor, AttemptRetries, AttemptFallsBack, AttemptExhausts, AttemptRaises,
         Fails, fixed
<1>3. \A x \in Requests \ {r} : pc'[x] = pc[x] /\ idx'[x] = idx[x] /\ tries'[x] = tries[x]
  BY DEF FailsFor, AttemptRetries, AttemptFallsBack, AttemptExhausts, AttemptRaises,
         Fails, TypeOK
<1>4. \A x \in Requests \ {r} : TimerOf(x)'
  BY <1>1, <1>2, <1>3, TimerFrame DEF TimerInv
<1>5. TimerOf(r)'
  <2>1. ASSUME NEW e \in Errors, AttemptRetries(r, e)
        PROVE  TimerOf(r)'
    BY <1>1, <2>1, TimerRetries
  <2>2. ASSUME NEW e \in Errors, AttemptFallsBack(r, e)
        PROVE  TimerOf(r)'
    BY <1>1, <2>2, TimerFallsBack
  <2>3. CASE pc'[r] \in {"record", "error"}
    BY <1>1, <1>2, <2>3, TimerDone DEF TimerInv
  <2>4. (\E e \in Errors : AttemptExhausts(r, e)) \/ AttemptRaises(r)
           => pc'[r] \in {"record", "error"}
    BY DEF AttemptExhausts, AttemptRaises, TypeOK
  <2>5. QED
    BY <2>1, <2>2, <2>3, <2>4 DEF FailsFor
<1>6. QED
  BY <1>1, <1>2, <1>4, <1>5 DEF TimerInv

\* So does an answer, and its latency is within the limit.
LEMMA TimerAnswers ==
    ASSUME TypeOK, TimerInv, NEW r \in Requests, UpstreamAnswers(r) \/ MockAnswers(r)
    PROVE  TimerInv'
<1>1. /\ pc[r] = "attempt" /\ AttemptSucceeds(r, wait[r])
      /\ wait' = wait /\ age' = age
  BY DEF UpstreamAnswers, MockAnswers, MeasuredLatency, timers
<1>2. wait[r] <= LongestAttempt
  BY <1>1, LimitTypes, LimitIsLongest DEF TimerInv, TimerOf
<1>3. /\ route' = route /\ idx' = idx /\ tries' = tries /\ pc'[r] = "store"
      /\ \A x \in Requests \ {r} : pc'[x] = pc[x]
  BY <1>1 DEF AttemptSucceeds, fixed, TypeOK
<1>4. \A x \in Requests : TimerOf(x)'
  BY <1>1, <1>3, TimerFrame, TimerDone DEF TimerInv
<1>5. \A p \in Names : \A l \in seen'[p] : l <= LongestAttempt
  BY <1>1, <1>2 DEF AttemptSucceeds, TypeOK, TimerInv
<1>6. QED
  BY <1>1, <1>4, <1>5 DEF TimerInv

\* So do the steps around the attempts.
LEMMA TimerSurrounding ==
    ASSUME TypeOK, TypeOK', TimerInv, NEW r \in Requests, Surrounding(r)
    PROVE  TimerInv'
<1>1. wait' = wait /\ age' = age
  BY DEF Surrounding, timers
<1>2. CASE LookupHit(r) \/ Store(r) \/ Record(r) \/ Return(r)
  <2>1. /\ route' = route /\ idx' = idx /\ tries' = tries /\ seen' = seen
        /\ pc'[r] \in {"record", "recorded", "answered", "failed"}
        /\ \A x \in Requests \ {r} : pc'[x] = pc[x]
    BY <1>2 DEF LookupHit, Store, Record, Return, fixed, TypeOK
  <2>2. \A x \in Requests : TimerOf(x)'
    BY <1>1, <2>1, TimerFrame, TimerDone DEF TimerInv
  <2>3. QED
    BY <1>1, <2>1, <2>2 DEF TimerInv
<1>3. ASSUME NEW q \in Queries, ArriveNoProvider(r, q)
      PROVE  TimerInv'
  <2>1. /\ route' = route /\ idx' = idx /\ tries' = tries /\ seen' = seen
        /\ pc'[r] = "record"
        /\ \A x \in Requests \ {r} : pc'[x] = pc[x]
    BY <1>3 DEF ArriveNoProvider, TypeOK
  <2>2. \A x \in Requests : TimerOf(x)'
    BY <1>1, <2>1, TimerFrame, TimerDone DEF TimerInv
  <2>3. QED
    BY <1>1, <2>1, <2>2 DEF TimerInv
<1>4. ASSUME NEW q \in Queries, Arrive(r, q)
      PROVE  TimerInv'
  <2>1. /\ pc[r] = "new" /\ pc'[r] = "lookup" /\ idx'[r] = 1
        /\ tries' = tries /\ seen' = seen
        /\ \A x \in Requests \ {r} :
              pc'[x] = pc[x] /\ route'[x] = route[x] /\ idx'[x] = idx[x]
    BY <1>4 DEF Arrive, TypeOK
  <2>2. \A x \in Requests \ {r} : TimerOf(x)'
    BY <1>1, <2>1, TimerFrame DEF TimerInv
  <2>3. TimerOf(r)'
    <3>1. age'[r] = 0
      BY <1>1, <2>1 DEF TimerInv, TimerOf
    <3>2. 0 * CandidateTime = 0 /\ 1 - 1 = 0
      BY LimitTypes
    <3>3. Len(route'[r]) \in Nat
      BY DEF TypeOK
    <3>4. Len(route'[r]) * CandidateTime \in Nat
      BY <3>3, LimitTypes
    <3>5. QED
      BY <2>1, <3>1, <3>2, <3>4 DEF TimerOf
  <2>4. QED
    BY <1>1, <2>1, <2>2, <2>3 DEF TimerInv
<1>5. QED
  BY <1>2, <1>3, <1>4 DEF Surrounding

LEMMA TimerElsewhere ==
    ASSUME TypeOK, TimerInv, Elsewhere
    PROVE  TimerInv'
<1>1. /\ wait' = wait /\ age' = age /\ route' = route /\ idx' = idx /\ tries' = tries
  BY DEF Elsewhere, timers, Expire, Restart, Idle, fixed, vars
<1>2. \A x \in Requests : pc'[x] = pc[x] \/ pc'[x] = "lost"
  BY DEF Elsewhere, Expire, Restart, Idle, vars
<1>3. \A x \in Requests : TimerOf(x)'
  BY <1>1, <1>2, TimerFrame, TimerDone DEF TimerInv
<1>4. seen' = seen \/ seen' = [p \in Names |-> {}]
  BY DEF Elsewhere, Expire, Restart, Idle, vars
<1>5. QED
  BY <1>1, <1>3, <1>4 DEF TimerInv

LEMMA TimerNext ==
    ASSUME TypeOK, TypeOK', TimerInv, [AttemptsNext]_attemptVars
    PROVE  TimerInv'
<1>1. CASE UNCHANGED attemptVars
  BY <1>1 DEF attemptVars, timers, vars, TimerInv, TimerOf, AttemptLimit, Candidate
<1>2. ASSUME NEW r \in Requests, Begin(r) \/ Wake(r)
      PROVE  TimerInv'
  <2>1. /\ route' = route /\ idx' = idx /\ seen' = seen /\ age' = age
        /\ wait' = [wait EXCEPT ![r] = 0]
        /\ \A x \in Requests \ {r} : pc'[x] = pc[x] /\ tries'[x] = tries[x]
    <3>1. CASE Begin(r)
      BY <3>1 DEF Begin, LookupMiss, Restarted, fixed, TypeOK
    <3>2. CASE Wake(r)
      BY <3>2 DEF Wake, Backoff, Restarted, fixed, TypeOK
    <3>3. QED
      BY <1>2, <3>1, <3>2
  <2>2. \A x \in Requests \ {r} : TimerOf(x)'
    BY <2>1, TimerFrame DEF TimerInv
  <2>3. TimerOf(r)'
    BY <1>2, TimerBegins, TimerWakes
  <2>4. QED
    BY <2>1, <2>2, <2>3 DEF TimerInv
<1>3. QED
  BY <1>1, <1>2, TimerTick, TimerSurrounding, TimerAnswers, TimerFails, TimerElsewhere
     DEF AttemptsNext, TimesOut, UpstreamFails

LEMMA TimersAlways == AttemptsSpec => [](TypeOK /\ TimerInv) /\ Spec
<1>1. AttemptsInit => TypeOK /\ TimerInv /\ Init
  BY TimerInit DEF AttemptsInit
<1>2. TypeOK /\ TimerInv /\ [AttemptsNext]_attemptVars
         => (TypeOK /\ TimerInv)' /\ [Next]_vars
  BY StepsOfTheService, TypeNext, TimerNext
<1>3. QED
  BY <1>1, <1>2, PTL DEF AttemptsSpec, Spec

-----------------------------------------------------------------------------
(* The theorems *)

\* The service in real time is the service of Completion: every theorem about that one
\* holds of it.
THEOREM AttemptsImplementCompletion == AttemptsSpec => Spec
BY TimersAlways, PTL

\* However often the upstream stalls, fails or answers at the last moment, a request
\* spends no more time on its candidates than their attempts and pauses allow.
THEOREM TimeStaysBounded == AttemptsSpec => []TimeIsBounded
<1>1. TypeOK /\ TimerInv => TimeIsBounded
  BY DEF TimerInv, TimerOf, TimeIsBounded
<1>2. QED
  BY <1>1, TimersAlways, PTL

\* Since no sample exceeds the limit of an attempt and the average stays within its
\* samples, no average does.
THEOREM AverageStaysWithinTimeout == AttemptsSpec => []AverageWithinTimeout
<1>1. TypeOK /\ TimerInv /\ AverageWithinExperience => AverageWithinTimeout
  <2> SUFFICES ASSUME TypeOK, TimerInv, AverageWithinExperience,
                      NEW p \in Names, ewma[p] # None
               PROVE  ewma[p] <= LongestAttempt
    BY DEF AverageWithinTimeout
  <2>1. ewma[p] \in Nat /\ seen[p] \subseteq Nat
    BY DEF TypeOK
  <2>2. PICK l \in seen[p] : l >= ewma[p]
    BY DEF AverageWithinExperience
  <2>3. l <= LongestAttempt /\ l \in Nat
    BY <2>1 DEF TimerInv
  <2>4. QED
    BY <2>1, <2>2, <2>3, LimitTypes
<1>2. QED
  BY <1>1, TimersAlways, AverageIsBounded, PTL

-----------------------------------------------------------------------------
(* The classification of failures *)

\* Which exception is an instance of which class.
LEMMA MembersOfClasses ==
    ASSUME NEW c \in Causes
    PROVE  /\ c.code \in Nat
           /\ c.kind # "status" => c.code = 0
           /\ c.kind \in {"outer_timeout", "sdk_timeout", "unreachable", "garbled", "status"}
           /\ "TimeoutError" \in ClassesOf(c) <=> c.kind = "outer_timeout"
           /\ "APITimeoutError" \in ClassesOf(c) <=> c.kind = "sdk_timeout"
           /\ "APIConnectionError" \in ClassesOf(c) <=> c.kind \in {"sdk_timeout", "unreachable"}
           /\ "APIStatusError" \in ClassesOf(c) <=> c.kind = "status"
           /\ "InternalServerError" \in ClassesOf(c) <=> c.code >= 500
           /\ "RateLimitError" \in ClassesOf(c) <=> c.code = 429
           /\ "BadRequestError" \in ClassesOf(c) <=> c.code = 400
           /\ "AuthenticationError" \in ClassesOf(c) <=> c.code = 401
           /\ "PermissionDeniedError" \in ClassesOf(c) <=> c.code = 403
           /\ "UnprocessableEntityError" \in ClassesOf(c) <=> c.code = 422
<1>1. /\ c.code \in Nat
      /\ c.kind # "status" => c.code = 0
      /\ c.kind \in {"outer_timeout", "sdk_timeout", "unreachable", "garbled", "status"}
  <2>1. CASE c \in [kind : {"outer_timeout", "sdk_timeout", "unreachable", "garbled"},
                    code : {0}]
    BY <2>1
  <2>2. CASE c \in [kind : {"status"}, code : Statuses]
    BY <2>2, AttemptsAssumption
  <2>3. QED
    BY <2>1, <2>2 DEF Causes
<1> DEFINE byCode == {x \in DOMAIN CodeOf : CodeOf[x] = c.code}
           byServer == IF c.code >= 500 THEN {"InternalServerError"} ELSE {}
<1>2. \A x : x \in byCode <=>
         \/ c.code = 400 /\ x = "BadRequestError"
         \/ c.code = 401 /\ x = "AuthenticationError"
         \/ c.code = 403 /\ x = "PermissionDeniedError"
         \/ c.code = 422 /\ x = "UnprocessableEntityError"
         \/ c.code = 429 /\ x = "RateLimitError"
  BY <1>1 DEF CodeOf
<1>3. \A x : x \in byServer <=> c.code >= 500 /\ x = "InternalServerError"
  OBVIOUS
<1>4. \A x : x \in KindClasses[c.kind] <=>
         \/ c.kind = "outer_timeout" /\ x = "TimeoutError"
         \/ c.kind = "sdk_timeout" /\ x = "APITimeoutError"
         \/ c.kind \in {"sdk_timeout", "unreachable"} /\ x = "APIConnectionError"
         \/ c.kind = "status" /\ x = "APIStatusError"
  BY <1>1 DEF KindClasses
<1>5. \A x : x \in ClassesOf(c) <=> x \in KindClasses[c.kind] \/ x \in byCode \/ x \in byServer
  BY DEF ClassesOf
<1> HIDE DEF byCode, byServer
<1>6. QED
  BY <1>1, <1>2, <1>3, <1>4, <1>5

\* The clauses, one by one: what they catch and what they raise.
Is(p, i, classes, category) ==
    Clauses[p][i].classes = classes /\ Clauses[p][i].category = category

LEMMA ClausesOfAdapters ==
    /\ DOMAIN Clauses["openai"] = 1..6
    /\ Is("openai", 1, {"TimeoutError", "APITimeoutError"}, "ProviderTimeoutError")
    /\ Is("openai", 2, {"RateLimitError"}, "ProviderRateLimitError")
    /\ Is("openai", 3, {"AuthenticationError", "PermissionDeniedError"},
          "ProviderAuthenticationError")
    /\ Is("openai", 4, {"BadRequestError"}, "ProviderRequestError")
    /\ Is("openai", 5, {"InternalServerError", "APIConnectionError"},
          "ProviderUnavailableError")
    /\ Is("openai", 6, {"APIStatusError"}, "by status")
    /\ DOMAIN Clauses["gemini"] = 1..7
    /\ Is("gemini", 1, {"APITimeoutError"}, "ProviderTimeoutError")
    /\ Is("gemini", 2, {"TimeoutError"}, "ProviderTimeoutError")
    /\ Is("gemini", 3, {"RateLimitError"}, "ProviderRateLimitError")
    /\ Is("gemini", 4, {"AuthenticationError", "PermissionDeniedError"},
          "ProviderAuthenticationError")
    /\ Is("gemini", 5, {"BadRequestError", "UnprocessableEntityError"},
          "ProviderRequestError")
    /\ Is("gemini", 6, {"InternalServerError", "APIConnectionError"},
          "ProviderUnavailableError")
    /\ Is("gemini", 7, {"APIStatusError"}, "by status")
<1>1. LET O == Clauses["openai"]  G == Clauses["gemini"] IN
      /\ DOMAIN O = 1..6 /\ DOMAIN G = 1..7
      /\ O[1] = Clause({"TimeoutError", "APITimeoutError"}, "ProviderTimeoutError")
      /\ O[2] = Clause({"RateLimitError"}, "ProviderRateLimitError")
      /\ O[3] = Clause({"AuthenticationError", "PermissionDeniedError"},
                       "ProviderAuthenticationError")
      /\ O[4] = Clause({"BadRequestError"}, "ProviderRequestError")
      /\ O[5] = Clause({"InternalServerError", "APIConnectionError"},
                       "ProviderUnavailableError")
      /\ O[6] = Clause({"APIStatusError"}, "by status")
      /\ G[1] = Clause({"APITimeoutError"}, "ProviderTimeoutError")
      /\ G[2] = Clause({"TimeoutError"}, "ProviderTimeoutError")
      /\ G[3] = Clause({"RateLimitError"}, "ProviderRateLimitError")
      /\ G[4] = Clause({"AuthenticationError", "PermissionDeniedError"},
                       "ProviderAuthenticationError")
      /\ G[5] = Clause({"BadRequestError", "UnprocessableEntityError"},
                       "ProviderRequestError")
      /\ G[6] = Clause({"InternalServerError", "APIConnectionError"},
                       "ProviderUnavailableError")
      /\ G[7] = Clause({"APIStatusError"}, "by status")
  BY DEF Clauses
<1>2. \A p, i, k, d : Clauses[p][i] = Clause(k, d) => Is(p, i, k, d)
  BY DEF Is, Clause
<1>3. QED
  BY <1>1, <1>2

\* What an adapter raises for a failure is retryable exactly if the failure may pass,
\* although the classes its clauses catch overlap.
LEMMA ClassifiedRight ==
    ASSUME NEW p \in {"openai", "gemini"}, NEW c \in Causes, NEW e, Raises(p, c, e)
    PROVE  Retryable(e) <=> Transient(c)
<1>1. PICK i \in DOMAIN Clauses[p] :
         /\ Catches(p, i, c)
         /\ e = IF Clauses[p][i].category = "by status" THEN ByStatus(c)
                ELSE Clauses[p][i].category
  BY DEF Raises
<1>2. PICK x \in ClassesOf(c) : x \in Clauses[p][i].classes
  BY <1>1 DEF Catches
<1>3. \A j \in 1..(i - 1) : \A y \in Clauses[p][j].classes : y \notin ClassesOf(c)
  BY <1>1 DEF Catches
<1> USE DEF Is
<1>4. ASSUME Clauses[p][i].classes \subseteq {"TimeoutError", "APITimeoutError"},
             Clauses[p][i].category = "ProviderTimeoutError"
      PROVE  Retryable(e) <=> Transient(c)
  <2>1. x \in {"TimeoutError", "APITimeoutError"}
    BY <1>2, <1>4
  <2>2. c.kind \in {"outer_timeout", "sdk_timeout"}
    BY <1>2, <2>1, MembersOfClasses
  <2>3. e = "ProviderTimeoutError"
    BY <1>1, <1>4
  <2>4. QED
    BY <2>2, <2>3 DEF Retryable, RetryableErrors, Transient
<1>5. ASSUME Is(p, i, {"RateLimitError"}, "ProviderRateLimitError")
      PROVE  Retryable(e) <=> Transient(c)
  <2>1. c.code = 429 /\ c.kind = "status"
    BY <1>2, <1>5, MembersOfClasses
  <2>2. e = "ProviderRateLimitError"
    BY <1>1, <1>5
  <2>3. QED
    BY <2>1, <2>2 DEF Retryable, RetryableErrors, Transient
<1>6. ASSUME Clauses[p][i].classes
                \subseteq {"AuthenticationError", "PermissionDeniedError",
                           "BadRequestError", "UnprocessableEntityError"},
             Clauses[p][i].category
                \in {"ProviderAuthenticationError", "ProviderRequestError"}
      PROVE  Retryable(e) <=> Transient(c)
  <2>1. x \in {"AuthenticationError", "PermissionDeniedError",
               "BadRequestError", "UnprocessableEntityError"}
    BY <1>2, <1>6
  <2>2. c.code \in {400, 401, 403, 422} /\ c.kind = "status"
    BY <1>2, <2>1, MembersOfClasses
  <2>3. e \in {"ProviderAuthenticationError", "ProviderRequestError"}
    BY <1>1, <1>6
  <2>4. QED
    BY <1>6, <2>2, <2>3 DEF Retryable, RetryableErrors, Transient
<1>7. ASSUME Is(p, i, {"InternalServerError", "APIConnectionError"},
               "ProviderUnavailableError")
      PROVE  Retryable(e) <=> Transient(c)
  <2>1. \/ c.kind \in {"sdk_timeout", "unreachable"}
        \/ c.kind = "status" /\ c.code >= 500
    <3>1. x = "InternalServerError" \/ x = "APIConnectionError"
      BY <1>2, <1>7
    <3>2. QED
      BY <1>2, <3>1, MembersOfClasses
  <2>2. e = "ProviderUnavailableError"
    BY <1>1, <1>7
  <2>3. QED
    BY <2>1, <2>2 DEF Retryable, RetryableErrors, Transient
<1>8. ASSUME Is(p, i, {"APIStatusError"}, "by status"),
             NEW j \in 1..(i - 1), Is(p, j, {"RateLimitError"}, "ProviderRateLimitError")
      PROVE  Retryable(e) <=> Transient(c)
  <2>1. c.kind = "status" /\ c.code \in Nat
    <3>1. x = "APIStatusError"
      BY <1>2, <1>8
    <3>2. QED
      BY <1>2, <3>1, MembersOfClasses
  <2>2. e = ByStatus(c)
    BY <1>1, <1>8
  <2>3. c.code # 429
    <3>1. "RateLimitError" \notin ClassesOf(c)
      BY <1>3, <1>8
    <3>2. QED
      BY <3>1, MembersOfClasses
  <2>4. QED
    BY <2>1, <2>2, <2>3 DEF ByStatus, Retryable, RetryableErrors, Transient
<1>9. CASE p = "openai"
  <2>1. i \in 1..6
    BY <1>9, ClausesOfAdapters
  <2>2. CASE i = 6
    <3>1. 2 \in 1..(i - 1)
      BY <2>2
    <3>2. QED
      BY <1>8, <1>9, <2>2, <3>1, ClausesOfAdapters
  <2>3. CASE i = 1
    BY <1>4, <1>9, <2>3, ClausesOfAdapters
  <2>4. CASE i = 2
    BY <1>5, <1>9, <2>4, ClausesOfAdapters
  <2>5. CASE i = 3
    BY <1>6, <1>9, <2>5, ClausesOfAdapters
  <2>6. CASE i = 4
    BY <1>6, <1>9, <2>6, ClausesOfAdapters
  <2>7. CASE i = 5
    BY <1>7, <1>9, <2>7, ClausesOfAdapters
  <2>8. QED
    BY <2>1, <2>2, <2>3, <2>4, <2>5, <2>6, <2>7
<1>10. CASE p = "gemini"
  <2>1. i \in 1..7
    BY <1>10, ClausesOfAdapters
  <2>2. CASE i = 7
    <3>1. 3 \in 1..(i - 1)
      BY <2>2
    <3>2. QED
      BY <1>8, <1>10, <2>2, <3>1, ClausesOfAdapters
  <2>3. CASE i = 1
    BY <1>4, <1>10, <2>3, ClausesOfAdapters
  <2>4. CASE i = 2
    BY <1>4, <1>10, <2>4, ClausesOfAdapters
  <2>5. CASE i = 3
    BY <1>5, <1>10, <2>5, ClausesOfAdapters
  <2>6. CASE i = 4
    BY <1>6, <1>10, <2>6, ClausesOfAdapters
  <2>7. CASE i = 5
    BY <1>6, <1>10, <2>7, ClausesOfAdapters
  <2>8. CASE i = 6
    BY <1>7, <1>10, <2>8, ClausesOfAdapters
  <2>9. QED
    BY <2>1, <2>2, <2>3, <2>4, <2>5, <2>6, <2>7, <2>8
<1>11. QED
  BY <1>9, <1>10

-----------------------------------------------------------------------------
(* The retries *)

CauseTyped == cause \in [Requests -> Causes \cup {None}]

LEMMA CauseAlways == AttemptsSpec => []CauseTyped
<1>1. AttemptsInit => CauseTyped
  BY DEF AttemptsInit, CauseTyped
<1>2. ASSUME CauseTyped, [AttemptsNext]_attemptVars
      PROVE  CauseTyped'
  <2>1. ASSUME NEW r \in Requests, NEW c \in Causes, FailsFor(r, c)
        PROVE  CauseTyped'
    BY <1>2, <2>1 DEF FailsFor, CauseTyped
  <2>2. CASE UNCHANGED cause
    BY <1>2, <2>2 DEF CauseTyped
  <2>3. QED
    BY <1>2, <2>1, <2>2
       DEF AttemptsNext, attemptVars, timers, Tick, Surrounding, Begin, Wake,
           UpstreamAnswers, MockAnswers, TimesOut, UpstreamFails, Elsewhere
<1>3. QED
  BY <1>1, <1>2, PTL DEF AttemptsSpec

\* What TransientFailuresAreRetried asks of a step for request r.
RetriedRightly(r) ==
    /\ tries'[r] > tries[r] => Transient(cause'[r])
    /\ idx'[r] > idx[r] \/ (pc[r] = "attempt" /\ pc'[r] = "record")
          => tries[r] = MaxRetries \/ ~Transient(cause'[r])

\* A step neither repeats an attempt of r nor gives its candidate up.
NothingTried(r) ==
    /\ tries'[r] <= tries[r] /\ idx'[r] <= idx[r]
    /\ ~(pc[r] = "attempt" /\ pc'[r] = "record")

LEMMA NothingTriedIsRight ==
    ASSUME TypeOK, NEW r \in Requests, NothingTried(r),
           tries'[r] \in Nat, idx'[r] \in Nat
    PROVE  RetriedRightly(r)
<1>1. tries[r] \in Nat /\ idx[r] \in Nat
  BY CompletionAssumption DEF TypeOK
<1>2. QED
  BY <1>1 DEF NothingTried, RetriedRightly

\* A failed attempt is answered as its cause asks for.
LEMMA FailuresRetriedRightly ==
    ASSUME TypeOK, TypeOK', CauseTyped, NEW r \in Requests, NEW x \in Requests,
           NEW c \in Causes, FailsFor(r, c)
    PROVE  RetriedRightly(x)
<1>1. /\ pc[r] = "attempt" /\ Candidate(r) \in {"openai", "gemini"}
      /\ tries[x] \in 0..MaxRetries /\ idx[x] \in Nat /\ MaxRetries \in Nat
      /\ tries'[x] \in Nat /\ idx'[x] \in Nat
  <2>1. pc[r] = "attempt" /\ Candidate(r) # "mock"
    BY DEF FailsFor
  <2>2. Candidate(r) \in Names
    BY <2>1, CandidateType DEF TypeOK
  <2>3. QED
    BY <2>1, <2>2, CompletionAssumption DEF Names, TypeOK
<1>2. cause'[r] = c
  BY DEF FailsFor, CauseTyped
<1>3. CASE x # r
  <2>1. /\ \E y : pc' = [pc EXCEPT ![r] = y] \/ pc' = pc
        /\ \E y : tries' = [tries EXCEPT ![r] = y] \/ tries' = tries
        /\ \E y : idx' = [idx EXCEPT ![r] = y] \/ idx' = idx
    BY DEF FailsFor, AttemptRetries, AttemptFallsBack, AttemptExhausts, AttemptRaises
  <2>2. pc'[x] = pc[x] /\ tries'[x] = tries[x] /\ idx'[x] = idx[x]
    BY <1>3, <2>1 DEF TypeOK
  <2>3. NothingTried(x)
    BY <1>1, <2>2 DEF NothingTried
  <2>4. QED
    BY <1>1, <2>3, NothingTriedIsRight
<1>4. ASSUME x = r, NEW e \in Errors, Raises(Candidate(r), c, e), AttemptRetries(r, e)
      PROVE  RetriedRightly(x)
  <2>1. Retryable(e) /\ idx' = idx /\ pc'[r] # "record"
    BY <1>1, <1>4 DEF AttemptRetries, Fails, MayRetry, TypeOK
  <2>2. Transient(c)
    BY <1>1, <1>4, <2>1, ClassifiedRight
  <2>3. QED
    BY <1>1, <1>2, <1>4, <2>1, <2>2 DEF RetriedRightly
<1>5. ASSUME x = r, NEW e \in Errors, Raises(Candidate(r), c, e),
             AttemptFallsBack(r, e) \/ AttemptExhausts(r, e)
      PROVE  RetriedRightly(x)
  <2>1. ~MayRetry(r, e) /\ tries' = tries
    BY <1>5 DEF AttemptFallsBack, AttemptExhausts
  <2>2. tries[r] = MaxRetries \/ ~Transient(c)
    BY <1>1, <1>5, <2>1, ClassifiedRight DEF MayRetry
  <2>3. QED
    BY <1>1, <1>2, <1>5, <2>1, <2>2 DEF RetriedRightly
<1>6. CASE x = r /\ AttemptRaises(r)
  <2>1. pc'[r] = "error" /\ tries' = tries /\ idx' = idx
    BY <1>6 DEF AttemptRaises, TypeOK
  <2>2. NothingTried(x)
    BY <1>1, <1>6, <2>1 DEF NothingTried
  <2>3. QED
    BY <1>1, <2>2, NothingTriedIsRight
<1>7. QED
  BY <1>3, <1>4, <1>5, <1>6 DEF FailsFor

\* The other steps try nothing.
LEMMA OthersTryNothing ==
    ASSUME TypeOK, NEW x \in Requests, NEW r \in Requests,
           Surrounding(r) \/ Begin(r) \/ Wake(r) \/ UpstreamAnswers(r) \/ MockAnswers(r)
    PROVE  NothingTried(x)
<1>1. tries[x] \in Nat /\ idx[x] \in Nat \ {0}
  BY CompletionAssumption DEF TypeOK
<1>2. CASE LookupHit(r) \/ Store(r) \/ Record(r) \/ Return(r) \/ Backoff(r)
             \/ \E l \in Nat : AttemptSucceeds(r, l)
  <2>1. tries' = tries /\ idx' = idx /\ (pc'[x] = "record" => pc[x] # "attempt")
    BY <1>2 DEF LookupHit, Store, Record, Return, Backoff, AttemptSucceeds, TypeOK
  <2>2. QED
    BY <1>1, <2>1 DEF NothingTried
<1>3. CASE LookupMiss(r)
  <2>1. /\ tries' = [tries EXCEPT ![r] = 0] /\ idx' = idx
        /\ pc' = [pc EXCEPT ![r] = "attempt"]
    BY <1>3 DEF LookupMiss
  <2>2. (tries'[x] = 0 \/ tries'[x] = tries[x]) /\ (pc'[x] = "record" => pc[x] # "attempt")
    BY <2>1 DEF TypeOK
  <2>3. QED
    BY <1>1, <2>1, <2>2 DEF NothingTried
<1>4. CASE \E q \in Queries : ArriveNoProvider(r, q) \/ Arrive(r, q)
  <2>1. /\ tries' = tries /\ pc[r] = "new"
        /\ \E s \in {"record", "lookup"} : pc' = [pc EXCEPT ![r] = s]
        /\ idx' = [idx EXCEPT ![r] = 1] \/ idx' = idx
    BY <1>4 DEF ArriveNoProvider, Arrive
  <2>2. (idx'[x] = 1 \/ idx'[x] = idx[x]) /\ (pc'[x] = "record" => pc[x] # "attempt")
    BY <2>1 DEF TypeOK
  <2>3. QED
    BY <1>1, <2>1, <2>2 DEF NothingTried
<1>5. ASSUME UpstreamAnswers(r) \/ MockAnswers(r), wait[r] \notin Nat
      PROVE  NothingTried(x)
  <2>1. tries' = tries /\ idx' = idx /\ (pc'[x] = "record" => pc[x] # "attempt")
    BY <1>5 DEF UpstreamAnswers, MockAnswers, AttemptSucceeds, TypeOK
  <2>2. QED
    BY <1>1, <2>1 DEF NothingTried
<1>6. QED
  BY <1>2, <1>3, <1>4, <1>5
     DEF Surrounding, Begin, Wake, UpstreamAnswers, MockAnswers, MeasuredLatency

\* Transient failures, and only they, are retried until the budget is spent.
THEOREM TransientFailuresRetried == AttemptsSpec => TransientFailuresAreRetried
<1>1. ASSUME TypeOK, TypeOK', CauseTyped, [AttemptsNext]_attemptVars, NEW x \in Requests
      PROVE  RetriedRightly(x)
  <2>1. /\ tries[x] \in Nat /\ tries'[x] \in Nat /\ idx[x] \in Nat /\ idx'[x] \in Nat
    BY <1>1, CompletionAssumption DEF TypeOK
  <2>2. CASE Tick \/ UNCHANGED attemptVars \/ Elsewhere
    <3>1. tries' = tries /\ idx' = idx /\ (pc'[x] = "record" => pc[x] # "attempt")
      BY <1>1, <2>2
         DEF Tick, attemptVars, vars, Elsewhere, Expire, Restart, Idle, TypeOK
    <3>2. QED
      BY <1>1, <2>1, <3>1, NothingTriedIsRight DEF NothingTried
  <2>3. ASSUME NEW r \in Requests,
               Surrounding(r) \/ Begin(r) \/ Wake(r) \/ UpstreamAnswers(r) \/ MockAnswers(r)
        PROVE  RetriedRightly(x)
    BY <1>1, <2>1, <2>3, OthersTryNothing, NothingTriedIsRight
  <2>4. ASSUME NEW r \in Requests, TimesOut(r) \/ UpstreamFails(r)
        PROVE  RetriedRightly(x)
    BY <1>1, <2>4, FailuresRetriedRightly DEF TimesOut, UpstreamFails
  <2>5. QED
    BY <1>1, <2>2, <2>3, <2>4 DEF AttemptsNext
<1>2. ASSUME TypeOK, TypeOK', CauseTyped, [AttemptsNext]_attemptVars
      PROVE  \A r \in Requests : RetriedRightly(r)
  BY <1>1, <1>2
<1>3. (\A r \in Requests : RetriedRightly(r)) =>
        \A r \in Requests :
          LET repeated == tries'[r] > tries[r]
              givenUp == idx'[r] > idx[r] \/ (pc[r] = "attempt" /\ pc'[r] = "record")
          IN /\ repeated => Transient(cause'[r])
             /\ givenUp => tries[r] = MaxRetries \/ ~Transient(cause'[r])
  BY DEF RetriedRightly
<1>4. QED
  BY <1>2, <1>3, TimersAlways, CauseAlways, PTL
     DEF AttemptsSpec, TransientFailuresAreRetried
=============================================================================
