-------------------------- MODULE RateLimiterProofs --------------------------
(***************************************************************************)
(* Theorems about RateLimiter for every number of clients, requests and    *)
(* resent calls, every capacity and refill rate, and every movement of the *)
(* clock. MaxTravel only bounds the instances TLC checks; no proof uses    *)
(* its value.                                                              *)
(***************************************************************************)
EXTENDS RateLimiter, TLAPS

-----------------------------------------------------------------------------
(* Arithmetic *)

LEMMA CeilDivCovers ==
    ASSUME NEW a \in Nat, NEW b \in Nat \ {0}
    PROVE  CeilDiv(a, b) \in Nat /\ a <= b * CeilDiv(a, b)
<1> DEFINE n == a + b - 1
           q == n \div b
<1>1. n \in Nat
  OBVIOUS
<1>2. q \in Nat /\ n = b * q + (n % b) /\ n % b \in 0..(b - 1)
  BY <1>1, SMT
<1>3. b * q \in Nat
  BY <1>2
<1>4. a <= b * q
  BY <1>2, <1>3
<1>5. QED
  BY <1>2, <1>4 DEF CeilDiv

LEMMA Monotone ==
    ASSUME NEW k \in Nat, NEW x \in Int, NEW y \in Int, x <= y
    PROVE  k * x \in Int /\ k * y \in Int /\ k * x <= k * y
BY SMT

LEMMA FullType == Full \in Nat
BY RateLimiterAssumption, SMT DEF Full

\* A bucket lives long enough to be refilled completely.
LEMMA TTLRefills == BucketTTL \in Nat /\ Full <= Refill * BucketTTL
<1> DEFINE b == Refill * Second
           q == CeilDiv(2 * Full, b)
           m == AtLeast(MinTTL, q)
<1>1. b \in Nat \ {0} /\ 2 * Full \in Nat
  BY RateLimiterAssumption, FullType, SMT
<1>2. q \in Nat /\ 2 * Full <= b * q
  BY <1>1, CeilDivCovers
<1>3. m \in Nat /\ q <= m
  BY <1>2, RateLimiterAssumption DEF AtLeast
<1>4. b * q <= b * m
  BY <1>1, <1>2, <1>3, Monotone
<1>5. BucketTTL = Second * m
  BY DEF BucketTTL
<1> HIDE DEF q, m
<1>6. b * m = Refill * (Second * m) /\ Second * m \in Nat /\ b * m \in Nat
  BY <1>3, RateLimiterAssumption, SMT
<1>7. Full <= 2 * Full
  BY FullType
<1>8. QED
  BY <1>1, <1>2, <1>3, <1>4, <1>5, <1>6, <1>7, FullType

-----------------------------------------------------------------------------
(* What the script finds and leaves *)

LEMMA RefilledType ==
    ASSUME LimiterTypeOK, NEW c \in Clients
    PROVE  Refilled(c) \in 0..Full
<1>1. CASE Live(c)
  <2> DEFINE gain == Refill * AtLeast(0, now - bucket[c].timestamp)
  <2>1. bucket[c].tokens \in 0..Full /\ bucket[c].timestamp \in Nat /\ now \in Nat
    BY <1>1 DEF Live, LimiterTypeOK, Buckets
  <2>2. AtLeast(0, now - bucket[c].timestamp) \in Nat
    BY <2>1 DEF AtLeast
  <2>3. gain \in Nat
    BY <2>2, RateLimiterAssumption, SMT
  <2> HIDE DEF gain
  <2>4. AtMost(Full, bucket[c].tokens + gain) \in 0..Full
    BY <2>1, <2>3, FullType DEF AtMost
  <2>5. QED
    BY <1>1, <2>4 DEF Refilled, gain
<1>2. CASE ~Live(c)
  BY <1>2, FullType DEF Refilled
<1>3. QED
  BY <1>1, <1>2

LEMMA RewrittenType ==
    ASSUME LimiterTypeOK, NEW c \in Clients
    PROVE  /\ Rewritten(c) \in Buckets
           /\ Rewritten(c).expires = Rewritten(c).timestamp + BucketTTL
<1>1. Refilled(c) \in 0..Full /\ now \in Nat /\ Grain \in Nat /\ BucketTTL \in Nat
  BY RefilledType, TTLRefills, RateLimiterAssumption DEF LimiterTypeOK
<1>2. Refilled(c) - (IF Allows(c) THEN Grain ELSE 0) \in 0..Full
  BY <1>1, FullType DEF Allows
<1>3. QED
  BY <1>1, <1>2 DEF Rewritten, Buckets

-----------------------------------------------------------------------------
(* Type correctness *)

LEMMA LimiterTypeInit == LimiterInit => LimiterTypeOK
BY RateLimiterAssumption DEF LimiterInit, LimiterTypeOK

LEMMA LimiterTypeNext == LimiterTypeOK /\ [LimiterNext]_limiterVars => LimiterTypeOK'
<1> SUFFICES ASSUME LimiterTypeOK, [LimiterNext]_limiterVars PROVE LimiterTypeOK'
  OBVIOUS
<1> USE DEF checkVars, history
<1>1. ASSUME NEW r \in Checks, Call(r)
      PROVE  LimiterTypeOK'
  BY <1>1, RateLimiterAssumption DEF Call, LimiterTypeOK
<1>2. ASSUME NEW r \in Checks, Execute(r)
      PROVE  LimiterTypeOK'
  <2>1. PICK c \in Clients : c = Owner[r]
    BY RateLimiterAssumption
  <2>2. Rewritten(c) \in Buckets /\ Allows(c) \in BOOLEAN
        /\ Rewritten(c).expires = Rewritten(c).timestamp + BucketTTL
    BY RewrittenType DEF Allows
  <2>3. bucket' = [bucket EXCEPT ![c] = Rewritten(c)]
    BY <1>2, <2>1 DEF Execute
  <2>4. bucket' \in [Clients -> Buckets \cup {NoBucket}]
    BY <2>2, <2>3 DEF LimiterTypeOK
  <2>5. \A x \in Clients : bucket'[x] # NoBucket =>
           bucket'[x].expires = bucket'[x].timestamp + BucketTTL
    BY <2>2, <2>3 DEF LimiterTypeOK
  <2>6. /\ granted' \in [Checks -> BOOLEAN]
        /\ count' \in [Clients -> Nat] /\ spent' \in [Checks -> Nat]
    BY <1>2, <2>1, <2>2 DEF Execute, LimiterTypeOK
  <2>7. QED
    BY <1>2, <2>4, <2>5, <2>6 DEF Execute, LimiterTypeOK
<1>3. ASSUME NEW r \in Checks, Resend(r)
      PROVE  LimiterTypeOK'
  BY <1>3, RateLimiterAssumption DEF Resend, LimiterTypeOK
<1>4. ASSUME NEW r \in Checks, Decide(r) \/ Unavailable(r)
      PROVE  LimiterTypeOK'
  BY <1>4 DEF Decide, Unavailable, LimiterTypeOK
<1>5. ASSUME NEW d \in Steps, Tick(d) \/ StepBack(d)
      PROVE  LimiterTypeOK'
  <2>1. d \in Nat
    BY RateLimiterAssumption
  <2>2. now' \in Nat /\ travel' \in Nat /\ travel <= travel'
    BY <1>5, <2>1 DEF Tick, StepBack, LimiterTypeOK
  <2>3. UNCHANGED <<bucket, phase, granted, sends, since, count, spent>>
    BY <1>5 DEF Tick, StepBack
  <2>4. \A c \in Clients : since'[c] <= travel'
    BY <2>2, <2>3 DEF LimiterTypeOK
  <2>5. QED
    BY <2>2, <2>3, <2>4 DEF LimiterTypeOK
<1>6. ASSUME NEW c \in Clients, ExpireBucket(c) \/ Watch(c) \/ Forget(c)
      PROVE  LimiterTypeOK'
  BY <1>6 DEF ExpireBucket, Watch, Forget, LimiterTypeOK
<1>7. CASE UNCHANGED limiterVars
  BY <1>7 DEF limiterVars, LimiterTypeOK
<1>8. QED
  BY <1>1, <1>2, <1>3, <1>4, <1>5, <1>6, <1>7 DEF LimiterNext, Handle

\* In every reachable state a bucket holds between zero and Capacity tokens and is
\* due to expire BucketTTL after it was last written, however the clock moves.
THEOREM LimiterTypeCorrect == LimiterSpec => []LimiterTypeOK
BY LimiterTypeInit, LimiterTypeNext, PTL DEF LimiterSpec

\* An expired bucket would have refilled completely: to treat it as missing, and
\* so as full, changes nothing.
LEMMA ExpiredIsFull ==
    ASSUME LimiterTypeOK, NEW c \in Clients, bucket[c] # NoBucket, NEW t \in Int,
           t > bucket[c].expires
    PROVE  /\ Refill * (t - bucket[c].timestamp) \in Int
           /\ bucket[c].tokens + Refill * (t - bucket[c].timestamp) >= Full
<1> DEFINE lapse == t - bucket[c].timestamp
<1>1. /\ bucket[c].tokens \in Nat /\ bucket[c].timestamp \in Nat
      /\ bucket[c].expires = bucket[c].timestamp + BucketTTL
  BY FullType DEF LimiterTypeOK, Buckets
<1>2. BucketTTL \in Nat /\ Full <= Refill * BucketTTL /\ Refill \in Nat
  BY TTLRefills, RateLimiterAssumption
<1>3. lapse \in Int /\ BucketTTL <= lapse
  BY <1>1, <1>2
<1>4. /\ Refill * BucketTTL \in Int /\ Refill * lapse \in Int
      /\ Refill * BucketTTL <= Refill * lapse
  BY <1>2, <1>3, Monotone
<1> HIDE DEF lapse
<1>5. Refill * lapse \in Int /\ bucket[c].tokens + Refill * lapse >= Full
  BY <1>1, <1>2, <1>4, FullType
<1>6. QED
  BY <1>5 DEF lapse

\* Expiry never gives a client tokens it did not have.
THEOREM ExpiryGivesNothing == LimiterSpec => []ExpiryIsInvisible
<1>1. LimiterTypeOK => ExpiryIsInvisible
  BY ExpiredIsFull DEF ExpiryIsInvisible, LimiterTypeOK
<1>2. QED
  BY <1>1, LimiterTypeCorrect, PTL

-----------------------------------------------------------------------------
(* The bound on admissions *)

\* AdmissionBound is not inductive: what a client may still take matters as much
\* as what it has taken. Their sum is what the clock's movement bounds.
Budget ==
    \A c \in Clients :
        Grain * count[c] + Refilled(c) <= Full + Refill * (travel - since[c])

\* The clock moving forward by d adds no more than d ticks' worth of tokens.
LEMMA TickRefills ==
    ASSUME LimiterTypeOK, NEW d \in Nat, now' = now + d, bucket' = bucket, NEW c \in Clients
    PROVE  Refilled(c)' \in Nat /\ Refilled(c)' <= Refilled(c) + Refill * d
<1>1. Refilled(c) \in 0..Full /\ Full \in Nat /\ Refill \in Nat /\ now \in Nat
  BY RefilledType, FullType, RateLimiterAssumption DEF LimiterTypeOK
<1>2. Refill * d \in Nat
  BY <1>1, SMT
<1>3. CASE ~Live(c)
  <2>1. ~Live(c)'
    BY <1>1, <1>3 DEF Live, LimiterTypeOK, Buckets
  <2>2. QED
    BY <1>1, <1>2, <1>3, <2>1 DEF Refilled
<1>4. CASE Live(c)
  <2> DEFINE lapse == now - bucket[c].timestamp
             old == bucket[c].tokens + Refill * AtLeast(0, lapse)
             new == bucket[c].tokens + Refill * AtLeast(0, lapse + d)
  <2>1. /\ bucket[c] # NoBucket /\ bucket[c].tokens \in 0..Full
        /\ bucket[c].timestamp \in Nat /\ lapse \in Int
    BY <1>1, <1>4 DEF Live, LimiterTypeOK, Buckets
  <2>2. /\ AtLeast(0, lapse) \in Nat /\ AtLeast(0, lapse + d) \in Nat
        /\ AtLeast(0, lapse + d) <= AtLeast(0, lapse) + d
    BY <2>1 DEF AtLeast
  <2>3. old \in Nat /\ new \in Nat /\ new <= old + Refill * d
    <3>1. Refill * AtLeast(0, lapse + d) <= Refill * (AtLeast(0, lapse) + d)
      BY <1>1, <2>2, Monotone
    <3>2. Refill * (AtLeast(0, lapse) + d) = Refill * AtLeast(0, lapse) + Refill * d
      BY <1>1, <2>2, SMT
    <3>3. Refill * AtLeast(0, lapse) \in Nat /\ Refill * AtLeast(0, lapse + d) \in Nat
      BY <1>1, <2>2, SMT
    <3> HIDE DEF lapse
    <3>4. QED
      BY <1>2, <2>1, <3>1, <3>2, <3>3
  <2>4. Refilled(c) = AtMost(Full, old)
    BY <1>4 DEF Refilled
  <2>5. CASE Live(c)'
    <3>1. now' - bucket'[c].timestamp = lapse + d
      BY <1>1, <2>1
    <3>2. Refilled(c)' = AtMost(Full, new)
      BY <2>5, <3>1 DEF Refilled
    <3> HIDE DEF old, new
    <3>3. QED
      BY <1>1, <1>2, <2>3, <2>4, <3>2 DEF AtMost
  <2>6. CASE ~Live(c)'
    <3>1. Refilled(c)' = Full /\ now + d > bucket[c].expires
      BY <1>1, <2>1, <2>6 DEF Refilled, Live, LimiterTypeOK, Buckets
    <3>2. Refill * (now + d - bucket[c].timestamp) \in Int
            /\ bucket[c].tokens + Refill * (now + d - bucket[c].timestamp) >= Full
      BY <1>1, <2>1, <3>1, ExpiredIsFull
    <3>3. now + d - bucket[c].timestamp = lapse + d
      BY <1>1, <2>1
    <3>4. /\ Refill * (lapse + d) \in Int /\ Refill * AtLeast(0, lapse + d) \in Int
          /\ Refill * (lapse + d) <= Refill * AtLeast(0, lapse + d)
      <4>1. lapse + d \in Int /\ lapse + d <= AtLeast(0, lapse + d)
        BY <2>1 DEF AtLeast
      <4>2. QED
        BY <1>1, <2>2, <4>1, Monotone
    <3>5. new >= Full
      BY <1>1, <2>1, <3>2, <3>3, <3>4
    <3> HIDE DEF old, new
    <3>6. QED
      BY <1>1, <1>2, <2>3, <2>4, <3>1, <3>5 DEF AtMost
  <2>7. QED
    BY <2>5, <2>6
<1>5. QED
  BY <1>3, <1>4

\* The clock moving back adds nothing.
LEMMA StepBackRefillsNothing ==
    ASSUME LimiterTypeOK, NEW d \in Nat, now' = now - d, bucket' = bucket, NEW c \in Clients
    PROVE  Refilled(c)' \in Nat /\ Refilled(c)' <= Refilled(c)
<1>1. Refilled(c) \in 0..Full /\ Full \in Nat /\ Refill \in Nat /\ now \in Nat
  BY RefilledType, FullType, RateLimiterAssumption DEF LimiterTypeOK
<1>2. CASE bucket[c] = NoBucket
  BY <1>1, <1>2 DEF Refilled, Live
<1>3. CASE bucket[c] # NoBucket
  <2> DEFINE lapse == now - bucket[c].timestamp
             old == bucket[c].tokens + Refill * AtLeast(0, lapse)
             new == bucket[c].tokens + Refill * AtLeast(0, lapse - d)
  <2>1. /\ bucket[c].tokens \in 0..Full /\ bucket[c].timestamp \in Nat
        /\ bucket[c].expires \in Nat /\ lapse \in Int
        /\ now' - bucket'[c].timestamp = lapse - d
    BY <1>1, <1>3 DEF LimiterTypeOK, Buckets
  <2>2. /\ AtLeast(0, lapse) \in Nat /\ AtLeast(0, lapse - d) \in Nat
        /\ AtLeast(0, lapse - d) <= AtLeast(0, lapse)
    BY <2>1 DEF AtLeast
  <2>3. /\ Refill * AtLeast(0, lapse) \in Nat /\ Refill * AtLeast(0, lapse - d) \in Nat
        /\ Refill * AtLeast(0, lapse - d) <= Refill * AtLeast(0, lapse)
    BY <1>1, <2>2, Monotone, SMT
  <2>4. old \in Nat /\ new \in Nat /\ new <= old
    BY <2>1, <2>3
  <2>5. Refilled(c)' = IF Live(c)' THEN AtMost(Full, new) ELSE Full
    BY <2>1 DEF Refilled
  <2>6. Refilled(c) = IF Live(c) THEN AtMost(Full, old) ELSE Full
    BY DEF Refilled
  <2>7. Live(c) => Live(c)'
    BY <1>1, <2>1 DEF Live
  <2> HIDE DEF old, new
  <2>8. QED
    BY <1>1, <2>4, <2>5, <2>6, <2>7 DEF AtMost
<1>4. QED
  BY <1>2, <1>3

\* What does not touch a client's bucket or the clock leaves its balance alone.
LEMMA Undisturbed ==
    ASSUME NEW x \in Clients, now' = now, bucket'[x] = bucket[x]
    PROVE  Refilled(x)' = Refilled(x)
BY DEF Refilled, Live

\* A run of the script takes a token, or nothing, from the balance of its client.
LEMMA ExecuteTakes ==
    ASSUME LimiterTypeOK, NEW r \in Checks, Execute(r), NEW x \in Clients
    PROVE  \/ count'[x] = count[x] /\ Refilled(x)' = Refilled(x)
           \/ count'[x] = count[x] + 1 /\ Refilled(x)' = Refilled(x) - Grain
<1>1. PICK c \in Clients :
          /\ c = Owner[r]
          /\ bucket' = [bucket EXCEPT ![c] = Rewritten(c)]
          /\ count' = [count EXCEPT ![c] = IF Allows(c) THEN @ + 1 ELSE @]
  BY RateLimiterAssumption DEF Execute
<1>2. /\ now' = now /\ now \in Nat /\ Refilled(x) \in 0..Full
      /\ Full \in Nat /\ Grain \in Nat /\ Refill \in Nat
  BY RefilledType, FullType, RateLimiterAssumption DEF Execute, LimiterTypeOK
<1>3. CASE x # c
  <2>1. bucket'[x] = bucket[x] /\ count'[x] = count[x]
    BY <1>1, <1>3 DEF LimiterTypeOK
  <2>2. QED
    BY <1>2, <2>1, Undisturbed
<1>4. CASE x = c
  <2>1. bucket'[x] = Rewritten(x) /\ Rewritten(x) \in Buckets
    BY <1>1, <1>4, RewrittenType DEF LimiterTypeOK
  <2> DEFINE left == Refilled(x) - (IF Allows(x) THEN Grain ELSE 0)
  <2>2. left \in 0..Full
    BY <1>2 DEF Allows
  <2>3. /\ bucket'[x].tokens = left /\ bucket'[x].timestamp = now
        /\ bucket'[x].expires = now + BucketTTL
    BY <2>1 DEF Rewritten
  <2> HIDE DEF left
  <2>4. bucket'[x] # NoBucket /\ BucketTTL \in Nat
    BY <2>1, TTLRefills, NoBucketAssumption
  <2>5. Live(x)'
    BY <1>2, <2>3, <2>4 DEF Live
  <2>6. Refill * AtLeast(0, now' - bucket'[x].timestamp) = 0
    <3>1. AtLeast(0, now' - bucket'[x].timestamp) = 0
      BY <1>2, <2>3 DEF AtLeast
    <3>2. QED
      BY <1>2, <3>1
  <2>7. Refilled(x)' = left
    BY <1>2, <2>2, <2>3, <2>5, <2>6 DEF Refilled, AtMost
  <2>8. CASE Allows(x)
    BY <1>1, <1>4, <2>7, <2>8 DEF LimiterTypeOK, left
  <2>9. CASE ~Allows(x)
    BY <1>1, <1>2, <1>4, <2>7, <2>9 DEF LimiterTypeOK, left
  <2>10. QED
    BY <2>8, <2>9
<1>5. QED
  BY <1>3, <1>4

\* The removal of an expired bucket leaves the balance alone.
LEMMA ExpireKeeps ==
    ASSUME LimiterTypeOK, NEW c \in Clients, ExpireBucket(c), NEW x \in Clients
    PROVE  Refilled(x)' = Refilled(x)
<1>1. CASE x # c
  BY <1>1, Undisturbed DEF ExpireBucket, LimiterTypeOK
<1>2. CASE x = c
  <2>1. ~Live(x) /\ ~Live(x)'
    BY <1>2 DEF ExpireBucket, Live, LimiterTypeOK, Buckets
  <2>2. QED
    BY <2>1 DEF Refilled
<1>3. QED
  BY <1>1, <1>2

LEMMA BudgetNext == LimiterTypeOK /\ Budget /\ [LimiterNext]_limiterVars => Budget'
<1> SUFFICES ASSUME LimiterTypeOK, Budget, [LimiterNext]_limiterVars, NEW x \in Clients
             PROVE  (Grain * count[x] + Refilled(x)
                       <= Full + Refill * (travel - since[x]))'
  BY DEF Budget
<1> USE DEF checkVars, history
<1>0. /\ Grain * count[x] + Refilled(x) <= Full + Refill * (travel - since[x])
      /\ Refilled(x) \in 0..Full /\ Full \in Nat /\ Grain \in Nat /\ Refill \in Nat
      /\ now \in Nat /\ travel \in Nat /\ since[x] \in Nat /\ count[x] \in Nat
      /\ Grain * count[x] \in Nat /\ Refill * (travel - since[x]) \in Int
  <2>1. /\ Refilled(x) \in 0..Full /\ Full \in Nat /\ Grain \in Nat /\ Refill \in Nat
        /\ now \in Nat /\ travel \in Nat /\ since[x] \in Nat /\ count[x] \in Nat
    BY RefilledType, FullType, RateLimiterAssumption DEF LimiterTypeOK
  <2>2. Grain * count[x] \in Nat /\ Refill * (travel - since[x]) \in Int
    BY <2>1, SMT
  <2>3. QED
    BY <2>1, <2>2 DEF Budget
<1>1. ASSUME NEW r \in Checks, Execute(r)
      PROVE  (Grain * count[x] + Refilled(x)
                <= Full + Refill * (travel - since[x]))'
  <2>1. now' = now /\ travel' = travel /\ since' = since
    BY <1>1 DEF Execute
  <2>2. CASE count'[x] = count[x] /\ Refilled(x)' = Refilled(x)
    BY <1>0, <2>1, <2>2
  <2>3. CASE count'[x] = count[x] + 1 /\ Refilled(x)' = Refilled(x) - Grain
    <3>1. Grain * (count[x] + 1) = Grain * count[x] + Grain
      BY <1>0, SMT
    <3>2. QED
      BY <1>0, <2>1, <2>3, <3>1
  <2>4. QED
    BY <1>1, <2>2, <2>3, ExecuteTakes
<1>2. ASSUME NEW d \in Steps, Tick(d)
      PROVE  (Grain * count[x] + Refilled(x)
                <= Full + Refill * (travel - since[x]))'
  <2>1. /\ d \in Nat /\ now' = now + d /\ bucket' = bucket
        /\ travel' = travel + d /\ since' = since /\ count' = count
    BY <1>2, RateLimiterAssumption DEF Tick
  <2>2. Refilled(x)' \in Nat /\ Refilled(x)' <= Refilled(x) + Refill * d
    BY <2>1, TickRefills
  <2>3. Refill * (travel + d - since[x]) = Refill * (travel - since[x]) + Refill * d
    BY <1>0, <2>1, SMT
  <2>4. Refill * d \in Nat
    BY <1>0, <2>1, SMT
  <2>5. QED
    BY <1>0, <2>1, <2>2, <2>3, <2>4
<1>3. ASSUME NEW d \in Steps, StepBack(d)
      PROVE  (Grain * count[x] + Refilled(x)
                <= Full + Refill * (travel - since[x]))'
  <2>1. /\ d \in Nat /\ now' = now - d /\ bucket' = bucket
        /\ UNCHANGED <<travel, since, count>>
    BY <1>3, RateLimiterAssumption DEF StepBack
  <2>2. Refilled(x)' \in Nat /\ Refilled(x)' <= Refilled(x)
    BY <2>1, StepBackRefillsNothing
  <2>3. QED
    BY <1>0, <2>1, <2>2
<1>4. ASSUME NEW c \in Clients, ExpireBucket(c)
      PROVE  (Grain * count[x] + Refilled(x)
                <= Full + Refill * (travel - since[x]))'
  <2>1. UNCHANGED <<now, travel, since, count>>
    BY <1>4 DEF ExpireBucket
  <2>2. Refilled(x)' = Refilled(x)
    BY <1>4, ExpireKeeps
  <2>3. QED
    BY <1>0, <2>1, <2>2
<1>5. ASSUME NEW c \in Clients, Watch(c) \/ Forget(c)
      PROVE  (Grain * count[x] + Refilled(x)
                <= Full + Refill * (travel - since[x]))'
  <2>1. now' = now /\ travel' = travel
    BY <1>5 DEF Watch, Forget
  <2>2. CASE x # c
    <3>1. bucket'[x] = bucket[x] /\ since'[x] = since[x] /\ count'[x] = count[x]
      BY <1>5, <2>2 DEF Watch, Forget, LimiterTypeOK
    <3>2. Refilled(x)' = Refilled(x)
      BY <2>1, <3>1 DEF Refilled, Live
    <3>3. QED
      BY <1>0, <2>1, <3>1, <3>2
  <2>3. CASE x = c
    <3>1. since'[x] = travel /\ count'[x] = 0
      BY <1>5, <2>3 DEF Watch, Forget, LimiterTypeOK
    <3>2. Refilled(x)' \in 0..Full
      <4>1. CASE Watch(c)
        BY <1>0, <4>1 DEF Watch, Refilled, Live
      <4>2. CASE Forget(c)
        BY <1>0, <2>3, <4>2 DEF Forget, Refilled, Live, LimiterTypeOK
      <4>3. QED
        BY <1>5, <4>1, <4>2
    <3>3. Grain * 0 = 0 /\ travel - travel = 0 /\ Refill * 0 = 0
      BY <1>0
    <3>4. QED
      BY <1>0, <2>1, <3>1, <3>2, <3>3
  <2>4. QED
    BY <2>2, <2>3
<1>6. CASE UNCHANGED <<now, bucket, travel, since, count>>
  BY <1>0, <1>6 DEF Refilled, Live
<1>7. QED
  BY <1>1, <1>2, <1>3, <1>4, <1>5, <1>6
     DEF LimiterNext, Handle, Call, Resend, Decide, Unavailable, limiterVars

\* Over every stretch of every behaviour a client takes no more than a full bucket
\* plus what the forward movement of the clock has refilled: concurrent processes,
\* resent calls, lost replies, expiry and a clock that steps back do not loosen it.
THEOREM AdmissionsAreBounded == LimiterSpec => []AdmissionBound
<1>1. LimiterInit => Budget
  <2>1. LimiterInit => \A c \in Clients :
           /\ Refilled(c) = Full /\ count[c] = 0 /\ travel = 0 /\ since[c] = 0
    BY DEF LimiterInit, Refilled, Live
  <2>2. Grain * 0 = 0 /\ Refill * (0 - 0) = 0 /\ Full \in Nat
    BY FullType, RateLimiterAssumption
  <2>3. QED
    BY <2>1, <2>2 DEF Budget
<1>2. LimiterTypeOK /\ Budget => AdmissionBound
  <2> SUFFICES ASSUME LimiterTypeOK, Budget, NEW c \in Clients
               PROVE  Grain * count[c] <= Full + Refill * (travel - since[c])
    BY DEF AdmissionBound
  <2>1. Refilled(c) \in 0..Full /\ Full \in Nat
    BY RefilledType, FullType
  <2>2. Grain * count[c] \in Int /\ Refill * (travel - since[c]) \in Int
    BY RateLimiterAssumption, SMT DEF LimiterTypeOK
  <2>3. Grain * count[c] + Refilled(c) <= Full + Refill * (travel - since[c])
    BY DEF Budget
  <2>4. QED
    BY <2>1, <2>2, <2>3
<1>3. QED
  BY <1>1, <1>2, LimiterTypeInit, LimiterTypeNext, BudgetNext, PTL DEF LimiterSpec
-----------------------------------------------------------------------------
(* Nobody pays for another *)

\* A balance does not shrink while the clock moves on.
LEMMA TickTakesNothing ==
    ASSUME LimiterTypeOK, NEW d \in Nat, now' = now + d, bucket' = bucket, NEW c \in Clients
    PROVE  Refilled(c)' >= Refilled(c)
<1>1. Refilled(c) \in 0..Full /\ Full \in Nat /\ Refill \in Nat /\ now \in Nat
  BY RefilledType, FullType, RateLimiterAssumption DEF LimiterTypeOK
<1>2. CASE ~Live(c)'
  BY <1>1, <1>2 DEF Refilled
<1>3. CASE Live(c)'
  <2> DEFINE lapse == now - bucket[c].timestamp
             old == bucket[c].tokens + Refill * AtLeast(0, lapse)
             new == bucket[c].tokens + Refill * AtLeast(0, lapse + d)
  <2>1. /\ bucket[c] # NoBucket /\ bucket[c].expires \in Nat /\ Live(c)
        /\ bucket[c].tokens \in Nat /\ bucket[c].timestamp \in Nat /\ lapse \in Int
        /\ now' - bucket'[c].timestamp = lapse + d
    BY <1>1, <1>3 DEF Live, LimiterTypeOK, Buckets
  <2>2. /\ AtLeast(0, lapse) \in Nat /\ AtLeast(0, lapse + d) \in Nat
        /\ AtLeast(0, lapse) <= AtLeast(0, lapse + d)
    BY <2>1 DEF AtLeast
  <2>3. /\ Refill * AtLeast(0, lapse) \in Nat /\ Refill * AtLeast(0, lapse + d) \in Nat
        /\ Refill * AtLeast(0, lapse) <= Refill * AtLeast(0, lapse + d)
    BY <1>1, <2>2, Monotone, SMT
  <2>4. old \in Nat /\ new \in Nat /\ old <= new
    BY <2>1, <2>3
  <2>5. Refilled(c) = AtMost(Full, old) /\ Refilled(c)' = AtMost(Full, new)
    BY <1>3, <2>1 DEF Refilled
  <2> HIDE DEF old, new
  <2>6. QED
    BY <1>1, <2>4, <2>5 DEF AtMost
<1>4. QED
  BY <1>2, <1>3

\* What TokensAreConserved says of one client.
Conserved(x) ==
    LET taken == count'[x] - count[x]
        lost == Live(x) /\ bucket'[x] = NoBucket
    IN taken >= 0 /\ ~lost /\ now' >= now =>
          /\ Refilled(x)' >= Refilled(x) - Grain * taken
          /\ now' = now => Refilled(x)' = Refilled(x) - Grain * taken

LEMMA ConservedNext ==
    ASSUME LimiterTypeOK, [LimiterNext]_limiterVars, NEW x \in Clients
    PROVE  Conserved(x)
<1> USE DEF checkVars, history
<1>0. /\ Refilled(x) \in 0..Full /\ Full \in Nat /\ Grain \in Nat
      /\ now \in Nat /\ count[x] \in Nat
  BY RefilledType, FullType, RateLimiterAssumption DEF LimiterTypeOK
<1>1. CASE count'[x] = count[x] /\ Refilled(x)' = Refilled(x)
  BY <1>0, <1>1 DEF Conserved
<1>2. ASSUME NEW r \in Checks, Execute(r)
      PROVE  Conserved(x)
  <2>1. CASE count'[x] = count[x] + 1 /\ Refilled(x)' = Refilled(x) - Grain
    <3>1. Grain * (count'[x] - count[x]) = Grain
      <4>1. count'[x] - count[x] = 1
        BY <1>0, <2>1
      <4>2. QED
        BY <1>0, <4>1
    <3>2. QED
      BY <1>0, <2>1, <3>1 DEF Conserved
  <2>2. QED
    BY <1>1, <1>2, <2>1, ExecuteTakes
<1>3. ASSUME NEW d \in Steps, Tick(d)
      PROVE  Conserved(x)
  <2>1. /\ d \in Nat \ {0} /\ now' = now + d /\ bucket' = bucket /\ count' = count
    BY <1>3, RateLimiterAssumption DEF Tick
  <2>2. Refilled(x)' >= Refilled(x) /\ Refilled(x)' \in Nat
    BY <2>1, TickTakesNothing, TickRefills
  <2>3. Grain * (count'[x] - count[x]) = 0
    <3>1. count'[x] - count[x] = 0
      BY <1>0, <2>1
    <3>2. QED
      BY <1>0, <3>1
  <2>4. QED
    BY <1>0, <2>1, <2>2, <2>3 DEF Conserved
<1>4. ASSUME NEW d \in Steps, StepBack(d)
      PROVE  Conserved(x)
  <2>1. d \in Nat \ {0} /\ now' = now - d
    BY <1>4, RateLimiterAssumption DEF StepBack
  <2>2. QED
    BY <1>0, <2>1 DEF Conserved
<1>5. ASSUME NEW c \in Clients, ExpireBucket(c)
      PROVE  Conserved(x)
  BY <1>1, <1>5, ExpireKeeps DEF ExpireBucket
<1>6. ASSUME NEW c \in Clients, Watch(c) \/ Forget(c)
      PROVE  Conserved(x)
  <2>1. now' = now
    BY <1>6 DEF Watch, Forget
  <2>2. CASE ~(count'[x] - count[x] >= 0)
    BY <2>2 DEF Conserved
  <2>3. CASE Live(x) /\ bucket'[x] = NoBucket
    BY <2>3 DEF Conserved
  <2>4. CASE /\ count'[x] - count[x] >= 0
             /\ ~(Live(x) /\ bucket'[x] = NoBucket)
    <3>1. count'[x] = count[x]
      BY <1>0, <1>6, <2>4 DEF Watch, Forget, LimiterTypeOK
    <3>2. Refilled(x)' = Refilled(x)
      <4>1. CASE bucket'[x] = bucket[x]
        BY <2>1, <4>1, Undisturbed
      <4>2. CASE bucket'[x] # bucket[x]
        <5>1. bucket'[x] = NoBucket /\ ~Live(x) /\ ~Live(x)'
          BY <1>6, <2>4, <4>2 DEF Watch, Forget, Live, LimiterTypeOK
        <5>2. QED
          BY <5>1 DEF Refilled
      <4>3. QED
        BY <4>1, <4>2
    <3>3. QED
      BY <1>1, <3>1, <3>2
  <2>5. QED
    BY <2>2, <2>3, <2>4
<1>7. CASE UNCHANGED <<now, bucket, count>>
  BY <1>1, <1>7, Undisturbed
<1>8. QED
  BY <1>2, <1>3, <1>4, <1>5, <1>6, <1>7
     DEF LimiterNext, Handle, Call, Resend, Decide, Unavailable, limiterVars

\* A client loses tokens only to its own calls, for any number of clients and
\* processes: what others do, refusals, expiry and jumps of the clock cost it nothing.
THEOREM NobodyPaysForOthers == LimiterSpec => TokensAreConserved
<1>1. LimiterTypeOK /\ [LimiterNext]_limiterVars =>
         [\A c \in Clients :
             LET taken == count'[c] - count[c]
                 lost == Live(c) /\ bucket'[c] = NoBucket
             IN taken >= 0 /\ ~lost /\ now' >= now =>
                   /\ Refilled(c)' >= Refilled(c) - Grain * taken
                   /\ now' = now => Refilled(c)' = Refilled(c) - Grain * taken]_limiterVars
  BY ConservedNext DEF Conserved
<1>2. QED
  BY <1>1, LimiterTypeCorrect, PTL DEF LimiterSpec, TokensAreConserved

-----------------------------------------------------------------------------
(* Admission is paid *)

\* AdmissionIsPaid is not inductive: a request with a grant in hand has paid already,
\* and one whose call is under way may still be charged once for it.
Ledger ==
    \A r \in Checks :
        /\ phase[r] = "idle" => spent[r] = 0
        /\ phase[r] = "sent" => spent[r] < sends[r]
        /\ phase[r] = "executed" /\ granted[r] => spent[r] >= 1
        /\ phase[r] = "admitted" => spent[r] >= 1
        /\ spent[r] <= sends[r]

LEMMA LedgerNext == LimiterTypeOK /\ Ledger /\ [LimiterNext]_limiterVars => Ledger'
<1> SUFFICES ASSUME LimiterTypeOK, Ledger, [LimiterNext]_limiterVars PROVE Ledger'
  OBVIOUS
<1> USE DEF checkVars, history
<1>0. \A r \in Checks : spent[r] \in Nat /\ sends[r] \in Nat
  BY RateLimiterAssumption DEF LimiterTypeOK
<1>1. ASSUME NEW r \in Checks, Call(r)
      PROVE  Ledger'
  BY <1>0, <1>1 DEF Call, Ledger, LimiterTypeOK
<1>2. ASSUME NEW r \in Checks, Execute(r)
      PROVE  Ledger'
  <2>1. Allows(Owner[r]) \in BOOLEAN
    BY DEF Allows
  <2>2. QED
    BY <1>0, <1>2, <2>1 DEF Execute, Ledger, LimiterTypeOK
<1>3. ASSUME NEW r \in Checks, Resend(r)
      PROVE  Ledger'
  BY <1>0, <1>3 DEF Resend, Ledger, LimiterTypeOK
<1>4. ASSUME NEW r \in Checks, Decide(r) \/ Unavailable(r)
      PROVE  Ledger'
  BY <1>0, <1>4 DEF Decide, Unavailable, Ledger, LimiterTypeOK
<1>5. CASE UNCHANGED <<phase, granted, sends, spent>>
  BY <1>5 DEF Ledger
<1>6. QED
  BY <1>1, <1>2, <1>3, <1>4, <1>5
     DEF LimiterNext, Handle, Tick, StepBack, ExpireBucket, Watch, Forget, limiterVars

\* Nobody gets in without having paid, however often the call was lost and sent
\* again, and nobody pays more often than the call was sent.
THEOREM NobodyGetsInForFree == LimiterSpec => []AdmissionIsPaid
<1>1. LimiterInit => Ledger
  BY DEF LimiterInit, Ledger
<1>2. Ledger => AdmissionIsPaid
  BY DEF Ledger, AdmissionIsPaid
<1>3. QED
  BY <1>1, <1>2, LimiterTypeInit, LimiterTypeNext, LedgerNext, PTL DEF LimiterSpec
=============================================================================
