--------------------------- MODULE BenchmarkProofs ---------------------------
(***************************************************************************)
(* Theorems about Benchmark, for every list of levels, every number of     *)
(* requests and warm-ups, every latency and whatever goes wrong: the       *)
(* results count what was measured, their percentiles are where they       *)
(* should be, and the exit code is right about it.                         *)
(***************************************************************************)
EXTENDS Benchmark, FiniteSetTheorems, WellFoundedInduction, TLAPS

-----------------------------------------------------------------------------
(* Percentiles *)

\* A set of naturals that is not empty has a smallest element.
LEMMA SmallestOf ==
    ASSUME NEW S, S \subseteq Nat, S # {}
    PROVE  \E m \in S : \A x \in S : m <= x
<1>1. PICK m \in S : \A x \in S : <<x, m>> \notin OpToRel(<, Nat)
  BY WFMin, NatLessThanWellFounded, Zenon
<1>2. \A x \in S : ~(x < m)
  BY <1>1, Zenon DEF OpToRel
<1>3. QED
  BY <1>2

\* Finitely many values have a bound.
LEMMA ValuesAreBounded ==
    ASSUME NEW n \in Nat, NEW values \in [1..n -> Nat]
    PROVE  \E b \in Nat : \A i \in 1..n : values[i] <= b
<1> DEFINE Bounded(m) == \E b \in Nat : \A i \in 1..m : values[i] <= b
           S == {m \in 0..n : ~Bounded(m)}
<1>1. CASE S = {}
  <2>1. n \in 0..n
    OBVIOUS
  <2>2. Bounded(n)
    BY <1>1, <2>1
  <2>3. QED
    BY <2>2
<1>2. CASE S # {}
  <2>1. PICK m \in S : \A x \in S : m <= x
    <3>1. S \subseteq Nat
      OBVIOUS
    <3>2. QED
      BY <1>2, <3>1, SmallestOf
  <2>2. m # 0
    <3>1. 1..0 = {}
      OBVIOUS
    <3>2. Bounded(0)
      BY <3>1
    <3>3. QED
      BY <2>1, <3>2
  <2>3. m - 1 \in 0..n /\ m \in 1..n
    BY <2>1, <2>2
  <2>4. Bounded(m - 1)
    <3>1. ~(m <= m - 1)
      BY <2>3
    <3>2. m - 1 \notin S
      BY <2>1, <3>1, Zenon
    <3>3. QED
      BY <2>3, <3>2, Zenon
  <2>5. PICK b \in Nat : \A i \in 1..(m - 1) : values[i] <= b
    BY <2>4
  <2>6. \A i \in 1..m : values[i] <= b + values[m]
    <3> SUFFICES ASSUME NEW i \in 1..m PROVE values[i] <= b + values[m]
      OBVIOUS
    <3>1. values[i] \in Nat /\ values[m] \in Nat /\ (i = m \/ i \in 1..(m - 1))
      BY <2>3
    <3>2. i = m \/ values[i] <= b
      BY <2>5, <3>1
    <3>3. QED
      BY <3>1, <3>2
  <2>7. Bounded(m)
    BY <2>3, <2>6
  <2>8. QED
    BY <2>1, <2>7
<1>3. QED
  BY <1>1, <1>2

UpTo(values, v) == {i \in DOMAIN values : values[i] <= v}
Under(values, v) == {i \in DOMAIN values : values[i] < v}

\* Both are finite, and what is not under v is at least v.
LEMMA CountsAreFinite ==
    ASSUME NEW n \in Nat, NEW values \in [1..n -> Nat], NEW v \in Nat
    PROVE  /\ IsFiniteSet(UpTo(values, v)) /\ Cardinality(UpTo(values, v)) \in Nat
           /\ IsFiniteSet(Under(values, v)) /\ Cardinality(Under(values, v)) \in Nat
           /\ IsFiniteSet(1..n) /\ Cardinality(1..n) = n
<1>1. IsFiniteSet(1..n) /\ Cardinality(1..n) = n
  BY FS_Interval
<1>2. UpTo(values, v) \in SUBSET (1..n) /\ Under(values, v) \in SUBSET (1..n)
  BY DEF UpTo, Under
<1>3. QED
  BY <1>1, <1>2, FS_Subset, FS_CardinalityType

\* The k-th smallest value is one of the values; fewer than k are smaller, and at
\* least k are not larger.
LEMMA NthIsThere ==
    ASSUME NEW n \in Nat, NEW values \in [1..n -> Nat], NEW k \in 1..n
    PROVE  /\ Nth(values, k) \in Nat
           /\ Cardinality(Under(values, Nth(values, k))) < k
           /\ Cardinality(UpTo(values, Nth(values, k))) >= k
<1> DEFINE S == {v \in Nat : Cardinality(UpTo(values, v)) >= k}
           Is(v) == /\ Cardinality({i \in DOMAIN values : values[i] < v}) < k
                    /\ Cardinality({i \in DOMAIN values : values[i] <= v}) >= k
<1>1. S # {}
  <2>1. PICK b \in Nat : \A i \in 1..n : values[i] <= b
    BY ValuesAreBounded
  <2>2. UpTo(values, b) = 1..n
    BY <2>1 DEF UpTo
  <2>3. Cardinality(UpTo(values, b)) = n
    BY <2>2, CountsAreFinite
  <2>4. b \in S
    BY <2>3
  <2>5. QED
    BY <2>4
<1>2. PICK v \in S : \A x \in S : v <= x
  <2>1. S \subseteq Nat
    OBVIOUS
  <2>2. QED
    BY <1>1, <2>1, SmallestOf
<1>3. v \in Nat /\ Cardinality(UpTo(values, v)) >= k
  BY <1>2
<1>4. Cardinality(Under(values, v)) < k
  <2>1. CASE v = 0
    <3>1. Under(values, v) = {}
      BY <2>1 DEF Under
    <3>2. QED
      BY <3>1, FS_EmptySet
  <2>2. CASE v # 0
    <3>1. v - 1 \in Nat /\ ~(v <= v - 1)
      BY <1>3, <2>2
    <3>2. Under(values, v) = UpTo(values, v - 1)
      BY <1>3, <3>1 DEF Under, UpTo
    <3>3. ~(Cardinality(UpTo(values, v - 1)) >= k)
      BY <1>2, <3>1
    <3>4. Cardinality(UpTo(values, v - 1)) \in Nat
      BY <3>1, CountsAreFinite
    <3>5. QED
      BY <3>2, <3>3, <3>4
  <2>3. QED
    BY <2>1, <2>2
<1>5. PICK i \in 1..n : values[i] = v
  <2>1. UpTo(values, v) # Under(values, v)
    <3>1. Cardinality(UpTo(values, v)) # Cardinality(Under(values, v))
      BY <1>3, <1>4, CountsAreFinite
    <3>2. QED
      BY <3>1
  <2>2. QED
    BY <1>3, <2>1 DEF UpTo, Under
<1>6. v \in {values[j] : j \in DOMAIN values} /\ Is(v)
  BY <1>3, <1>4, <1>5 DEF UpTo, Under
<1> HIDE DEF Is, S
<1>7. /\ Nth(values, k) \in {values[j] : j \in DOMAIN values}
      /\ Is(Nth(values, k))
  <2>1. Nth(values, k) = CHOOSE x \in {values[j] : j \in DOMAIN values} : Is(x)
    BY DEF Nth, Is
  <2>2. QED
    BY <1>6, <2>1
<1>8. Nth(values, k) \in Nat
  BY <1>7
<1>9. QED
  BY <1>7, <1>8 DEF Is, UpTo, Under

LEMMA NthGrows ==
    ASSUME NEW n \in Nat, NEW values \in [1..n -> Nat],
           NEW k \in 1..n, NEW l \in 1..n, k <= l
    PROVE  Nth(values, k) <= Nth(values, l)
<1> DEFINE a == Nth(values, k)
           b == Nth(values, l)
<1>1. /\ a \in Nat /\ b \in Nat
      /\ Cardinality(Under(values, a)) < k
      /\ Cardinality(UpTo(values, b)) >= l
  BY NthIsThere
<1> HIDE DEF a, b
<1>2. CASE b < a
  <2>1. UpTo(values, b) \in SUBSET Under(values, a)
    BY <1>1, <1>2 DEF UpTo, Under
  <2>2. Cardinality(UpTo(values, b)) <= Cardinality(Under(values, a))
    BY <1>1, <2>1, CountsAreFinite, FS_Subset
  <2>3. /\ Cardinality(UpTo(values, b)) \in Nat
        /\ Cardinality(Under(values, a)) \in Nat
    BY <1>1, CountsAreFinite
  <2>4. QED
    BY <1>1, <2>2, <2>3
<1>3. QED
  BY <1>1, <1>2 DEF a, b

\* The values not under v are as many as are left.
LEMMA CountFromAbove ==
    ASSUME NEW n \in Nat, NEW values \in [1..n -> Nat], NEW v \in Nat,
           NEW T, {i \in 1..n : values[i] >= v} \subseteq T, T \subseteq 1..n
    PROVE  /\ Cardinality(T) \in Nat
           /\ Cardinality(T) + Cardinality(Under(values, v)) >= n
<1> DEFINE U == Under(values, v)
<1>1. /\ IsFiniteSet(U) /\ Cardinality(U) \in Nat
      /\ IsFiniteSet(1..n) /\ Cardinality(1..n) = n
  BY CountsAreFinite
<1>2. IsFiniteSet(T) /\ Cardinality(T) \in Nat
  BY <1>1, FS_Subset, FS_CardinalityType
<1>3. T \cup U = 1..n
  <2>1. U \subseteq 1..n
    BY DEF Under
  <2>2. \A i \in 1..n : i \in T \/ i \in U
    <3> SUFFICES ASSUME NEW i \in 1..n, i \notin T PROVE i \in U
      OBVIOUS
    <3>1. values[i] \in Nat /\ ~(values[i] >= v)
      OBVIOUS
    <3>2. values[i] < v
      BY <3>1
    <3>3. QED
      BY <3>2 DEF Under
  <2>3. QED
    BY <2>1, <2>2
<1> HIDE DEF U
<1>4. /\ n = Cardinality(T) + Cardinality(U) - Cardinality(T \cap U)
      /\ Cardinality(T \cap U) \in Nat
  <2>1. IsFiniteSet(T \cap U)
    BY <1>2, FS_Subset
  <2>2. QED
    BY <1>1, <1>2, <1>3, <2>1, FS_Union, FS_CardinalityType
<1>5. QED
  BY <1>1, <1>2, <1>4 DEF U

\* A percentile at k + f/20 among n values, counted from 0: at least k + 1 values
\* are not above it, and those from its upper neighbour on are not below it.
LEMMA PercentileSplits ==
    ASSUME NEW n \in Nat \ {0}, NEW values \in [1..n -> Nat], NEW q \in 0..20,
           Len(values) = n
    PROVE  LET p == Percentile(values, q)
               below == Cardinality({i \in 1..n : 20 * values[i] <= p})
               above == Cardinality({i \in 1..n : 20 * values[i] >= p})
           IN /\ p \in Nat /\ below \in Nat /\ above \in Nat
              /\ \E k \in Nat, f \in 0..19 :
                    /\ (n - 1) * q = 20 * k + f
                    /\ below >= k + 1
                    /\ above >= n - k - (IF f = 0 THEN 0 ELSE 1)
<1> DEFINE position == (n - 1) * q
           k == (position \div 20) + 1
           f == position % 20
           a == Nth(values, k)
           b == Nth(values, k + 1)
           p == Percentile(values, q)
           B == {i \in 1..n : 20 * values[i] <= p}
           A == {i \in 1..n : 20 * values[i] >= p}
<1>1. position \in Nat /\ position <= 20 * (n - 1)
  BY SMT
<1> HIDE DEF position
<1>2. /\ k \in 1..n /\ f \in 0..19
      /\ f # 0 => k + 1 \in 1..n
  BY <1>1
<1>3. p = IF f = 0 THEN 20 * a ELSE 20 * a + (b - a) * f
  BY DEF Percentile, position
<1> HIDE DEF p, k, f
<1>4. /\ a \in Nat
      /\ Cardinality(Under(values, a)) < k
      /\ Cardinality(UpTo(values, a)) >= k
  BY <1>2, NthIsThere
<1>5. ASSUME f # 0
      PROVE  /\ b \in Nat /\ Cardinality(Under(values, b)) < k + 1
             /\ a <= b
  <2>1. k + 1 \in 1..n /\ k <= k + 1
    BY <1>2, <1>5
  <2>2. a <= b
    BY <1>2, <2>1, NthGrows
  <2>3. QED
    BY <2>1, <2>2, NthIsThere
<1> HIDE DEF a, b
<1>6. p \in Nat /\ 20 * a <= p /\ (f # 0 => p <= 20 * b)
  <2>1. CASE f = 0
    BY <1>3, <1>4, <2>1
  <2>2. CASE f # 0
    <3> DEFINE d == b - a
    <3>1. d \in Nat /\ f \in 0..19 /\ b = a + d
      BY <1>2, <1>4, <1>5, <2>2
    <3> HIDE DEF d
    <3>2. d * f \in Nat /\ d * f <= 20 * d
      BY <3>1, SMT
    <3>3. p = 20 * a + d * f
      BY <1>3, <2>2 DEF d
    <3>4. QED
      BY <1>4, <3>1, <3>2, <3>3
  <2>3. QED
    BY <2>1, <2>2
<1>7. Cardinality(B) \in Nat /\ Cardinality(B) >= k
  <2>1. UpTo(values, a) \in SUBSET B /\ B \in SUBSET (1..n)
    BY <1>4, <1>6 DEF UpTo
  <2>2. IsFiniteSet(B) /\ Cardinality(B) \in Nat
    BY <1>4, <2>1, CountsAreFinite, FS_Subset, FS_CardinalityType
  <2>3. Cardinality(UpTo(values, a)) <= Cardinality(B)
    BY <2>1, <2>2, FS_Subset
  <2>4. Cardinality(UpTo(values, a)) \in Nat
    BY <1>4, CountsAreFinite
  <2>5. QED
    BY <1>2, <1>4, <2>2, <2>3, <2>4
<1>8. /\ Cardinality(A) \in Nat
      /\ Cardinality(A) >= n - (k - 1) - (IF f = 0 THEN 0 ELSE 1)
  <2>1. A \subseteq 1..n
    OBVIOUS
  <2>2. CASE f = 0
    <3>1. {i \in 1..n : values[i] >= a} \subseteq A
      BY <1>3, <1>4, <2>2
    <3>2. /\ Cardinality(A) \in Nat
          /\ Cardinality(A) + Cardinality(Under(values, a)) >= n
      BY <1>4, <2>1, <3>1, CountFromAbove
    <3>3. Cardinality(Under(values, a)) \in Nat
      BY <1>4, CountsAreFinite
    <3>4. QED
      BY <1>2, <1>4, <2>2, <3>2, <3>3
  <2>3. CASE f # 0
    <3>1. {i \in 1..n : values[i] >= b} \subseteq A
      BY <1>5, <1>6, <2>3
    <3>2. /\ Cardinality(A) \in Nat
          /\ Cardinality(A) + Cardinality(Under(values, b)) >= n
      BY <1>5, <2>1, <2>3, <3>1, CountFromAbove
    <3>3. Cardinality(Under(values, b)) \in Nat
      BY <1>5, <2>3, CountsAreFinite
    <3>4. QED
      BY <1>2, <1>5, <2>3, <3>2, <3>3
  <2>4. QED
    BY <2>2, <2>3
<1> HIDE DEF A, B
<1>9. k - 1 \in Nat /\ f \in 0..19 /\ (n - 1) * q = 20 * (k - 1) + f
  <2>1. position = 20 * (position \div 20) + (position % 20)
    BY <1>1
  <2>2. k - 1 = position \div 20 /\ f = position % 20
    BY <1>1 DEF k, f
  <2>3. position = (n - 1) * q
    BY DEF position
  <2>4. QED
    BY <1>2, <2>1, <2>2, <2>3
<1>10. Cardinality(B) >= (k - 1) + 1
  BY <1>2, <1>7
<1>11. QED
  BY <1>6, <1>7, <1>8, <1>9, <1>10 DEF p, A, B

-----------------------------------------------------------------------------
(* The invariant *)

Outcomes == [latency : Latencies, success : BOOLEAN, hit : BOOLEAN \cup {None}]
Results == [total : Nat, failed : Nat, p50 : Nat, p95 : Nat, unexpected : Nat]

Typed ==
    /\ stage \in {"warming", "measuring", "done", "aborted"}
    /\ case \in 1..CaseCount
    /\ warm \in Nat
    /\ outcomes \in Seq(Outcomes)
    /\ results \in Seq(Results)

\* The payloads that have been taken are the first ones; Busy workers hold theirs.
Taken == RequestCount - Len(queue)
Busy == {w \in DOMAIN job : job[w] # 0}

\* While a case is measured its payloads are accounted for: in the queue, with a
\* worker, or turned into an outcome.
Draining ==
    /\ queue \in Seq(Nat) /\ Len(queue) <= RequestCount
    /\ \A i \in 1..Len(queue) : queue[i] = Taken + i
    /\ asked = [i \in 1..RequestCount |-> IF i <= Taken THEN 1 ELSE 0]
    /\ job \in [Workers(case) -> 0..Taken]
    /\ found \in [Workers(case) -> BOOLEAN \cup {None}]
    /\ \A v, w \in Busy : job[v] = job[w] => v = w
    /\ Len(outcomes) + Cardinality(Busy) = Taken
    /\ queue # <<>> => Busy = Workers(case)

\* Once it has been summarized, the result is that of its outcomes.
Summarized ==
    LET result == results[Len(results)] IN
    /\ Len(outcomes) = RequestCount
    /\ asked = [i \in 1..RequestCount |-> 1]
    /\ result.total = Len(outcomes)
    /\ result.p50 = Percentile(LatenciesOf(outcomes), 10)
    /\ result.p95 = Percentile(LatenciesOf(outcomes), 19)

CountInv ==
    /\ Typed
    /\ stage = "measuring" => Draining
    /\ stage \in {"warming", "done"} /\ results # <<>> => Summarized

Disturbed == events \cap {"failed", "misserved"} # {}
Invalidated == \E i \in DOMAIN results : Invalid(results[i])
Spoilt == Failures(outcomes) \cup Surprises(case, outcomes) # {}

\* What has gone wrong with a measured request shows in a result, or will show in
\* the result of the case under way.
TruthInv ==
    /\ stage # "aborted" =>
          (Disturbed <=> Invalidated \/ (stage = "measuring" /\ Spoilt))
    /\ exit = IF stage # "done" THEN None ELSE IF Invalidated THEN 1 ELSE 0

Cached(n) == Case(n).scenario = "cached"

\* The gateway has answered payload j of a case and nobody is at it any more.
Finished(n, j) ==
    \/ n < case
    \/ n = case /\ stage # "warming" /\ j <= Taken /\ \A w \in DOMAIN job : job[w] # j

\* As long as nothing is disturbed, the gateway's cache holds the prompt of a case
\* about cached answers from its first warm-up on, and a prompt of the others only
\* once it has answered it: so every request is served as its scenario names.
QuietInv ==
    "trouble" \notin events =>
        /\ stage # "aborted"
        /\ events = {}
        /\ Cached(case) /\ (warm > 0 \/ stage = "measuring") => <<case>> \in held
        /\ stage = "measuring" => \A w \in Workers(case) : found[w] \in {None, Cached(case)}
        /\ \A n \in 1..CaseCount, j \in 1..RequestCount :
              <<n, "measured", j>> \in held => Finished(n, j)

-----------------------------------------------------------------------------
(* Every payload is measured once *)

\* Every case has workers, and no more of them than requests.
LEMMA WorkersOfCase ==
    ASSUME NEW n \in 1..CaseCount
    PROVE  \E s \in 1..RequestCount :
              Workers(n) = 1..s /\ Cardinality(Workers(n)) = s /\ IsFiniteSet(Workers(n))
<1> DEFINE m == Len(Scenarios)
           l == ((n - 1) \div m) + 1
           s == Smaller(Levels[l], RequestCount)
<1>1. m \in {1, 2} /\ Len(Levels) \in Nat /\ n \in 1..(Len(Levels) * m)
  BY BenchmarkAssumption DEF CaseCount
<1>2. l \in 1..Len(Levels)
  <2>1. CASE m = 1
    BY <1>1, <2>1
  <2>2. CASE m = 2
    BY <1>1, <2>2
  <2>3. QED
    BY <1>1, <2>1, <2>2
<1>3. Levels[l] \in Nat \ {0}
  <2>1. Levels \in Seq(Nat \ {0})
    BY BenchmarkAssumption
  <2> HIDE DEF l
  <2>2. QED
    BY <1>2, <2>1
<1>4. s \in 1..RequestCount /\ Workers(n) = 1..s
  BY <1>3, BenchmarkAssumption DEF Smaller, Workers, Case
<1> HIDE DEF s
<1>5. Cardinality(1..s) = s /\ IsFiniteSet(1..s)
  BY <1>4, FS_Interval
<1>6. QED
  BY <1>4, <1>5

LEMMA CountInit == Init => CountInv
<1> SUFFICES ASSUME Init PROVE CountInv
  OBVIOUS
<1>1. 1 \in 1..CaseCount
  <2>1. Len(Levels) \in Nat \ {0} /\ Len(Scenarios) \in {1, 2}
    BY BenchmarkAssumption
  <2>2. CaseCount \in Nat \ {0}
    BY <2>1 DEF CaseCount
  <2>3. QED
    BY <2>2
<1>2. QED
  BY <1>1 DEF Init, CountInv, Typed

LEMMA BeginDrains ==
    ASSUME Typed, Begin
    PROVE  Typed' /\ Draining'
<1>1. PICK s \in 1..RequestCount :
          Workers(case) = 1..s /\ Cardinality(Workers(case)) = s
  BY WorkersOfCase DEF Typed
<1>2. /\ stage' = "measuring" /\ case' = case /\ warm' = warm /\ results' = results
      /\ outcomes' = <<>>
      /\ queue' = [i \in 1..(RequestCount - s) |-> s + i]
      /\ job' = [w \in 1..s |-> w]
      /\ found' = [w \in 1..s |-> None]
      /\ asked' = [i \in 1..RequestCount |-> IF i \in 1..s THEN 1 ELSE 0]
  BY <1>1 DEF Begin
<1>3. RequestCount \in Nat /\ s \in Nat /\ RequestCount - s \in Nat /\ s >= 1
  BY BenchmarkAssumption
<1>4. queue' \in Seq(Nat) /\ Len(queue') = RequestCount - s
  BY <1>2, <1>3
<1>5. Taken' = s
  BY <1>3, <1>4 DEF Taken
<1>6. Workers(case)' = 1..s
  BY <1>1, <1>2 DEF Workers, Case
<1>7. Busy' = 1..s /\ Cardinality(Busy') = s
  <2>1. DOMAIN job' = 1..s /\ \A w \in 1..s : job'[w] = w /\ w # 0
    BY <1>2, <1>3
  <2>2. Busy' = 1..s
    BY <2>1 DEF Busy
  <2>3. QED
    BY <1>1, <2>2
<1>8. Typed'
  BY <1>2 DEF Typed
<1>9. asked' = [i \in 1..RequestCount |-> IF i <= Taken' THEN 1 ELSE 0]
  BY <1>2, <1>3, <1>5
<1>10. Len(outcomes') + Cardinality(Busy') = Taken'
  BY <1>2, <1>3, <1>5, <1>7
<1>11. /\ \A i \in 1..Len(queue') : queue'[i] = Taken' + i
       /\ Len(queue') <= RequestCount
  BY <1>2, <1>3, <1>4, <1>5
<1>12. job' \in [1..s -> 0..Taken']
  BY <1>2, <1>3, <1>5
<1>13. QED
  BY <1>2, <1>4, <1>6, <1>7, <1>8, <1>9, <1>10, <1>11, <1>12 DEF Draining

\* A worker that hands in an outcome takes the first payload of the queue, or stops.
LEMMA AdvanceDrains ==
    ASSUME Typed, Draining, NEW w, Waiting(w), NEW o \in Outcomes, Advance(w, o)
    PROVE  Typed' /\ Draining'
<1>1. PICK s \in 1..RequestCount :
          Workers(case) = 1..s /\ IsFiniteSet(Workers(case))
  BY WorkersOfCase DEF Typed
<1>2. /\ RequestCount \in Nat /\ Len(queue) \in Nat /\ Taken \in Nat
      /\ Taken <= RequestCount
  <2>1. queue \in Seq(Nat) /\ Len(queue) <= RequestCount
    BY DEF Draining
  <2>2. RequestCount \in Nat /\ Len(queue) \in Nat
    BY <2>1, BenchmarkAssumption
  <2>3. QED
    BY <2>1, <2>2 DEF Taken
<1>3. /\ stage' = stage /\ case' = case /\ warm' = warm /\ results' = results
      /\ outcomes' = Append(outcomes, o)
      /\ found' = [found EXCEPT ![w] = None]
      /\ w \in Workers(case) /\ w \in Busy
      /\ Workers(case)' = Workers(case)
  BY DEF Advance, Waiting, Draining, Busy, Workers, Case
<1>4. Typed' /\ Len(outcomes') = Len(outcomes) + 1 /\ Len(outcomes) \in Nat
  BY <1>3 DEF Typed
<1>5. found' \in [Workers(case)' -> BOOLEAN \cup {None}]
  BY <1>3 DEF Draining
<1>6. IsFiniteSet(Busy) /\ Cardinality(Busy) \in Nat
  <2>1. Busy \in SUBSET Workers(case)
    BY DEF Busy, Draining
  <2>2. QED
    BY <1>1, <2>1, FS_Subset, FS_CardinalityType
<1>7. CASE queue = <<>>
  <2>1. job' = [job EXCEPT ![w] = 0] /\ queue' = queue /\ asked' = asked /\ Taken' = Taken
    BY <1>7 DEF Advance, Taken
  <2>2. Busy' = Busy \ {w}
    BY <1>3, <2>1 DEF Busy, Draining
  <2>3. Cardinality(Busy') = Cardinality(Busy) - 1
    BY <1>3, <1>6, <2>2, FS_RemoveElement
  <2>4. Len(outcomes') + Cardinality(Busy') = Taken'
    BY <1>4, <1>6, <2>1, <2>3 DEF Draining
  <2>5. job' \in [Workers(case)' -> 0..Taken']
    <3>1. job \in [Workers(case) -> 0..Taken] /\ 0 \in 0..Taken
      BY <1>2 DEF Draining
    <3>2. [job EXCEPT ![w] = 0] \in [Workers(case) -> 0..Taken]
      BY <3>1, Zenon
    <3>3. QED
      BY <1>3, <2>1, <3>2
  <2>6. \A u, v \in Busy' : job'[u] = job'[v] => u = v
    BY <2>1, <2>2 DEF Draining, Busy
  <2>7. QED
    BY <1>3, <1>4, <1>5, <1>7, <2>1, <2>4, <2>5, <2>6 DEF Draining
<1>8. CASE queue # <<>>
  <2>1. /\ job' = [job EXCEPT ![w] = Head(queue)] /\ queue' = Tail(queue)
        /\ asked' = [asked EXCEPT ![Head(queue)] = @ + 1]
    BY <1>8 DEF Advance
  <2>2. /\ queue' \in Seq(Nat) /\ Len(queue') = Len(queue) - 1 /\ Len(queue) >= 1
        /\ Head(queue) = queue[1]
        /\ \A i \in 1..Len(queue') : queue'[i] = queue[i + 1]
    BY <1>8, <2>1 DEF Draining
  <2>3. Head(queue) = Taken + 1 /\ Taken' = Taken + 1 /\ Taken + 1 <= RequestCount
    BY <1>2, <2>2 DEF Draining, Taken
  <2>4. \A i \in 1..Len(queue') : queue'[i] = Taken' + i
    BY <1>2, <2>2, <2>3 DEF Draining
  <2>5. asked' = [i \in 1..RequestCount |-> IF i <= Taken' THEN 1 ELSE 0]
    <3>1. asked = [i \in 1..RequestCount |-> IF i <= Taken THEN 1 ELSE 0]
      BY DEF Draining
    <3>2. asked' = [asked EXCEPT ![Taken + 1] = @ + 1]
      BY <2>1, <2>3
    <3>3. Taken + 1 \in 1..RequestCount /\ ~(Taken + 1 <= Taken)
      BY <1>2, <2>3
    <3>4. asked' = [asked EXCEPT ![Taken + 1] = 1]
      BY <3>1, <3>2, <3>3
    <3>5. QED
      BY <1>2, <2>3, <3>1, <3>3, <3>4
  <2>6. job' \in [Workers(case)' -> 0..Taken']
    <3>1. job \in [Workers(case) -> 0..Taken]
      BY DEF Draining
    <3>2. Head(queue) \in 0..Taken' /\ 0..Taken \subseteq 0..Taken'
      BY <1>2, <2>3
    <3>3. job \in [Workers(case) -> 0..Taken']
      BY <3>1, <3>2
    <3>4. [job EXCEPT ![w] = Head(queue)] \in [Workers(case) -> 0..Taken']
      BY <3>2, <3>3, Zenon
    <3>5. QED
      BY <1>3, <2>1, <3>4
  <2>7. Busy = Workers(case) /\ Busy' = Busy
    BY <1>2, <1>3, <1>8, <2>1, <2>3 DEF Draining, Busy
  <2>8. Len(outcomes') + Cardinality(Busy') = Taken'
    BY <1>2, <1>4, <1>6, <2>3, <2>7 DEF Draining
  <2>9. \A u, v \in Busy' : job'[u] = job'[v] => u = v
    <3>1. \A u \in Busy : job[u] <= Taken /\ job[u] \in Nat
      BY <1>2 DEF Draining, Busy
    <3>2. \A u \in Busy : job'[u] = IF u = w THEN Taken + 1 ELSE job[u]
      BY <2>1, <2>3, <2>7 DEF Draining
    <3>3. QED
      BY <1>2, <2>7, <3>1, <3>2 DEF Draining
  <2>10. Len(queue') <= RequestCount
    BY <1>2, <2>2 DEF Draining
  <2>11. QED
    BY <1>3, <1>4, <1>5, <2>2, <2>4, <2>5, <2>6, <2>7, <2>8, <2>9, <2>10 DEF Draining
<1>9. QED
  BY <1>7, <1>8

\* The latencies of some outcomes, and the numbers of those that failed or surprised.
LEMMA OutcomesCount ==
    ASSUME NEW os \in Seq(Outcomes), NEW n
    PROVE  /\ LatenciesOf(os) \in [1..Len(os) -> Nat] /\ Len(LatenciesOf(os)) = Len(os)
           /\ \A i \in 1..Len(os) : LatenciesOf(os)[i] = os[i].latency
           /\ IsFiniteSet(Failures(os)) /\ Cardinality(Failures(os)) \in Nat
           /\ IsFiniteSet(Surprises(n, os)) /\ Cardinality(Surprises(n, os)) \in Nat
<1>1. Len(os) \in Nat /\ DOMAIN os = 1..Len(os)
  OBVIOUS
<1>2. \A i \in 1..Len(os) : os[i].latency \in Nat
  <2>1. \A i \in 1..Len(os) : os[i] \in Outcomes
    BY <1>1
  <2>2. \A o \in Outcomes : o.latency \in Nat
    BY BenchmarkAssumption DEF Outcomes
  <2>3. QED
    BY <2>1, <2>2
<1>3. LatenciesOf(os) = [i \in 1..Len(os) |-> os[i].latency]
  BY <1>1 DEF LatenciesOf
<1>4. LatenciesOf(os) \in [1..Len(os) -> Nat]
  BY <1>2, <1>3
<1>5. Len(LatenciesOf(os)) = Len(os)
  BY <1>1, <1>3, <1>4
<1>6. /\ Failures(os) \in SUBSET (1..Len(os))
      /\ Surprises(n, os) \in SUBSET (1..Len(os))
  BY <1>1 DEF Failures, Surprises
<1>7. IsFiniteSet(1..Len(os))
  BY <1>1, FS_Interval
<1>8. QED
  BY <1>3, <1>4, <1>5, <1>6, <1>7, FS_Subset, FS_CardinalityType

\* When every worker has returned the queue is empty, and each payload has become
\* one outcome.
LEMMA DrainedWhenStopped ==
    ASSUME Typed, Draining, Stopped
    PROVE  /\ Len(outcomes) = RequestCount
           /\ asked = [i \in 1..RequestCount |-> 1]
<1>1. Busy = {}
  BY DEF Stopped, Busy
<1>2. Cardinality(Busy) = 0
  BY <1>1, FS_EmptySet
<1>3. Workers(case) # {}
  <2>1. PICK s \in 1..RequestCount : Workers(case) = 1..s
    BY WorkersOfCase DEF Typed
  <2>2. 1 \in 1..s
    OBVIOUS
  <2>3. QED
    BY <2>1, <2>2
<1>4. queue = <<>>
  BY <1>1, <1>3 DEF Draining
<1>5. Taken = RequestCount /\ RequestCount \in Nat
  BY <1>4, BenchmarkAssumption DEF Taken
<1>6. Len(outcomes) = RequestCount
  BY <1>2, <1>5 DEF Draining, Typed
<1>7. asked = [i \in 1..RequestCount |-> 1]
  <2>1. asked = [i \in 1..RequestCount |-> IF i <= RequestCount THEN 1 ELSE 0]
    BY <1>5 DEF Draining
  <2>2. \A i \in 1..RequestCount : i <= RequestCount
    BY <1>5
  <2>3. QED
    BY <2>1, <2>2
<1>8. QED
  BY <1>6, <1>7

LEMMA SummaryType ==
    ASSUME NEW os \in Seq(Outcomes), Len(os) # 0, NEW n
    PROVE  Summarize(n, os) \in Results
<1>1. Len(os) \in Nat \ {0}
  OBVIOUS
<1>2. /\ Percentile(LatenciesOf(os), 10) \in Nat
      /\ Percentile(LatenciesOf(os), 19) \in Nat
  <2> DEFINE L == Len(os)
             values == LatenciesOf(os)
  <2>1. values \in [1..L -> Nat] /\ Len(values) = L /\ L \in Nat \ {0}
    BY <1>1, OutcomesCount
  <2> HIDE DEF L, values
  <2>2. \A q \in 0..20 : Percentile(values, q) \in Nat
    BY <2>1, PercentileSplits
  <2>3. QED
    BY <2>2 DEF values
<1>3. Cardinality(Failures(os)) \in Nat /\ Cardinality(Surprises(n, os)) \in Nat
  BY OutcomesCount
<1>4. QED
  BY <1>1, <1>2, <1>3 DEF Summarize, Results

LEMMA ConcludeSummarizes ==
    ASSUME Typed, Draining, Conclude
    PROVE  Typed' /\ Summarized' /\ stage' \in {"warming", "done"}
<1>1. /\ Len(outcomes) = RequestCount /\ RequestCount \in Nat \ {0}
      /\ asked = [i \in 1..RequestCount |-> 1]
  BY DrainedWhenStopped, BenchmarkAssumption DEF Conclude
<1>2. Summarize(case, outcomes) \in Results
  BY <1>1, SummaryType DEF Typed
<1>3. /\ results' = Append(results, Summarize(case, outcomes))
      /\ outcomes' = outcomes /\ asked' = asked
      /\ stage' \in {"warming", "done"}
      /\ \/ case < CaseCount /\ case' = case + 1 /\ warm' = 0
         \/ case' = case /\ warm' = warm
  BY DEF Conclude
<1>4. results' \in Seq(Results) /\ results'[Len(results')] = Summarize(case, outcomes)
  BY <1>2, <1>3 DEF Typed
<1>5. case' \in 1..CaseCount
  <2>1. Len(Levels) \in Nat /\ Len(Scenarios) \in {1, 2}
    BY BenchmarkAssumption
  <2>2. CaseCount \in Nat
    BY <2>1 DEF CaseCount
  <2>3. QED
    BY <1>3, <2>2 DEF Typed
<1>6. Typed'
  BY <1>3, <1>4, <1>5 DEF Typed
<1>7. Summarized'
  BY <1>1, <1>3, <1>4 DEF Summarized, Summarize
<1>8. QED
  BY <1>3, <1>6, <1>7

LEMMA CountNext == CountInv /\ [Next]_vars => CountInv'
<1> SUFFICES ASSUME CountInv, [Next]_vars PROVE CountInv'
  OBVIOUS
<1>0. Typed
  BY DEF CountInv
<1>1. CASE WarmUp
  <2>1. Typed' /\ stage' = "warming" /\ stage = "warming"
        /\ UNCHANGED <<outcomes, results, asked>>
    BY <1>0, <1>1 DEF WarmUp, Typed
  <2>2. QED
    BY <2>1 DEF CountInv, Summarized
<1>2. ASSUME WarmUpFails \/ \E w \in DOMAIN job : Crash(w)
      PROVE  CountInv'
  <2>1. stage' = "aborted" /\ UNCHANGED <<case, warm, outcomes, results>>
    BY <1>2 DEF WarmUpFails, Crash
  <2>2. QED
    BY <1>0, <2>1 DEF CountInv, Typed
<1>3. CASE Begin
  <2>1. stage' = "measuring"
    BY <1>3 DEF Begin
  <2>2. QED
    BY <1>0, <1>3, <2>1, BeginDrains DEF CountInv
<1>4. CASE Conclude
  <2>1. Draining
    BY <1>4 DEF CountInv, Conclude
  <2>2. QED
    BY <1>0, <1>4, <2>1, ConcludeSummarizes DEF CountInv
<1>5. ASSUME NEW w \in DOMAIN job, Lookup(w)
      PROVE  CountInv'
  <2>1. Draining /\ stage' = "measuring"
    BY <1>5 DEF CountInv, Lookup, Waiting
  <2>2. /\ UNCHANGED <<stage, case, warm, queue, job, outcomes, results, asked>>
        /\ found' = [found EXCEPT ![w] = Prompt(case, "measured", job[w]) \in held]
    BY <1>5 DEF Lookup
  <2>3. Taken' = Taken /\ Busy' = Busy /\ Workers(case)' = Workers(case)
    BY <2>2 DEF Taken, Busy, Workers, Case
  <2>4. found' \in [Workers(case)' -> BOOLEAN \cup {None}]
    BY <2>1, <2>2, <2>3 DEF Draining
  <2>5. Draining'
    BY <2>1, <2>2, <2>3, <2>4 DEF Draining
  <2>6. Typed'
    BY <1>0, <2>2 DEF Typed
  <2>7. QED
    BY <2>1, <2>5, <2>6 DEF CountInv
<1>6. ASSUME NEW w \in DOMAIN job, NEW l \in Latencies, Succeed(w, l) \/ Fail(w, l)
      PROVE  CountInv'
  <2>1. Waiting(w) /\ Draining
    BY <1>6 DEF CountInv, Succeed, Fail, Waiting
  <2>2. found[w] \in BOOLEAN \cup {None}
    BY <2>1 DEF Draining, Waiting
  <2>3. PICK o \in Outcomes : Advance(w, o)
    <3>1. CASE Succeed(w, l)
      BY <2>2, <3>1 DEF Succeed, Outcomes
    <3>2. CASE Fail(w, l)
      BY <3>2 DEF Fail, Outcomes
    <3>3. QED
      BY <1>6, <3>1, <3>2
  <2>4. Typed' /\ Draining'
    BY <1>0, <2>1, <2>3, AdvanceDrains
  <2>5. stage' = "measuring"
    BY <2>1, <2>3 DEF Advance, Waiting
  <2>6. QED
    BY <2>4, <2>5 DEF CountInv
<1>7. CASE (\E p \in held : Evict(p)) \/ UNCHANGED vars
  <2>1. UNCHANGED <<stage, case, warm, queue, job, found, outcomes, results, asked>>
    BY <1>7 DEF Evict, vars
  <2>2. Taken' = Taken /\ Busy' = Busy /\ Workers(case)' = Workers(case)
    BY <2>1 DEF Taken, Busy, Workers, Case
  <2>3. Typed' /\ (Draining => Draining') /\ (Summarized => Summarized')
    BY <1>0, <2>1, <2>2 DEF Typed, Draining, Summarized
  <2>4. QED
    BY <2>1, <2>3 DEF CountInv
<1>8. QED
  BY <1>1, <1>2, <1>3, <1>4, <1>5, <1>6, <1>7 DEF Next, Handle

LEMMA CountAlways == Spec => []CountInv
BY CountInit, CountNext, PTL DEF Spec

LEMMA CountImplies == CountInv => ResultsAddUp
<1> SUFFICES ASSUME CountInv, stage \in {"warming", "done"}, results # <<>>
             PROVE  LET result == results[Len(results)]
                        below(v) == Cardinality({i \in DOMAIN outcomes : 20 * outcomes[i].latency <= v})
                        above(v) == Cardinality({i \in DOMAIN outcomes : 20 * outcomes[i].latency >= v})
                    IN /\ result.total = RequestCount
                       /\ \A i \in 1..RequestCount : asked[i] = 1
                       /\ 2 * below(result.p50) >= RequestCount
                       /\ 2 * above(result.p50) >= RequestCount
                       /\ 20 * below(result.p95) >= 19 * (RequestCount - 1)
                       /\ above(result.p95) >= 1
  BY DEF ResultsAddUp
<1> DEFINE n == RequestCount
           values == LatenciesOf(outcomes)
           below(v) == Cardinality({i \in DOMAIN outcomes : 20 * outcomes[i].latency <= v})
           above(v) == Cardinality({i \in DOMAIN outcomes : 20 * outcomes[i].latency >= v})
           B(v) == Cardinality({i \in 1..n : 20 * values[i] <= v})
           A(v) == Cardinality({i \in 1..n : 20 * values[i] >= v})
<1>1. Typed /\ Summarized
  BY DEF CountInv
<1>2. /\ n \in Nat \ {0} /\ Len(outcomes) = n /\ outcomes \in Seq(Outcomes)
  BY <1>1, BenchmarkAssumption DEF Typed, Summarized
<1>3. /\ values \in [1..n -> Nat] /\ Len(values) = n
      /\ DOMAIN outcomes = 1..n
      /\ \A i \in 1..n : values[i] = outcomes[i].latency
  BY <1>2, OutcomesCount
<1>4. \A v : below(v) = B(v) /\ above(v) = A(v)
  BY <1>3
<1>5. /\ results[Len(results)].total = n
      /\ results[Len(results)].p50 = Percentile(values, 10)
      /\ results[Len(results)].p95 = Percentile(values, 19)
      /\ \A i \in 1..n : asked[i] = 1
  BY <1>1 DEF Summarized
<1> HIDE DEF values, n, below, above
<1>6. \A q \in 0..20 : LET p == Percentile(values, q) IN
         /\ B(p) \in Nat /\ A(p) \in Nat
         /\ \E k \in Nat, f \in 0..19 :
               /\ (n - 1) * q = 20 * k + f
               /\ B(p) >= k + 1
               /\ A(p) >= n - k - (IF f = 0 THEN 0 ELSE 1)
  BY <1>2, <1>3, PercentileSplits
<1> HIDE DEF A, B
<1>7. /\ 2 * B(Percentile(values, 10)) >= n
      /\ 2 * A(Percentile(values, 10)) >= n
  <2> DEFINE b == B(Percentile(values, 10))
             a == A(Percentile(values, 10))
  <2>1. 10 \in 0..20 /\ b \in Nat /\ a \in Nat
    BY <1>6
  <2>2. PICK k \in Nat, f \in 0..19 :
            /\ (n - 1) * 10 = 20 * k + f
            /\ b >= k + 1
            /\ a >= n - k - (IF f = 0 THEN 0 ELSE 1)
    BY <1>6, <2>1
  <2> HIDE DEF a, b
  <2>3. 2 * b >= n /\ 2 * a >= n
    BY <1>2, <2>1, <2>2
  <2>4. QED
    BY <2>3 DEF a, b
<1>8. /\ 20 * B(Percentile(values, 19)) >= 19 * (n - 1)
      /\ A(Percentile(values, 19)) >= 1
  <2> DEFINE b == B(Percentile(values, 19))
             a == A(Percentile(values, 19))
  <2>1. 19 \in 0..20 /\ b \in Nat /\ a \in Nat
    BY <1>6
  <2>2. PICK k \in Nat, f \in 0..19 :
            /\ (n - 1) * 19 = 20 * k + f
            /\ b >= k + 1
            /\ a >= n - k - (IF f = 0 THEN 0 ELSE 1)
    BY <1>6, <2>1
  <2> HIDE DEF a, b
  <2>3. 20 * b >= 19 * (n - 1) /\ a >= 1
    BY <1>2, <2>1, <2>2
  <2>4. QED
    BY <2>3 DEF a, b
<1>9. QED
  BY <1>4, <1>5, <1>7, <1>8 DEF n, below, above

\* However the workers interleave and whatever fails, every payload of a finished
\* case was measured once, and its percentiles split what was measured.
THEOREM ResultsAreRight == Spec => []ResultsAddUp
BY CountAlways, CountImplies, PTL

-----------------------------------------------------------------------------
(* The exit code *)

\* Something fails or surprises in a result if and only if it did in its outcomes.
LEMMA InvalidWhenSpoilt ==
    ASSUME NEW os \in Seq(Outcomes), NEW n
    PROVE  Invalid(Summarize(n, os)) <=> Failures(os) \cup Surprises(n, os) # {}
<1> DEFINE F == Failures(os)
           S == Surprises(n, os)
<1>1. /\ IsFiniteSet(F) /\ Cardinality(F) \in Nat
      /\ IsFiniteSet(S) /\ Cardinality(S) \in Nat
  BY OutcomesCount
<1>2. /\ Summarize(n, os).failed = Cardinality(F)
      /\ Summarize(n, os).unexpected = Cardinality(S)
  BY DEF Summarize
<1> HIDE DEF F, S
<1>3. (Cardinality(F) = 0 <=> F = {}) /\ (Cardinality(S) = 0 <=> S = {})
  BY <1>1, FS_EmptySet
<1>4. Invalid(Summarize(n, os)) <=> Cardinality(F) # 0 \/ Cardinality(S) # 0
  BY <1>1, <1>2 DEF Invalid
<1>5. QED
  BY <1>3, <1>4 DEF F, S

\* An outcome spoils a case that was not spoilt before if and only if it failed or
\* was not served as the scenario names.
LEMMA OutcomeSpoils ==
    ASSUME NEW os \in Seq(Outcomes), NEW o \in Outcomes, NEW n
    PROVE  Failures(Append(os, o)) \cup Surprises(n, Append(os, o)) # {}
              <=> \/ Failures(os) \cup Surprises(n, os) # {}
                  \/ ~o.success \/ o.hit # Cached(n)
<1> DEFINE L == Len(os)
           More == Append(os, o)
           Bad(x) == ~x.success \/ (x.success /\ x.hit # Cached(n))
<1>1. /\ L \in Nat /\ DOMAIN os = 1..L /\ DOMAIN More = 1..(L + 1)
      /\ \A i \in 1..L : More[i] = os[i]
      /\ More[L + 1] = o
  OBVIOUS
<1> HIDE DEF More, L
<1>2. Failures(os) \cup Surprises(n, os) = {i \in 1..L : Bad(os[i])}
  BY <1>1 DEF Failures, Surprises, Cached
<1>3. Failures(More) \cup Surprises(n, More) = {i \in 1..(L + 1) : Bad(More[i])}
  BY <1>1 DEF Failures, Surprises, Cached
<1>4. Bad(o) <=> ~o.success \/ o.hit # Cached(n)
  BY Zenon
<1> HIDE DEF Bad
<1>5. (\E i \in 1..(L + 1) : Bad(More[i])) <=> (\E i \in 1..L : Bad(os[i])) \/ Bad(o)
  <2>1. \A i \in 1..(L + 1) : i \in 1..L \/ i = L + 1
    BY <1>1
  <2>2. 1..L \subseteq 1..(L + 1) /\ L + 1 \in 1..(L + 1)
    BY <1>1
  <2>3. QED
    BY <1>1, <2>1, <2>2, Zenon
<1>6. QED
  BY <1>2, <1>3, <1>4, <1>5 DEF More

LEMMA TruthInit == Init => TruthInv
BY DEF Init, TruthInv, Disturbed, Invalidated

\* The only steps that tell an outcome: what it adds to the events shows in it.
LEMMA OutcomeTellsTruth ==
    ASSUME CountInv, TruthInv, NEW w, NEW l \in Latencies, Succeed(w, l) \/ Fail(w, l)
    PROVE  TruthInv'
<1>1. Waiting(w) /\ Draining /\ outcomes \in Seq(Outcomes)
  BY DEF CountInv, Typed, Succeed, Fail, Waiting
<1>2. found[w] \in BOOLEAN \cup {None}
  BY <1>1 DEF Draining, Waiting
<1>3. PICK o \in Outcomes :
          /\ Advance(w, o)
          /\ Disturbed' <=> Disturbed \/ ~o.success \/ o.hit # Cached(case)
  <2>1. CASE Succeed(w, l)
    <3>1. [latency |-> l, success |-> TRUE, hit |-> found[w]] \in Outcomes
      BY <1>2 DEF Outcomes
    <3>2. Disturbed' <=> Disturbed \/ found[w] # Cached(case)
      BY <2>1 DEF Succeed, Disturbed, Cached
    <3>3. QED
      BY <2>1, <3>1, <3>2 DEF Succeed
  <2>2. CASE Fail(w, l)
    <3>1. [latency |-> l, success |-> FALSE, hit |-> None] \in Outcomes
      BY DEF Outcomes
    <3>2. Disturbed'
      BY <2>2 DEF Fail, Disturbed
    <3>3. QED
      BY <2>2, <3>1, <3>2 DEF Fail
  <2>3. QED
    BY <2>1, <2>2
<1>4. /\ stage' = stage /\ case' = case /\ results' = results /\ exit' = exit
      /\ outcomes' = Append(outcomes, o)
      /\ stage = "measuring"
  BY <1>1, <1>3 DEF Advance, Waiting
<1>5. Spoilt' <=> Spoilt \/ ~o.success \/ o.hit # Cached(case)
  <2>1. Spoilt' <=> Failures(outcomes') \cup Surprises(case, outcomes') # {}
    BY <1>4 DEF Spoilt, Surprises, Case
  <2>2. QED
    BY <1>1, <1>4, <2>1, OutcomeSpoils DEF Spoilt
<1>6. Invalidated' = Invalidated
  BY <1>4 DEF Invalidated, Invalid
<1>7. QED
  BY <1>3, <1>4, <1>5, <1>6 DEF TruthInv

LEMMA ConcludeTellsTruth ==
    ASSUME CountInv, TruthInv, Conclude
    PROVE  TruthInv'
<1> DEFINE new == Summarize(case, outcomes)
<1>1. /\ stage = "measuring" /\ results' = Append(results, new) /\ events' = events
      /\ stage' \in {"warming", "done"}
      /\ stage' = "warming" => exit' = exit
      /\ stage' = "done" =>
            exit' = IF \E i \in DOMAIN results' : Invalid(results'[i]) THEN 1 ELSE 0
  BY DEF Conclude
<1>2. outcomes \in Seq(Outcomes) /\ results \in Seq(Results)
  BY DEF CountInv, Typed
<1>3. Draining /\ Stopped /\ Typed
  BY <1>1 DEF CountInv, Conclude
<1>4. new \in Results
  <2>1. Len(outcomes) # 0
    BY <1>3, DrainedWhenStopped, BenchmarkAssumption
  <2>2. QED
    BY <1>2, <2>1, SummaryType
<1>5. Invalid(new) <=> Spoilt
  BY <1>2, InvalidWhenSpoilt DEF Spoilt
<1> HIDE DEF new
<1>6. Invalidated' <=> Invalidated \/ Invalid(new)
  <2> DEFINE L == Len(results)
  <2>1. /\ L \in Nat /\ DOMAIN results = 1..L /\ DOMAIN results' = 1..(L + 1)
        /\ \A i \in 1..L : results'[i] = results[i]
        /\ results'[L + 1] = new
    BY <1>1, <1>2, <1>4
  <2> HIDE DEF L
  <2>2. /\ \A i \in 1..(L + 1) : i \in 1..L \/ i = L + 1
        /\ 1..L \subseteq 1..(L + 1) /\ L + 1 \in 1..(L + 1)
    BY <2>1
  <2>3. Invalidated' <=> \E i \in DOMAIN results' : Invalid(results'[i])
    BY DEF Invalidated, Invalid
  <2>4. QED
    BY <2>1, <2>2, <2>3, Zenon DEF Invalidated
<1>7. Disturbed <=> Invalidated \/ Spoilt
  BY <1>1 DEF TruthInv
<1>8. Disturbed' <=> Disturbed
  BY <1>1 DEF Disturbed
<1>9. exit = None
  BY <1>1 DEF TruthInv
<1>10. exit' = IF stage' # "done" THEN None ELSE IF Invalidated' THEN 1 ELSE 0
  BY <1>1, <1>9 DEF Invalidated, Invalid
<1>11. QED
  BY <1>1, <1>5, <1>6, <1>7, <1>8, <1>10 DEF TruthInv

LEMMA TruthNext == CountInv /\ TruthInv /\ [Next]_vars => TruthInv'
<1> SUFFICES ASSUME CountInv, TruthInv, [Next]_vars PROVE TruthInv'
  OBVIOUS
<1>1. CASE WarmUp
  <2>1. UNCHANGED <<stage, results, exit, events>> /\ stage = "warming"
    BY <1>1 DEF WarmUp
  <2>2. QED
    BY <2>1 DEF TruthInv, Disturbed, Invalidated, Invalid
<1>2. ASSUME WarmUpFails \/ \E w \in DOMAIN job : Crash(w)
      PROVE  TruthInv'
  <2>1. stage' = "aborted" /\ exit' = exit /\ stage # "done"
    BY <1>2 DEF WarmUpFails, Crash, Waiting
  <2>2. QED
    BY <2>1 DEF TruthInv
<1>3. CASE Begin
  <2>1. /\ UNCHANGED <<results, exit, events>> /\ stage = "warming"
        /\ stage' = "measuring" /\ outcomes' = <<>>
    BY <1>3 DEF Begin
  <2>2. ~Spoilt'
    BY <2>1 DEF Spoilt, Failures, Surprises
  <2>3. QED
    BY <2>1, <2>2 DEF TruthInv, Disturbed, Invalidated, Invalid
<1>4. CASE Conclude
  BY <1>4, ConcludeTellsTruth
<1>5. ASSUME NEW w \in DOMAIN job, NEW l \in Latencies, Succeed(w, l) \/ Fail(w, l)
      PROVE  TruthInv'
  BY <1>5, OutcomeTellsTruth
<1>6. ASSUME \/ \E w \in DOMAIN job : Lookup(w)
             \/ \E p \in held : Evict(p)
             \/ UNCHANGED vars
      PROVE  TruthInv'
  <2>1. UNCHANGED <<stage, case, outcomes, results, exit>>
    BY <1>6 DEF Lookup, Evict, vars
  <2>2. Disturbed' <=> Disturbed
    BY <1>6 DEF Lookup, Evict, vars, Disturbed
  <2>3. (Spoilt' <=> Spoilt) /\ (Invalidated' <=> Invalidated)
    BY <2>1 DEF Spoilt, Failures, Surprises, Case, Invalidated, Invalid
  <2>4. QED
    BY <2>1, <2>2, <2>3 DEF TruthInv
<1>7. QED
  BY <1>1, <1>2, <1>3, <1>4, <1>5, <1>6 DEF Next, Handle

\* Two prompts are one only if they ask for the same payload of the same case.
LEMMA PromptsDiffer ==
    /\ \A n, m, i, j : <<n, "measured", i>> = <<m, "measured", j>> => n = m /\ i = j
    /\ \A n, m, i, j : <<n, "measured", i>> # <<m, "warmup", j>>
    /\ \A n, m, i : <<n, "measured", i>> # <<m>>
<1>1. \A n, m, i, j : <<n, "measured", i>> = <<m, "measured", j>> => n = m /\ i = j
  OBVIOUS
<1>2. \A n, m, i, j : <<n, "measured", i>> # <<m, "warmup", j>>
  OBVIOUS
<1>3. \A n, m, i : Len(<<n, "measured", i>>) = 3 /\ Len(<<m>>) = 1
  OBVIOUS
<1>4. \A n, m, i : <<n, "measured", i>> # <<m>>
  BY <1>3
<1>5. QED
  BY <1>1, <1>2, <1>4

LEMMA QuietInit == Init => QuietInv
BY DEF Init, QuietInv

LEMMA QuietWarmUp ==
    ASSUME CountInv, QuietInv, WarmUp, "trouble" \notin events'
    PROVE  QuietInv'
<1>1. /\ "trouble" \notin events /\ events' = events /\ stage = "warming"
      /\ UNCHANGED <<stage, case, queue, job, found>>
      /\ held' = held \cup {Prompt(case, "warmup", warm')}
  BY DEF WarmUp
<1>2. \A n \in 1..CaseCount, j \in 1..RequestCount :
         <<n, "measured", j>> \in held' => <<n, "measured", j>> \in held
  BY <1>1, PromptsDiffer DEF Prompt
<1>3. \A n, j : Finished(n, j)' <=> Finished(n, j)
  BY <1>1 DEF Finished, Taken
<1>4. Cached(case)' <=> Cached(case)
  BY <1>1 DEF Cached, Case
<1>5. Cached(case) => <<case>> \in held'
  BY <1>1 DEF Cached, Prompt
<1>6. QED
  BY <1>1, <1>2, <1>3, <1>4, <1>5 DEF QuietInv

LEMMA QuietBegin ==
    ASSUME CountInv, QuietInv, Begin, "trouble" \notin events'
    PROVE  QuietInv'
<1>1. /\ "trouble" \notin events /\ stage = "warming" /\ stage' = "measuring"
      /\ warm = Warmups(case)
      /\ UNCHANGED <<case, warm, held, events>>
      /\ found' = [w \in Workers(case) |-> None]
  BY DEF Begin
<1>2. Workers(case)' = Workers(case) /\ (Cached(case)' <=> Cached(case))
  BY <1>1 DEF Workers, Cached, Case
<1>3. Cached(case) => warm > 0
  BY <1>1, BenchmarkAssumption DEF Warmups, Cached, Larger
<1>4. Cached(case) => <<case>> \in held'
  BY <1>1, <1>3 DEF QuietInv
<1>5. \A w \in Workers(case) : found'[w] = None
  BY <1>1
<1>6. \A n \in 1..CaseCount, j \in 1..RequestCount :
         <<n, "measured", j>> \in held' => Finished(n, j)'
  BY <1>1 DEF QuietInv, Finished
<1>7. QED
  BY <1>1, <1>2, <1>4, <1>5, <1>6 DEF QuietInv

LEMMA QuietConclude ==
    ASSUME CountInv, QuietInv, Conclude, "trouble" \notin events'
    PROVE  QuietInv'
<1>1. /\ "trouble" \notin events /\ stage = "measuring"
      /\ UNCHANGED <<queue, job, found, held, events>>
      /\ \/ stage' = "warming" /\ case' = case + 1 /\ warm' = 0
         \/ stage' = "done" /\ case' = case /\ warm' = warm
  BY DEF Conclude
<1>2. case \in Nat /\ case \in 1..CaseCount
  BY DEF CountInv, Typed
<1>3. Cached(case)' /\ (warm' > 0 \/ stage' = "measuring") => <<case'>> \in held'
  <2>1. CASE stage' = "warming" /\ warm' = 0
    BY <2>1
  <2>2. CASE stage' = "done" /\ case' = case /\ warm' = warm
    <3>1. Cached(case)' <=> Cached(case)
      BY <2>2 DEF Cached, Case
    <3>2. QED
      BY <1>1, <2>2, <3>1 DEF QuietInv
  <2>3. QED
    BY <1>1, <2>1, <2>2
<1>4. ASSUME NEW n \in 1..CaseCount, NEW j \in 1..RequestCount,
             <<n, "measured", j>> \in held'
      PROVE  Finished(n, j)'
  <2>1. Finished(n, j)
    BY <1>1, <1>4 DEF QuietInv
  <2>2. n \in Nat /\ (n < case \/ n = case)
    BY <2>1 DEF Finished
  <2>3. CASE stage' = "warming" /\ case' = case + 1
    BY <1>2, <2>2, <2>3 DEF Finished
  <2>4. CASE stage' = "done" /\ case' = case
    BY <1>1, <2>1, <2>4 DEF Finished, Taken
  <2>5. QED
    BY <1>1, <2>3, <2>4
<1>5. QED
  BY <1>1, <1>3, <1>4 DEF QuietInv

LEMMA QuietLookup ==
    ASSUME CountInv, QuietInv, NEW w, Lookup(w), "trouble" \notin events'
    PROVE  QuietInv'
<1>1. /\ "trouble" \notin events /\ stage = "measuring"
      /\ UNCHANGED <<stage, case, warm, queue, job, held, events>>
      /\ found' = [found EXCEPT ![w] = Prompt(case, "measured", job[w]) \in held]
      /\ w \in DOMAIN job /\ job[w] # 0
  BY DEF Lookup, Waiting
<1>2. Draining /\ case \in 1..CaseCount
  BY <1>1 DEF CountInv, Typed
<1>3. /\ job \in [Workers(case) -> 0..Taken] /\ found \in [Workers(case) -> BOOLEAN \cup {None}]
      /\ Taken \in Nat /\ Taken <= RequestCount
  <2>1. queue \in Seq(Nat) /\ Len(queue) <= RequestCount
    BY <1>2 DEF Draining
  <2>2. QED
    BY <1>2, <2>1, BenchmarkAssumption DEF Draining, Taken
<1>4. w \in Workers(case) /\ job[w] \in 1..RequestCount
  BY <1>1, <1>3, BenchmarkAssumption
<1>5. (Prompt(case, "measured", job[w]) \in held) <=> Cached(case)
  <2>1. CASE Cached(case)
    BY <1>1, <2>1 DEF Prompt, Cached, QuietInv
  <2>2. CASE ~Cached(case)
    <3>1. Prompt(case, "measured", job[w]) = <<case, "measured", job[w]>>
      BY <2>2 DEF Prompt, Cached
    <3>2. ~Finished(case, job[w])
      BY <1>1, <1>2 DEF Finished
    <3>3. QED
      BY <1>1, <1>2, <1>4, <2>2, <3>1, <3>2 DEF QuietInv
  <2>3. QED
    BY <2>1, <2>2
<1>6. Workers(case)' = Workers(case) /\ Cached(case)' = Cached(case)
  BY <1>1 DEF Workers, Cached, Case
<1>7. \A v \in Workers(case) : found'[v] \in {None, Cached(case)}
  <2> SUFFICES ASSUME NEW v \in Workers(case) PROVE found'[v] \in {None, Cached(case)}
    OBVIOUS
  <2>1. CASE v = w
    <3>1. found'[w] = (Prompt(case, "measured", job[w]) \in held)
      BY <1>1, <1>3, <1>4
    <3>2. (Prompt(case, "measured", job[w]) \in held) = Cached(case)
      BY <1>5 DEF Cached
    <3>3. QED
      BY <2>1, <3>1, <3>2
  <2>2. CASE v # w
    BY <1>1, <1>3, <2>2 DEF QuietInv
  <2>3. QED
    BY <2>1, <2>2
<1>8. \A n, j : Finished(n, j)' <=> Finished(n, j)
  BY <1>1 DEF Finished, Taken
<1>9. QED
  BY <1>1, <1>6, <1>7, <1>8 DEF QuietInv

LEMMA QuietSucceed ==
    ASSUME CountInv, QuietInv, NEW w, NEW l \in Latencies, Succeed(w, l),
           "trouble" \notin events'
    PROVE  QuietInv'
<1>1. /\ stage = "measuring" /\ w \in DOMAIN job /\ job[w] # 0 /\ found[w] # None
      /\ UNCHANGED <<stage, case, warm>>
      /\ found' = [found EXCEPT ![w] = None]
      /\ held' = held \cup {Prompt(case, "measured", job[w])}
      /\ "trouble" \notin events
  BY DEF Succeed, Waiting, Advance
<1>2. Draining /\ Draining' /\ case \in 1..CaseCount /\ Typed
  <2>1. Draining /\ Typed /\ Waiting(w)
    BY <1>1 DEF CountInv, Waiting
  <2>2. found[w] \in BOOLEAN \cup {None}
    BY <2>1 DEF Draining, Waiting
  <2>3. [latency |-> l, success |-> TRUE, hit |-> found[w]] \in Outcomes
    BY <2>2 DEF Outcomes
  <2>4. Advance(w, [latency |-> l, success |-> TRUE, hit |-> found[w]])
    BY DEF Succeed
  <2>5. Draining'
    BY <2>1, <2>3, <2>4, AdvanceDrains
  <2>6. QED
    BY <2>1, <2>5 DEF Typed
<1>3. /\ job \in [Workers(case) -> 0..Taken] /\ found \in [Workers(case) -> BOOLEAN \cup {None}]
      /\ \A v, u \in Busy : job[v] = job[u] => v = u
      /\ queue \in Seq(Nat) /\ Len(queue) <= RequestCount
      /\ \A i \in 1..Len(queue) : queue[i] = Taken + i
  BY <1>2 DEF Draining
<1>4. Taken \in Nat /\ RequestCount \in Nat
  BY <1>3, BenchmarkAssumption DEF Taken
<1>5. Workers(case)' = Workers(case) /\ Cached(case)' = Cached(case)
  BY <1>1 DEF Workers, Cached, Case
<1>6. found[w] = Cached(case) /\ events' = events
  <2>1. found[w] = Cached(case)
    BY <1>1, <1>3 DEF QuietInv
  <2>2. QED
    BY <2>1 DEF Succeed, Cached
<1>7. \A v \in Workers(case) : found'[v] \in {None, Cached(case)}
  BY <1>1, <1>3 DEF QuietInv
<1>8. /\ Taken <= Taken'
      /\ DOMAIN job' = DOMAIN job
      /\ \A v \in DOMAIN job : v # w => job'[v] = job[v]
      /\ job'[w] = 0 \/ job'[w] = Taken + 1
  <2>1. CASE queue = <<>>
    <3>1. job' = [job EXCEPT ![w] = 0] /\ queue' = queue
      BY <2>1 DEF Succeed, Advance
    <3>2. QED
      BY <1>1, <1>3, <1>4, <3>1 DEF Taken
  <2>2. CASE queue # <<>>
    <3>1. job' = [job EXCEPT ![w] = Head(queue)] /\ queue' = Tail(queue)
      BY <2>2 DEF Succeed, Advance
    <3>2. Head(queue) = Taken + 1 /\ Len(queue') = Len(queue) - 1 /\ Len(queue) \in Nat
      BY <1>3, <2>2, <3>1
    <3>3. Taken <= Taken'
      BY <1>4, <3>2 DEF Taken
    <3>4. QED
      BY <1>1, <1>3, <3>1, <3>2, <3>3
  <2>3. QED
    BY <2>1, <2>2
<1>9. Taken' \in Nat
  <2>1. queue' \in Seq(Nat) /\ Len(queue') <= RequestCount
    BY <1>2 DEF Draining
  <2>2. QED
    BY <2>1, BenchmarkAssumption DEF Taken
<1>10. \A v \in DOMAIN job : v # w => job[v] # job[w]
  BY <1>1, <1>3 DEF Busy
<1>11. ASSUME NEW n \in 1..CaseCount, NEW j \in 1..RequestCount,
              <<n, "measured", j>> \in held'
       PROVE  Finished(n, j)'
  <2>1. \/ <<n, "measured", j>> \in held
        \/ n = case /\ j = job[w]
    BY <1>1, <1>11, PromptsDiffer DEF Prompt
  <2>2. \/ n < case
        \/ n = case /\ j <= Taken /\ \A v \in DOMAIN job : v # w => job[v] # j
    <3>1. CASE <<n, "measured", j>> \in held
      BY <1>1, <3>1 DEF QuietInv, Finished
    <3>2. CASE n = case /\ j = job[w]
      <4>1. j <= Taken
        BY <1>1, <1>3, <3>2
      <4>2. QED
        BY <1>10, <3>2, <4>1
    <3>3. QED
      BY <2>1, <3>1, <3>2
  <2>3. CASE n < case
    BY <1>1, <2>3 DEF Finished
  <2>4. CASE n = case /\ j <= Taken /\ \A v \in DOMAIN job : v # w => job[v] # j
    <3>1. j <= Taken' /\ job'[w] # j
      BY <1>4, <1>8, <1>9, <2>4
    <3>2. \A v \in DOMAIN job' : job'[v] # j
      BY <1>8, <2>4, <3>1
    <3>3. QED
      BY <1>1, <2>4, <3>1, <3>2 DEF Finished
  <2>5. QED
    BY <2>2, <2>3, <2>4
<1>12. Cached(case) => <<case>> \in held'
  BY <1>1 DEF QuietInv
<1>13. QED
  BY <1>1, <1>5, <1>6, <1>7, <1>11, <1>12 DEF QuietInv

LEMMA QuietNext == CountInv /\ QuietInv /\ [Next]_vars => QuietInv'
<1> SUFFICES ASSUME CountInv, QuietInv, [Next]_vars, "trouble" \notin events'
             PROVE  QuietInv'
  BY DEF QuietInv
<1>1. ASSUME \/ WarmUpFails
             \/ \E w \in DOMAIN job : Crash(w)
             \/ \E w \in DOMAIN job, l \in Latencies : Fail(w, l)
             \/ \E p \in held : Evict(p)
      PROVE  FALSE
  BY <1>1 DEF WarmUpFails, Crash, Fail, Evict
<1>2. CASE UNCHANGED vars
  <2>1. /\ UNCHANGED <<stage, case, warm, queue, job, found, held, events>>
    BY <1>2 DEF vars
  <2>2. /\ \A n, j : Finished(n, j)' <=> Finished(n, j)
        /\ Workers(case)' = Workers(case) /\ Cached(case)' = Cached(case)
    BY <2>1 DEF Finished, Taken, Workers, Cached, Case
  <2>3. QED
    BY <2>1, <2>2 DEF QuietInv
<1>3. QED
  BY <1>1, <1>2, QuietWarmUp, QuietBegin, QuietConclude, QuietLookup, QuietSucceed
     DEF Next, Handle

\* The exit code 0 means that every measured request was answered and served as its
\* scenario names, 1 that one was not, and a benchmark that nothing disturbs ends
\* with 0: whatever the workers' order, with no warm-up asked for as well.
THEOREM ExitCodeIsTrue == Spec => []ExitTellsTheTruth
<1>1. CountInv /\ TruthInv /\ QuietInv => ExitTellsTheTruth
  <2> SUFFICES ASSUME CountInv, TruthInv, QuietInv PROVE ExitTellsTheTruth
    OBVIOUS
  <2>1. (exit = 0 \/ exit = 1) => stage = "done"
    BY BenchmarkAssumption DEF TruthInv
  <2>2. stage = "done" => (Disturbed <=> Invalidated)
    BY DEF TruthInv
  <2>3. exit = 0 => ~Disturbed
    BY <2>1, <2>2 DEF TruthInv
  <2>4. exit = 1 => Disturbed
    BY <2>1, <2>2 DEF TruthInv
  <2>5. "trouble" \notin events => ~Disturbed /\ stage # "aborted"
    BY DEF QuietInv, Disturbed
  <2>6. QED
    BY <2>3, <2>4, <2>5 DEF ExitTellsTheTruth, Disturbed
<1>2. QED
  BY <1>1, CountInit, CountNext, TruthInit, TruthNext, QuietInit, QuietNext, PTL
     DEF Spec
=============================================================================
