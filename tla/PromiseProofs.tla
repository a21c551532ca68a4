---------------------------- MODULE PromiseProofs ----------------------------
(***************************************************************************)
(* Completion implements Promise, for every number of requests, every set  *)
(* of deployments, every retry budget and every combination of faults; the *)
(* telemetry rows are true under the same conditions, and no completion is *)
(* missing in them while PostgreSQL works and the providers' clients raise *)
(* nothing but ProviderErrors.                                             *)
(***************************************************************************)
EXTENDS CompletionPromise, CompletionProofs

-----------------------------------------------------------------------------
(* Where answers and rows come from *)

\* What the cache keeps is the answer its maker still holds.
Kept == \A k \in CacheKeys : cache[k] # None => answer[cache[k].by] = cache[k]

\* An answer came from the cache exactly if it was made for another request; the
\* one on its way into the cache is the request's own.
Paid ==
    \A r \in Requests :
        /\ answer[r] # None => (hit[r] <=> answer[r].by # r)
        /\ pc[r] = "store" => ~hit[r]

\* A row belongs to a request that is past its insert.
RowsArePast ==
    \A row \in rows : pc[row.request] \in {"recorded"} \cup Ended

OriginInv == Kept /\ Paid /\ RowsArePast

LEMMA OriginInit == Init => OriginInv
BY DEF Init, OriginInv, Kept, Paid, RowsArePast

\* A step that leaves the cache, the answers and the rows alone.
LEMMA OriginFrame ==
    ASSUME OriginInv, TypeOK, UNCHANGED <<cache, answer, hit, rows>>,
           \A r \in Requests :
              /\ pc'[r] = "store" => pc[r] = "store"
              /\ pc[r] \in {"recorded"} \cup Ended => pc'[r] \in {"recorded"} \cup Ended
    PROVE  OriginInv'
<1>1. Kept'
  BY DEF OriginInv, Kept
<1>2. Paid'
  BY DEF OriginInv, Paid
<1>3. RowsArePast'
  BY DEF OriginInv, RowsArePast, TypeOK, Rows
<1>4. QED
  BY <1>1, <1>2, <1>3 DEF OriginInv

LEMMA OriginNext ==
    TypeOK /\ GenuineInv /\ ProgressInv /\ OriginInv /\ [Next]_vars => OriginInv'
<1> SUFFICES ASSUME TypeOK, GenuineInv, ProgressInv, OriginInv, [Next]_vars
             PROVE  OriginInv'
  OBVIOUS
<1> USE DEF shared, fixed, Ended
<1>1. ASSUME NEW r \in Requests, NEW q \in Queries,
             ArriveNoProvider(r, q) \/ Arrive(r, q)
      PROVE  OriginInv'
  BY <1>1, OriginFrame DEF ArriveNoProvider, Arrive, TypeOK
<1>2. ASSUME NEW r \in Requests, LookupHit(r)
      PROVE  OriginInv'
  <2>1. /\ pc[r] = "lookup" /\ answer[r] = None /\ cache[Key(r)] # None
        /\ Key(r) \in CacheKeys
        /\ answer' = [answer EXCEPT ![r] = cache[Key(r)]]
        /\ hit' = [hit EXCEPT ![r] = TRUE]
        /\ pc' = [pc EXCEPT ![r] = "record"]
        /\ UNCHANGED <<cache, rows>>
    BY <1>2, CandidateType DEF LookupHit, GenuineInv, Unanswered, Early, TypeOK
  <2>2. cache[Key(r)].by # r
    BY <2>1 DEF OriginInv, Kept
  <2>3. Kept'
    BY <2>1 DEF OriginInv, Kept, TypeOK, Answers
  <2>4. Paid'
    BY <2>1, <2>2 DEF OriginInv, Paid, TypeOK
  <2>5. RowsArePast'
    BY <2>1 DEF OriginInv, RowsArePast, TypeOK, Rows
  <2>6. QED
    BY <2>3, <2>4, <2>5 DEF OriginInv
<1>3. ASSUME NEW r \in Requests, LookupMiss(r)
      PROVE  OriginInv'
  BY <1>3, OriginFrame DEF LookupMiss, TypeOK
<1>4. ASSUME NEW r \in Requests, NEW l \in Latencies, AttemptSucceeds(r, l)
      PROVE  OriginInv'
  <2>1. /\ pc[r] = "attempt" /\ answer[r] = None
        /\ answer' = [answer EXCEPT ![r] = Generate(r, Candidate(r))]
        /\ hit' = [hit EXCEPT ![r] = FALSE]
        /\ pc' = [pc EXCEPT ![r] = "store"]
        /\ UNCHANGED <<cache, rows>>
    BY <1>4 DEF AttemptSucceeds, GenuineInv, Unanswered, Early
  <2>2. Generate(r, Candidate(r)).by = r
    BY DEF Generate
  <2>3. Kept'
    BY <2>1 DEF OriginInv, Kept, TypeOK, Answers
  <2>4. Paid'
    BY <2>1, <2>2 DEF OriginInv, Paid, TypeOK
  <2>5. RowsArePast'
    BY <2>1 DEF OriginInv, RowsArePast, TypeOK, Rows
  <2>6. QED
    BY <2>3, <2>4, <2>5 DEF OriginInv
<1>5. ASSUME NEW r \in Requests, NEW e \in Errors,
             AttemptRetries(r, e) \/ AttemptFallsBack(r, e) \/ AttemptExhausts(r, e)
      PROVE  OriginInv'
  <2>1. /\ UNCHANGED <<cache, answer, hit, rows>> /\ pc[r] = "attempt"
        /\ \A x \in Requests \ {r} : pc'[x] = pc[x]
        /\ pc'[r] # "store"
    BY <1>5 DEF AttemptRetries, AttemptFallsBack, AttemptExhausts, Fails, TypeOK
  <2>2. QED
    BY <2>1, OriginFrame
<1>6. ASSUME NEW r \in Requests, AttemptRaises(r) \/ Backoff(r) \/ Return(r)
      PROVE  OriginInv'
  <2>1. /\ UNCHANGED <<cache, answer, hit, rows>>
        /\ \A x \in Requests \ {r} : pc'[x] = pc[x]
        /\ pc'[r] # "store"
        /\ pc[r] \in {"recorded"} \cup Ended => pc'[r] \in Ended
    BY <1>6 DEF AttemptRaises, Backoff, Return, TypeOK
  <2>2. QED
    BY <2>1, OriginFrame
<1>7. ASSUME NEW r \in Requests, Store(r)
      PROVE  OriginInv'
  <2>1. /\ pc[r] = "store" /\ Key(r) \in CacheKeys /\ answer[r] # None
        /\ cache' \in {Stored(r), cache}
        /\ pc' = [pc EXCEPT ![r] = "record"]
        /\ UNCHANGED <<rows, answer, hit>>
    BY <1>7, CandidateType DEF Store, ProgressInv, Progress, TypeOK
  <2>2. answer[r].by = r
    BY <2>1 DEF OriginInv, Paid
  <2>3. Kept'
    BY <2>1, <2>2 DEF OriginInv, Kept, Stored, TypeOK
  <2>4. Paid'
    BY <2>1 DEF OriginInv, Paid, TypeOK
  <2>5. RowsArePast'
    BY <2>1 DEF OriginInv, RowsArePast, TypeOK, Rows
  <2>6. QED
    BY <2>3, <2>4, <2>5 DEF OriginInv
<1>8. ASSUME NEW r \in Requests, Record(r)
      PROVE  OriginInv'
  <2>1. /\ pc[r] = "record" /\ pc' = [pc EXCEPT ![r] = "recorded"]
        /\ rows' \in {rows \cup {Row(r)}, rows} /\ Row(r).request = r
        /\ UNCHANGED <<cache, answer, hit>>
    BY <1>8 DEF Record, Inserted, Row
  <2>2. Kept' /\ Paid'
    BY <2>1 DEF OriginInv, Kept, Paid, TypeOK
  <2>3. RowsArePast'
    BY <2>1 DEF OriginInv, RowsArePast, TypeOK, Rows
  <2>4. QED
    BY <2>2, <2>3 DEF OriginInv
<1>9. ASSUME NEW k \in CacheKeys, Expire(k)
      PROVE  OriginInv'
  BY <1>9 DEF Expire, OriginInv, Kept, Paid, RowsArePast, TypeOK
<1>10. ASSUME NEW d \in Configs, Restart(d)
       PROVE  OriginInv'
  BY <1>10, OriginFrame DEF Restart, TypeOK, Active
<1>11. CASE UNCHANGED vars
  BY <1>11, OriginFrame DEF vars
<1>12. QED
  BY <1>1, <1>2, <1>3, <1>4, <1>5, <1>6, <1>7, <1>8, <1>9, <1>10, <1>11
     DEF Next, Serve, Idle

-----------------------------------------------------------------------------
(* The refinement *)

\* The abstract phases move where the request moves.
LEMMA PhaseStep ==
    ASSUME TypeOK, NEW r \in Requests, NEW X, Phase(r)' = X,
           \A x \in Requests \ {r} : pc'[x] = pc[x] /\ answer'[x] = answer[x]
    PROVE  phases' = [phases EXCEPT ![r] = X]
BY DEF phases, Phase

LEMMA PhaseStutter ==
    ASSUME TypeOK, NEW r \in Requests, Phase(r)' = Phase(r),
           \A x \in Requests \ {r} : pc'[x] = pc[x] /\ answer'[x] = answer[x]
    PROVE  UNCHANGED phases
BY DEF phases, Phase

LEMMA OutFrame ==
    ASSUME UNCHANGED <<route, idx>>
    PROVE  UNCHANGED out
BY DEF out

\* What an open request looks like: its terms, its next provider, who is left.
LEMMA OpenRequest ==
    ASSUME TypeOK, GenuineInv, ProgressInv, NEW r \in Requests,
           pc[r] \in {"lookup", "attempt", "backoff"}
    PROVE  /\ r \in P!Open /\ phases[r] = "open" /\ answer[r] = None
           /\ terms[r] = [query |-> query[r], home |-> home[r]]
           /\ terms[r] \in AllTerms /\ home[r] = deployment
           /\ idx[r] \in DOMAIN route[r]
           /\ P!Left(r) = {route[r][i] : i \in {j \in DOMAIN route[r] : j >= idx[r]}}
           /\ Candidate(r) \in P!Left(r)
           /\ \A i \in DOMAIN route[r] : i # idx[r] => route[r][i] # Candidate(r)
<1>1. /\ route[r] # <<>> /\ query[r] \in Queries /\ home[r] \in Configs
      /\ route[r] \in Seq(Names) /\ idx[r] \in DOMAIN route[r] /\ idx[r] \in Nat
      /\ home[r] \in Deployments /\ Progress(r)
  BY CompletionAssumption DEF TypeOK, ProgressInv
<1>2. home[r] = deployment /\ answer[r] = None
  BY DEF GenuineInv, AtHome, Unanswered, Active, Early
<1>3. phases[r] = "open" /\ r \in P!Open
  BY DEF phases, Phase, P!Open
<1>4. terms[r] = [query |-> query[r], home |-> home[r]] /\ terms[r] \in AllTerms
  BY <1>1 DEF terms, AllTerms
<1>5. route[r] \in SetToSeqs(Eligible(home[r]))
  BY <1>1 DEF Progress
<1>6. /\ \A i \in DOMAIN route[r] : route[r][i] \in Eligible(home[r])
      /\ \A i, j \in DOMAIN route[r] : i # j => route[r][i] # route[r][j]
      /\ \A p \in Eligible(home[r]) : \E i \in DOMAIN route[r] : route[r][i] = p
  BY <1>1, <1>5, RouteShape
<1>7. P!Left(r) = Eligible(home[r])
                    \ {route[r][i] : i \in {j \in DOMAIN route[r] : j < idx[r]}}
  BY <1>4 DEF P!Left, out
<1>8. \A i \in DOMAIN route[r] : i \in Nat
  BY <1>1
<1>9. P!Left(r) = {route[r][i] : i \in {j \in DOMAIN route[r] : j >= idx[r]}}
  BY <1>1, <1>6, <1>7, <1>8
<1>10. QED
  BY <1>1, <1>2, <1>3, <1>4, <1>6, <1>9 DEF Candidate

LEMMA InitMaps == Init => P!Init
BY DEF Init, P!Init, phases, Phase, terms, out, given, made, log

LEMMA StepMaps ==
    TypeOK /\ GenuineInv /\ ProgressInv /\ OriginInv /\ [Next]_vars => [P!Next]_(P!vars)
<1> SUFFICES ASSUME TypeOK, GenuineInv, ProgressInv, OriginInv, [Next]_vars
             PROVE  P!Next \/ UNCHANGED P!vars
  OBVIOUS
<1> USE DEF shared, fixed
<1>1. ASSUME NEW r \in Requests, NEW q \in Queries,
             ArriveNoProvider(r, q) \/ Arrive(r, q)
      PROVE  P!Next
  <2> DEFINE t == [query |-> q, home |-> deployment]
  <2>1. /\ pc[r] = "new" /\ answer[r] = None /\ route[r] = <<>>
        /\ t \in AllTerms /\ t.home = deployment
    BY <1>1 DEF ArriveNoProvider, Arrive, GenuineInv, Unanswered, Early, ProgressInv,
                Progress, AllTerms, TypeOK
  <2>2. /\ query' = [query EXCEPT ![r] = q] /\ home' = [home EXCEPT ![r] = deployment]
        /\ UNCHANGED <<rows, answer>>
        /\ \A x \in Requests \ {r} :
              pc'[x] = pc[x] /\ route'[x] = route[x] /\ idx'[x] = idx[x]
        /\ pc'[r] = IF Eligible(deployment) = {} THEN "record" ELSE "lookup"
    BY <1>1 DEF ArriveNoProvider, Arrive, TypeOK
  <2>3. phases[r] = "new"
    BY <2>1 DEF phases, Phase
  <2>4. phases' = [phases EXCEPT ![r] = IF Eligible(deployment) = {} THEN "refused"
                                                                    ELSE "open"]
    <3>1. Phase(r)' = IF Eligible(deployment) = {} THEN "refused" ELSE "open"
      BY <2>1, <2>2 DEF Phase
    <3>2. QED
      BY <2>2, <3>1, PhaseStep
  <2>5. terms' = [terms EXCEPT ![r] = t]
    BY <2>2 DEF terms, TypeOK
  <2>6. {route'[r][i] : i \in {j \in DOMAIN route'[r] : j < idx'[r]}} = {}
    <3>1. CASE Arrive(r, q)
      <4>1. PICK s \in SetToSeqs(Eligible(deployment)) :
                route' = [route EXCEPT ![r] = s] /\ idx' = [idx EXCEPT ![r] = 1]
        BY <3>1 DEF Arrive
      <4>2. s \in Seq(Names)
        BY RouteShape, CompletionAssumption DEF TypeOK
      <4>3. route'[r] \in Seq(Names) /\ idx'[r] = 1
        BY <4>1, <4>2 DEF TypeOK
      <4>4. \A j \in DOMAIN route'[r] : j >= 1
        BY <4>3
      <4>5. QED
        BY <4>3, <4>4
    <3>2. CASE ArriveNoProvider(r, q)
      BY <2>1, <3>2 DEF ArriveNoProvider
    <3>3. QED
      BY <1>1, <3>1, <3>2
  <2>7. {route[r][i] : i \in {j \in DOMAIN route[r] : j < idx[r]}} = {}
    BY <2>1
  <2>8. UNCHANGED out
    BY <2>2, <2>6, <2>7 DEF out
  <2>9. UNCHANGED <<given, made, log>>
    BY <2>2 DEF given, made, log
  <2>10. [x \in AllTerms |-> Eligible(x.home)][t] = Eligible(deployment)
    BY <2>1
  <2> HIDE DEF t
  <2>11. P!Accept(r, t)
    BY <2>3, <2>4, <2>5, <2>8, <2>9, <2>10 DEF P!Accept
  <2>12. QED
    BY <2>1, <2>11 DEF P!Next
\* The step r takes to be won by the answer a of its candidate.
<1>2. ASSUME NEW r \in Requests, NEW a \in Answers,
             pc[r] \in {"lookup", "attempt"}, pc'[r] \in {"store", "record"},
             \A x \in Requests \ {r} : pc'[x] = pc[x],
             answer' = [answer EXCEPT ![r] = a],
             UNCHANGED <<rows, query, home, route, idx>>,
             a.provider = Candidate(r), a.model = home[r].model[Candidate(r)],
             a.prompt = query[r].prompt,
             a.parameters = EffectiveParameters(Candidate(r), query[r])
      PROVE  /\ P!Win(r, a) /\ r \in P!Open /\ UNCHANGED log
             /\ a \in [t \in AllTerms |-> FittingAnswers(t)][terms[r]]
             /\ made' = made \cup {a}
  <2>1. /\ r \in P!Open /\ answer[r] = None
        /\ terms[r] = [query |-> query[r], home |-> home[r]]
        /\ terms[r] \in AllTerms /\ Candidate(r) \in P!Left(r)
    BY <1>2, OpenRequest
  <2>2. a # None
    BY NoneIsNoAnswer
  <2>3. phases' = [phases EXCEPT ![r] = "won"]
    <3>1. Phase(r)' = "won"
      BY <1>2, <2>2 DEF Phase, TypeOK
    <3>2. QED
      BY <1>2, <3>1, PhaseStep DEF TypeOK
  <2>4. made' = made \cup {a}
    BY <1>2, <2>1, <2>2 DEF made, TypeOK
  <2>5. UNCHANGED <<terms, out, log>>
    BY <1>2, OutFrame DEF terms, log
  <2>6. given' = [given EXCEPT ![r] = a]
    BY <1>2 DEF given
  <2>7. P!Win(r, a)
    BY <1>2, <2>1, <2>3, <2>5, <2>6 DEF P!Win
  <2>8. a \in FittingAnswers(terms[r])
    BY <1>2, <2>1 DEF FittingAnswers
  <2>9. QED
    BY <2>1, <2>4, <2>5, <2>7, <2>8
<1>3. ASSUME NEW r \in Requests, LookupHit(r)
      PROVE  P!Next
  <2> DEFINE a == cache[Key(r)]
  <2>1. /\ pc[r] = "lookup" /\ pc' = [pc EXCEPT ![r] = "record"]
        /\ answer' = [answer EXCEPT ![r] = a] /\ a # None
        /\ UNCHANGED <<rows, query, home, route, idx>>
        /\ Key(r) \in CacheKeys /\ a \in Answers /\ home[r] = deployment
    BY <1>3, CandidateType DEF LookupHit, TypeOK, GenuineInv, AtHome, Active
  <2>2. /\ a.provider = Candidate(r) /\ a.model = home[r].model[Candidate(r)]
        /\ a.prompt = query[r].prompt
        /\ a.parameters = EffectiveParameters(Candidate(r), query[r])
    BY <2>1 DEF GenuineInv, CacheSound, Key, BuildKey
  <2>3. a \in made
    BY <2>1 DEF OriginInv, Kept, made, Answers
  <2> HIDE DEF a
  <2>4. /\ P!Win(r, a) /\ r \in P!Open /\ made' = made \cup {a}
        /\ a \in [t \in AllTerms |-> FittingAnswers(t)][terms[r]]
    <3>1. pc'[r] = "record" /\ \A x \in Requests \ {r} : pc'[x] = pc[x]
      BY <2>1 DEF TypeOK
    <3>2. QED
      BY <1>2, <2>1, <2>2, <3>1
  <2>5. P!Reuse(r, a)
    BY <2>3, <2>4 DEF P!Reuse
  <2>6. QED
    BY <2>4, <2>5 DEF P!Next
<1>4. ASSUME NEW r \in Requests, NEW l \in Latencies, AttemptSucceeds(r, l)
      PROVE  P!Next
  <2> DEFINE a == Generate(r, Candidate(r))
  <2>1. /\ pc[r] = "attempt" /\ pc' = [pc EXCEPT ![r] = "store"]
        /\ answer' = [answer EXCEPT ![r] = a]
        /\ UNCHANGED <<rows, query, home, route, idx>>
        /\ a \in Answers /\ home[r] = deployment
    BY <1>4, CandidateType DEF AttemptSucceeds, TypeOK, GenuineInv, AtHome, Active
  <2>2. /\ a.provider = Candidate(r) /\ a.model = home[r].model[Candidate(r)]
        /\ a.prompt = query[r].prompt /\ a.by = r
        /\ a.parameters = EffectiveParameters(Candidate(r), query[r])
    BY <2>1 DEF Generate
  <2> HIDE DEF a
  <2>3. /\ P!Win(r, a) /\ r \in P!Open /\ made' = made \cup {a}
        /\ a \in [t \in AllTerms |-> FittingAnswers(t)][terms[r]]
    <3>1. pc'[r] = "store" /\ \A x \in Requests \ {r} : pc'[x] = pc[x]
      BY <2>1 DEF TypeOK
    <3>2. QED
      BY <1>2, <2>1, <2>2, <3>1
  <2>4. P!Make(r, a)
    BY <2>2, <2>3 DEF P!Make
  <2>5. QED
    BY <2>3, <2>4 DEF P!Next
<1>5. ASSUME NEW r \in Requests, NEW e \in Errors, AttemptFallsBack(r, e)
      PROVE  P!Next
  <2> DEFINE p == Candidate(r)
  <2>1. /\ pc[r] = "attempt" /\ pc' = [pc EXCEPT ![r] = "lookup"]
        /\ idx[r] < Len(route[r]) /\ idx' = [idx EXCEPT ![r] = @ + 1]
        /\ UNCHANGED <<rows, query, home, route, answer>>
    BY <1>5 DEF AttemptFallsBack, Fails
  <2>2. /\ r \in P!Open /\ p \in P!Left(r) /\ idx[r] \in DOMAIN route[r]
        /\ P!Left(r) = {route[r][i] : i \in {j \in DOMAIN route[r] : j >= idx[r]}}
        /\ \A i \in DOMAIN route[r] : i # idx[r] => route[r][i] # p
    BY <2>1, OpenRequest
  <2>3. route[r] \in Seq(Names) /\ idx[r] \in Nat
    BY DEF TypeOK
  <2>4. P!Left(r) # {p}
    <3>1. /\ idx[r] + 1 \in DOMAIN route[r] /\ idx[r] + 1 >= idx[r]
          /\ idx[r] + 1 # idx[r]
      BY <2>1, <2>3
    <3>2. route[r][idx[r] + 1] \in P!Left(r) /\ route[r][idx[r] + 1] # p
      BY <2>2, <3>1
    <3>3. QED
      BY <3>2
  <2>5. UNCHANGED phases
    BY <2>1, PhaseStutter DEF Phase, TypeOK
  <2>6. out' = [out EXCEPT ![r] = @ \cup {p}]
    <3>1. {route[r][i] : i \in {j \in DOMAIN route[r] : j < idx[r] + 1}}
            = {route[r][i] : i \in {j \in DOMAIN route[r] : j < idx[r]}} \cup {p}
      <4>1. {j \in DOMAIN route[r] : j < idx[r] + 1}
              = {j \in DOMAIN route[r] : j < idx[r]} \cup {idx[r]}
        BY <2>2, <2>3
      <4>2. p = route[r][idx[r]]
        BY DEF Candidate
      <4>3. QED
        BY <4>1, <4>2
    <3>2. idx'[r] = idx[r] + 1 /\ \A x \in Requests \ {r} : idx'[x] = idx[x]
      BY <2>1 DEF TypeOK
    <3>3. \A x \in Requests \ {r} :
             {route'[x][i] : i \in {j \in DOMAIN route'[x] : j < idx'[x]}}
               = {route[x][i] : i \in {j \in DOMAIN route[x] : j < idx[x]}}
      BY <2>1, <3>2
    <3>4. {route'[r][i] : i \in {j \in DOMAIN route'[r] : j < idx'[r]}}
            = {route[r][i] : i \in {j \in DOMAIN route[r] : j < idx[r]}} \cup {p}
      BY <2>1, <3>1, <3>2
    <3>5. \A x \in Requests : out'[x] = IF x = r THEN out[x] \cup {p} ELSE out[x]
      BY <3>3, <3>4 DEF out
    <3> HIDE DEF p
    <3>6. /\ out = [x \in Requests |-> out[x]]
          /\ out' = [x \in Requests |-> out'[x]]
      BY DEF out
    <3>7. QED
      BY <3>5, <3>6
  <2>7. UNCHANGED <<terms, given, made, log>>
    BY <2>1 DEF terms, given, made, log
  <2> HIDE DEF p
  <2>8. P!GiveUp(r, p)
    BY <2>2, <2>4, <2>5, <2>6, <2>7 DEF P!GiveUp
  <2>9. QED
    BY <2>2, <2>8 DEF P!Next
<1>6. ASSUME NEW r \in Requests, NEW e \in Errors, AttemptExhausts(r, e)
      PROVE  P!Next
  <2> DEFINE p == Candidate(r)
  <2>1. /\ pc[r] = "attempt" /\ pc' = [pc EXCEPT ![r] = "record"]
        /\ idx[r] = Len(route[r])
        /\ UNCHANGED <<rows, query, home, route, idx, answer>>
    BY <1>6 DEF AttemptExhausts, Fails
  <2>2. /\ r \in P!Open /\ p \in P!Left(r) /\ answer[r] = None
        /\ idx[r] \in DOMAIN route[r]
        /\ P!Left(r) = {route[r][i] : i \in {j \in DOMAIN route[r] : j >= idx[r]}}
    BY <2>1, OpenRequest
  <2>3. P!Left(r) = {p}
    <3>1. route[r] \in Seq(Names) /\ idx[r] \in Nat
      BY DEF TypeOK
    <3>2. {j \in DOMAIN route[r] : j >= idx[r]} = {idx[r]}
      BY <2>1, <2>2, <3>1
    <3>3. QED
      BY <2>2, <3>2 DEF Candidate
  <2>4. phases' = [phases EXCEPT ![r] = "refused"]
    BY <2>1, <2>2, PhaseStep DEF Phase, TypeOK
  <2>5. UNCHANGED <<terms, out, given, made, log>>
    BY <2>1, OutFrame DEF terms, given, made, log
  <2> HIDE DEF p
  <2>6. P!Refuse(r, p)
    BY <2>2, <2>3, <2>4, <2>5 DEF P!Refuse
  <2>7. QED
    BY <2>2, <2>6 DEF P!Next
<1>7. ASSUME NEW r \in Requests, AttemptRaises(r)
      PROVE  P!Next
  <2>1. /\ pc[r] = "attempt" /\ pc' = [pc EXCEPT ![r] = "error"]
        /\ UNCHANGED <<rows, query, home, route, idx, answer>>
    BY <1>7 DEF AttemptRaises
  <2>2. phases[r] = "open" /\ phases' = [phases EXCEPT ![r] = "error"]
    BY <2>1, OpenRequest, PhaseStep DEF Phase, TypeOK
  <2>3. UNCHANGED <<terms, out, given, made, log>>
    BY <2>1, OutFrame DEF terms, given, made, log
  <2>4. QED
    BY <2>2, <2>3 DEF P!Next, P!Close
\* A step of r that shows neither in its phase nor in what it holds.
<1>8. ASSUME NEW r \in Requests, Phase(r)' = Phase(r),
             \A x \in Requests \ {r} : pc'[x] = pc[x],
             UNCHANGED <<rows, query, home, route, idx, answer>>
      PROVE  UNCHANGED P!vars
  BY <1>8, PhaseStutter, OutFrame DEF P!vars, terms, given, made, log
<1>9. ASSUME NEW r \in Requests,
             LookupMiss(r) \/ Backoff(r) \/ (\E e \in Errors : AttemptRetries(r, e))
      PROVE  UNCHANGED P!vars
  <2>1. /\ pc[r] \in {"lookup", "attempt", "backoff"}
        /\ pc'[r] \in {"attempt", "backoff"}
        /\ \A x \in Requests \ {r} : pc'[x] = pc[x]
        /\ UNCHANGED <<rows, query, home, route, idx, answer>>
    BY <1>9 DEF LookupMiss, Backoff, AttemptRetries, Fails, TypeOK
  <2>2. Phase(r)' = Phase(r)
    BY <2>1 DEF Phase
  <2>3. QED
    BY <1>8, <2>1, <2>2
<1>10. ASSUME NEW r \in Requests, Store(r)
       PROVE  UNCHANGED P!vars
  <2>1. /\ pc[r] = "store" /\ pc'[r] = "record"
        /\ \A x \in Requests \ {r} : pc'[x] = pc[x]
        /\ UNCHANGED <<rows, query, home, route, idx, answer>>
    BY <1>10 DEF Store, TypeOK
  <2>2. Phase(r)' = Phase(r)
    BY <2>1 DEF Phase
  <2>3. QED
    BY <1>8, <2>1, <2>2
<1>11. ASSUME NEW r \in Requests, Record(r)
       PROVE  P!Next \/ UNCHANGED P!vars
  <2>1. /\ pc[r] = "record" /\ pc'[r] = "recorded"
        /\ \A x \in Requests \ {r} : pc'[x] = pc[x]
        /\ rows' = rows \cup {Row(r)} \/ rows' = rows
        /\ UNCHANGED <<query, home, route, idx, answer>>
    BY <1>11 DEF Record, Inserted, TypeOK
  <2>2. Phase(r)' = Phase(r) /\ UNCHANGED phases
    BY <2>1, PhaseStutter DEF Phase
  <2>3. CASE rows' = rows
    BY <1>8, <2>1, <2>2, <2>3
  <2>4. CASE rows' = rows \cup {Row(r)}
    <3>1. UNCHANGED <<terms, out, given, made>>
      BY <2>1, OutFrame DEF terms, given, made
    <3>2. phases[r] = IF answer[r] # None THEN "won" ELSE "refused"
      BY <2>1 DEF phases, Phase
    <3>3. log' = log \cup {[request |-> Row(r).request, provider |-> Row(r).provider,
                            charged |-> Row(r).charged]}
      BY <2>4 DEF log
    <3>4. P!Row(r) = [request |-> Row(r).request, provider |-> Row(r).provider,
                      charged |-> Row(r).charged]
      <4>1. CASE answer[r] # None
        <5>1. hit[r] \in BOOLEAN /\ (hit[r] <=> answer[r].by # r)
          BY <4>1 DEF OriginInv, Paid, TypeOK
        <5>2. (~hit[r]) = (answer[r].by = r)
          BY <5>1
        <5>3. QED
          BY <3>2, <4>1, <5>2 DEF Row, P!Row, given
      <4>2. CASE answer[r] = None
        BY <3>2, <4>2 DEF Row, P!Row
      <4>3. QED
        BY <4>1, <4>2
    <3>5. \A row \in log : row.request # r
      BY <2>1 DEF log, OriginInv, RowsArePast, Ended
    <3>6. P!Log(r)
      BY <2>2, <3>1, <3>2, <3>3, <3>4, <3>5 DEF P!Log
    <3>7. QED
      BY <3>6 DEF P!Next
  <2>5. QED
    BY <2>1, <2>3, <2>4
<1>12. ASSUME NEW r \in Requests, Return(r)
       PROVE  P!Next
  <2>1. /\ pc[r] = "recorded"
        /\ pc' = [pc EXCEPT ![r] = IF answer[r] # None THEN "answered" ELSE "failed"]
        /\ UNCHANGED <<rows, query, home, route, idx, answer>>
    BY <1>12 DEF Return
  <2>2. phases[r] = IF answer[r] # None THEN "won" ELSE "refused"
    BY <2>1 DEF phases, Phase
  <2>3. phases' = [phases EXCEPT ![r] = IF answer[r] # None THEN "answered" ELSE "failed"]
    BY <2>1, PhaseStep DEF Phase, TypeOK
  <2>4. UNCHANGED <<terms, out, given, made, log>>
    BY <2>1, OutFrame DEF terms, given, made, log
  <2>5. P!Close(r)
    BY <2>2, <2>3, <2>4 DEF P!Close
  <2>6. QED
    BY <2>5 DEF P!Next
<1>13. ASSUME NEW k \in CacheKeys, Expire(k)
       PROVE  UNCHANGED P!vars
  BY <1>13, OutFrame DEF Expire, P!vars, phases, Phase, terms, given, made, log
<1>14. ASSUME NEW d \in Configs, Restart(d)
       PROVE  P!Next
  <2>1. /\ pc' = [r \in Requests |-> IF pc[r] \in Active THEN "lost" ELSE pc[r]]
        /\ UNCHANGED <<rows, query, home, route, idx, answer>>
    BY <1>14 DEF Restart
  <2>2. \A r \in Requests :
           Phase(r)' = IF Phase(r) \in P!Pending THEN "lost" ELSE Phase(r)
    BY <2>1 DEF Phase, P!Pending, Active, Ended, TypeOK
  <2>3. phases' = [r \in Requests |-> IF phases[r] \in P!Pending THEN "lost" ELSE phases[r]]
    BY <2>2 DEF phases
  <2>4. UNCHANGED <<terms, out, given, made, log>>
    BY <2>1, OutFrame DEF terms, given, made, log
  <2>5. QED
    BY <2>3, <2>4 DEF P!Lose, P!Next
<1>15. CASE UNCHANGED vars
  BY <1>15, OutFrame DEF vars, P!vars, phases, Phase, terms, given, made, log
<1>16. QED
  BY <1>1, <1>3, <1>4, <1>5, <1>6, <1>7, <1>9, <1>10, <1>11, <1>12, <1>13, <1>14,
     <1>15 DEF Next, Serve, Idle

\* Whatever the constants, the caching, retrying, falling-back service implements
\* Promise: every step of it is one step of a completion that keeps its promise,
\* or none at all.
THEOREM PromiseKept == Spec => ImplementsPromise
<1>1. Init => TypeOK /\ GenuineInv /\ ProgressInv /\ OriginInv
  BY TypeInit, GenuineInit, ProgressInit, OriginInit
<1>2. TypeOK /\ GenuineInv /\ ProgressInv /\ OriginInv /\ [Next]_vars
        => (TypeOK /\ GenuineInv /\ ProgressInv /\ OriginInv)'
  BY TypeNext, GenuineNext, ProgressNext, OriginNext
<1>3. QED
  BY <1>1, <1>2, InitMaps, StepMaps, PTL DEF Spec, ImplementsPromise, P!Spec

-----------------------------------------------------------------------------
(* What the promise is worth *)

\* An answer fits its terms, comes from a provider that was not given up, and is the
\* one its maker has got; a refusal leaves no provider but the one that refused last; and
\* no answer is charged for twice.
WorthOfPromise ==
    /\ \A r \in Requests : phases[r] \in {"won", "answered"} =>
          /\ given[r] \in FittingAnswers(terms[r])
          /\ given[r].provider \in Eligible(terms[r].home) \ out[r]
          /\ given[given[r].by] = given[r]
    /\ \A r \in Requests : phases[r] \in {"refused", "failed"} =>
          \E p : Eligible(terms[r].home) \ out[r] \subseteq {p}
    /\ \A row, other \in log :
          row.charged /\ other.charged /\ given[row.request] = given[other.request] =>
              row = other

\* The state of the promise; an answer is charged to the request it was made for alone.
PromiseTyped ==
    /\ phases \in [Requests -> {"new", "answered", "failed", "error", "lost"} \cup P!Pending]
    /\ terms \in [Requests -> AllTerms \cup {[query |-> None, home |-> None]}]
    /\ \A r \in Requests : phases[r] # "new" => terms[r] \in AllTerms
    /\ out \in [Requests -> SUBSET Names]
    /\ given \in [Requests -> Answers \cup {None}]
    /\ \A a \in made : a \in Answers /\ given[a.by] = a
    /\ \A r \in Requests : phases[r] \in {"new", "open", "refused", "failed"} => given[r] = None

LogSound ==
    /\ \A row \in log :
          /\ row.request \in Requests /\ phases[row.request] \notin {"new", "open"}
          /\ row.charged => given[row.request] # None /\ given[row.request].by = row.request
    /\ \A row, other \in log : row.request = other.request => row = other

WorthInv == PromiseTyped /\ LogSound /\ WorthOfPromise

LEMMA WorthInit == P!Init => WorthInv
BY DEF P!Init, WorthInv, PromiseTyped, LogSound, WorthOfPromise, P!Pending

\* Only the phases change, and of no request to one that asks more of it.
LEMMA WorthFrame ==
    ASSUME WorthInv, UNCHANGED <<terms, out, given, made, log>>,
           phases' \in [Requests -> {"new", "answered", "failed", "error", "lost"}
                                        \cup P!Pending],
           \A r \in Requests :
              \/ phases'[r] = phases[r]
              \/ phases[r] = "won" /\ phases'[r] = "answered"
              \/ phases[r] = "refused" /\ phases'[r] = "failed"
              \/ phases[r] # "new" /\ phases'[r] \in {"error", "lost"}
    PROVE  WorthInv'
<1>1. PromiseTyped' /\ LogSound'
  BY DEF WorthInv, PromiseTyped, LogSound, AllTerms
<1>2. WorthOfPromise'
  BY DEF WorthInv, WorthOfPromise, FittingAnswers, Eligible, RoutingProviders
<1>3. QED
  BY <1>1, <1>2 DEF WorthInv

LEMMA WorthWon ==
    ASSUME WorthInv, NEW r \in P!Open,
           NEW a \in [t \in AllTerms |-> FittingAnswers(t)][terms[r]], P!Win(r, a),
           \/ a \in made /\ UNCHANGED made
           \/ a.by = r /\ made' = made \cup {a}
    PROVE  WorthInv'
<1>1. /\ r \in Requests /\ phases[r] = "open" /\ terms[r] \in AllTerms /\ given[r] = None
      /\ given \in [Requests -> Answers \cup {None}]
  BY DEF P!Open, WorthInv, PromiseTyped
<1>2. a \in FittingAnswers(terms[r]) /\ a \in Answers /\ a # None /\ a.by \in Requests
  BY <1>1, NoneIsNoAnswer DEF FittingAnswers, Answers
<1>3. a.provider \in Eligible(terms[r].home) \ out[r]
  BY <1>1 DEF P!Win, P!Left
<1>4. /\ given' = [given EXCEPT ![r] = a] /\ phases' = [phases EXCEPT ![r] = "won"]
      /\ UNCHANGED <<terms, out, log>>
  BY DEF P!Win
<1>5. given'[a.by] = a
  BY <1>1, <1>2, <1>4 DEF WorthInv, PromiseTyped
\* Nobody else has an answer that r has made: r has had none.
<1>6. ASSUME NEW b \in Answers, given[b.by] = b
      PROVE  b.by # r /\ given'[b.by] = b
  <2>1. b # None /\ b.by \in Requests
    BY NoneIsNoAnswer DEF Answers
  <2>2. QED
    BY <1>1, <1>4, <1>6, <2>1
<1>7. PromiseTyped'
  <2>1. \A b \in made' : b \in Answers /\ given'[b.by] = b
    BY <1>2, <1>5, <1>6 DEF WorthInv, PromiseTyped
  <2>2. QED
    BY <1>1, <1>2, <1>4, <2>1 DEF WorthInv, PromiseTyped, P!Pending, AllTerms
<1>8. LogSound'
  BY <1>1, <1>4 DEF WorthInv, LogSound, PromiseTyped
<1>9. WorthOfPromise'
  <2>1. ASSUME NEW x \in Requests, phases'[x] \in {"won", "answered"}
        PROVE  /\ given'[x] \in FittingAnswers(terms'[x])
               /\ given'[x].provider \in Eligible(terms'[x].home) \ out'[x]
               /\ given'[given'[x].by] = given'[x]
    <3>1. CASE x = r
      BY <1>1, <1>2, <1>3, <1>4, <1>5, <3>1
    <3>2. CASE x # r
      <4>1. /\ phases[x] \in {"won", "answered"} /\ given'[x] = given[x]
            /\ terms'[x] = terms[x] /\ out'[x] = out[x]
        BY <1>1, <1>4, <2>1, <3>2 DEF WorthInv, PromiseTyped
      <4>2. given[x] \in Answers
        BY <4>1 DEF WorthInv, WorthOfPromise, FittingAnswers
      <4>3. QED
        BY <1>6, <4>1, <4>2 DEF WorthInv, WorthOfPromise
    <3>3. QED
      BY <3>1, <3>2
  <2>2. ASSUME NEW x \in Requests, phases'[x] \in {"refused", "failed"}
        PROVE  \E p : Eligible(terms'[x].home) \ out'[x] \subseteq {p}
    <3>1. phases[x] \in {"refused", "failed"}
      BY <1>1, <1>4, <2>2 DEF WorthInv, PromiseTyped
    <3>2. QED
      BY <1>4, <3>1 DEF WorthInv, WorthOfPromise
  <2>3. \A row, other \in log' :
           row.charged /\ other.charged /\ given'[row.request] = given'[other.request] =>
               row = other
    <3>1. \A row \in log' : given'[row.request] = given[row.request]
      BY <1>1, <1>4 DEF WorthInv, LogSound
    <3>2. QED
      BY <1>4, <3>1 DEF WorthInv, WorthOfPromise
  <2>4. QED
    BY <2>1, <2>2, <2>3 DEF WorthOfPromise, FittingAnswers, Eligible, RoutingProviders
<1>10. QED
  BY <1>7, <1>8, <1>9 DEF WorthInv

\* A row says what its request has come to, once.
LEMMA WorthLogged ==
    ASSUME WorthInv, NEW r \in Requests, P!Log(r)
    PROVE  WorthInv'
<1>1. /\ phases[r] \in {"won", "refused"} /\ \A row \in log : row.request # r
      /\ log' = log \cup {P!Row(r)} /\ UNCHANGED <<phases, terms, out, given, made>>
  BY DEF P!Log
<1>2. P!Row(r).request = r
  BY DEF P!Row
<1>3. P!Row(r).charged => given[r] # None /\ given[r].by = r
  <2>1. phases[r] = "won" => given[r] # None
    BY NoneIsNoAnswer DEF WorthInv, WorthOfPromise, FittingAnswers
  <2>2. QED
    BY <2>1 DEF P!Row
<1>4. PromiseTyped'
  BY <1>1 DEF WorthInv, PromiseTyped, AllTerms
<1>5. LogSound'
  <2>1. \A row \in log' :
           /\ row.request \in Requests /\ phases[row.request] \notin {"new", "open"}
           /\ row.charged => given[row.request] # None /\ given[row.request].by = row.request
    BY <1>1, <1>2, <1>3 DEF WorthInv, LogSound
  <2>2. \A row, other \in log' : row.request = other.request => row = other
    BY <1>1, <1>2 DEF WorthInv, LogSound
  <2>3. QED
    BY <1>1, <2>1, <2>2 DEF LogSound
<1>6. WorthOfPromise'
  <2>1. \A row, other \in log' :
           row.charged /\ other.charged /\ given'[row.request] = given'[other.request] =>
               row = other
    BY <1>1, <1>5 DEF LogSound
  <2>2. QED
    BY <1>1, <2>1 DEF WorthInv, WorthOfPromise, FittingAnswers, Eligible, RoutingProviders
<1>7. QED
  BY <1>4, <1>5, <1>6 DEF WorthInv

LEMMA WorthNext == WorthInv /\ [P!Next]_(P!vars) => WorthInv'
<1> SUFFICES ASSUME WorthInv, P!Next \/ UNCHANGED P!vars PROVE WorthInv'
  BY DEF P!vars
<1>0. /\ phases \in [Requests -> {"new", "answered", "failed", "error", "lost"}
                                    \cup P!Pending]
      /\ terms \in [Requests -> AllTerms \cup {[query |-> None, home |-> None]}]
      /\ out \in [Requests -> SUBSET Names]
      /\ \A r \in Requests : phases[r] # "new" => terms[r] \in AllTerms
  BY DEF WorthInv, PromiseTyped
<1>1. ASSUME NEW r \in Requests, NEW t \in AllTerms, P!Accept(r, t)
      PROVE  WorthInv'
  <2>1. /\ phases[r] = "new" /\ given[r] = None /\ terms' = [terms EXCEPT ![r] = t]
        /\ phases' = [phases EXCEPT ![r] = IF Eligible(t.home) = {} THEN "refused"
                                                                    ELSE "open"]
        /\ UNCHANGED <<out, given, made, log>>
    BY <1>1 DEF P!Accept, WorthInv, PromiseTyped
  <2>2. PromiseTyped' /\ LogSound'
    BY <1>0, <2>1 DEF WorthInv, PromiseTyped, LogSound, P!Pending, AllTerms
  <2>3. WorthOfPromise'
    <3>1. phases'[r] = "refused" => Eligible(terms'[r].home) = {}
      BY <1>0, <2>1
    <3>2. phases'[r] \in {"refused", "open"}
      BY <1>0, <2>1
    <3>3. \A x \in Requests \ {r} : phases'[x] = phases[x] /\ terms'[x] = terms[x]
      BY <1>0, <2>1
    <3>4. \A x \in Requests : phases'[x] \in {"won", "answered"} =>
             /\ given[x] \in FittingAnswers(terms'[x])
             /\ given[x].provider \in Eligible(terms'[x].home) \ out[x]
             /\ given[given[x].by] = given[x]
      BY <3>2, <3>3 DEF WorthInv, WorthOfPromise
    <3>5. \A x \in Requests : phases'[x] \in {"refused", "failed"} =>
             \E p : Eligible(terms'[x].home) \ out[x] \subseteq {p}
      BY <3>1, <3>2, <3>3 DEF WorthInv, WorthOfPromise
    <3>6. QED
      BY <2>1, <3>4, <3>5
         DEF WorthInv, WorthOfPromise, FittingAnswers, Eligible, RoutingProviders
  <2>4. QED
    BY <2>2, <2>3 DEF WorthInv
<1>2. ASSUME NEW r \in P!Open, NEW p \in P!Left(r), P!GiveUp(r, p)
      PROVE  WorthInv'
  <2>1. /\ r \in Requests /\ phases[r] = "open" /\ out' = [out EXCEPT ![r] = @ \cup {p}]
        /\ p \in Names /\ UNCHANGED <<phases, terms, given, made, log>>
    BY <1>0, <1>2 DEF P!GiveUp, P!Open, P!Left, Eligible, RoutingProviders, Names
  <2>2. \A x \in Requests : phases[x] # "open" => out'[x] = out[x]
    BY <1>0, <2>1
  <2>3. PromiseTyped' /\ LogSound'
    BY <1>0, <2>1 DEF WorthInv, PromiseTyped, LogSound, AllTerms
  <2>4. WorthOfPromise'
    BY <2>1, <2>2
       DEF WorthInv, WorthOfPromise, FittingAnswers, Eligible, RoutingProviders
  <2>5. QED
    BY <2>3, <2>4 DEF WorthInv
<1>3. ASSUME NEW r \in P!Open, NEW p \in P!Left(r), P!Refuse(r, p)
      PROVE  WorthInv'
  <2>1. /\ r \in Requests /\ phases[r] = "open" /\ terms[r] \in AllTerms
        /\ phases' = [phases EXCEPT ![r] = "refused"]
        /\ UNCHANGED <<terms, out, given, made, log>>
        /\ Eligible(terms[r].home) \ out[r] = {p}
    BY <1>0, <1>3 DEF P!Refuse, P!Open, P!Left
  <2>2. PromiseTyped' /\ LogSound'
    BY <1>0, <2>1 DEF WorthInv, PromiseTyped, LogSound, AllTerms, P!Pending
  <2>3. \A x \in Requests : x # r => phases'[x] = phases[x]
    BY <1>0, <2>1
  <2>4. phases'[r] = "refused"
    BY <1>0, <2>1
  <2>5. WorthOfPromise'
    BY <2>1, <2>3, <2>4
       DEF WorthInv, WorthOfPromise, FittingAnswers, Eligible, RoutingProviders
  <2>6. QED
    BY <2>2, <2>5 DEF WorthInv
<1>4. ASSUME NEW r \in P!Open, NEW a \in [t \in AllTerms |-> FittingAnswers(t)][terms[r]],
             P!Reuse(r, a) \/ P!Make(r, a)
      PROVE  WorthInv'
  BY <1>4, WorthWon DEF P!Reuse, P!Make
<1>5. ASSUME NEW r \in Requests, P!Log(r)
      PROVE  WorthInv'
  BY <1>5, WorthLogged
<1>6. ASSUME NEW r \in Requests, P!Close(r)
      PROVE  WorthInv'
  BY <1>0, <1>6, WorthFrame DEF P!Close
<1>7. CASE P!Lose
  BY <1>0, <1>7, WorthFrame DEF P!Lose, P!Pending
<1>8. CASE UNCHANGED P!vars
  BY <1>0, <1>8, WorthFrame DEF P!vars
<1>9. QED
  BY <1>1, <1>2, <1>3, <1>4, <1>5, <1>6, <1>7, <1>8 DEF P!Next

\* Whoever keeps the promise serves its clients well: an answer is what they asked for,
\* from a provider that has not failed them, and has been got by the request it was
\* made for, nobody is refused while more than one provider is left, and nobody is
\* charged for an answer that another request has made or is charged for.
THEOREM PromiseIsWorth == ImplementsPromise => []WorthOfPromise
<1>1. WorthInv => WorthOfPromise
  BY DEF WorthInv
<1>2. QED
  BY <1>1, WorthInit, WorthNext, PTL DEF ImplementsPromise, P!Spec

-----------------------------------------------------------------------------
(* What a row is built from *)

\* A request with an answer stands at the candidate that gave it, and has called
\* it unless the answer came from the cache.
Served ==
    \A r \in Requests : answer[r] # None =>
        /\ route[r] # <<>>
        /\ hit[r] <=> calls[r][Candidate(r)] = 0

\* A row is true when it is written, and what it is about does not change after.
TruthInv == Served /\ TelemetryTruth

\* What a row says of its request.
Holds(row) ==
    LET r == row.request IN
    IF row.status = "success"
    THEN /\ answer[r] # None
         /\ row.provider = answer[r].provider /\ row.model = answer[r].model
         /\ row.cache_hit <=> calls[r][row.provider] = 0
         /\ row.charged <=> answer[r].by = r
         /\ row.fallback_used <=> row.provider # route[r][1]
    ELSE /\ answer[r] = None
         /\ \A p \in Eligible(home[r]) : Exhausted(r, p)
         /\ IF route[r] = <<>> THEN row.error_category = "NoEligibleProviderError"
            ELSE row.error_category = fate[r][route[r][Len(route[r])]]

\* It keeps saying so while its request stays as it is.
LEMMA HoldsFrame ==
    ASSUME NEW row, NEW r, row.request = r, Holds(row),
           route'[r] = route[r], answer'[r] = answer[r], home'[r] = home[r],
           calls'[r] = calls[r], fate'[r] = fate[r]
    PROVE  Holds(row)'
BY DEF Holds, Exhausted

\* The row that a request is about to insert holds.
LEMMA NewRowHolds ==
    ASSUME TypeOK, GenuineInv, ProgressInv, OriginInv, Served,
           NEW r \in Requests, pc[r] = "record"
    PROVE  Holds(Row(r))
<1>1. CASE answer[r] # None
  <2>1. /\ route[r] # <<>> /\ (hit[r] <=> calls[r][Candidate(r)] = 0)
        /\ (hit[r] <=> answer[r].by # r) /\ answer[r].provider = Candidate(r)
        /\ hit[r] \in BOOLEAN
    BY <1>1 DEF Served, OriginInv, Paid, GenuineInv, AnswerIsGenuine, TypeOK
  <2>2. /\ idx[r] \in DOMAIN route[r]
        /\ \A i \in DOMAIN route[r] : i # idx[r] => route[r][i] # Candidate(r)
    BY <2>1, RoutedRequest DEF ProgressInv
  <2>3. route[r] \in Seq(Names) /\ idx[r] \in Nat /\ 1 \in DOMAIN route[r]
    BY <2>1 DEF TypeOK
  <2>4. idx[r] > 1 <=> Candidate(r) # route[r][1]
    BY <2>2, <2>3 DEF Candidate
  <2>5. Row(r) = [request |-> r, status |-> "success", provider |-> answer[r].provider,
                  model |-> answer[r].model, cache_hit |-> hit[r], charged |-> ~hit[r],
                  fallback_used |-> idx[r] > 1, error_category |-> None]
    BY <1>1 DEF Row, FallbackUsed
  <2>6. /\ Row(r).request = r /\ Row(r).status = "success"
        /\ Row(r).provider = answer[r].provider /\ Row(r).model = answer[r].model
        /\ Row(r).cache_hit = hit[r]
        /\ Row(r).charged = ~hit[r]
        /\ Row(r).fallback_used = (idx[r] > 1)
    BY <2>5
  <2>7. /\ Row(r).cache_hit <=> calls[r][answer[r].provider] = 0
        /\ Row(r).charged <=> answer[r].by = r
        /\ Row(r).fallback_used <=> answer[r].provider # route[r][1]
    BY <2>1, <2>4, <2>6
  <2>8. QED
    BY <1>1, <2>6, <2>7 DEF Holds
<1>2. CASE answer[r] = None
  <2>1. Progress(r)
    BY DEF ProgressInv
  <2>2. Row(r) = [request |-> r, status |-> "error", provider |-> None, model |-> None,
                  cache_hit |-> FALSE, charged |-> FALSE, fallback_used |-> FALSE,
                  error_category |-> fault[r]]
    BY <1>2 DEF Row
  <2>3. CASE route[r] = <<>>
    <3>1. fault[r] = "NoEligibleProviderError" /\ Eligible(home[r]) = {}
      BY <1>2, <2>1, <2>3 DEF Progress
    <3>2. QED
      BY <1>2, <2>2, <2>3, <3>1 DEF Holds
  <2>4. CASE route[r] # <<>>
    <3>1. /\ idx[r] = Len(route[r]) /\ Exhausted(r, Candidate(r))
          /\ fault[r] = fate[r][Candidate(r)]
          /\ \A i \in DOMAIN route[r] : i < idx[r] => Exhausted(r, route[r][i])
      BY <1>2, <2>1, <2>4 DEF Progress
    <3>2. \A p \in Eligible(home[r]) : \E i \in DOMAIN route[r] : route[r][i] = p
      BY <2>1, <2>4, RoutedRequest
    <3>3. \A i \in DOMAIN route[r] : i < idx[r] \/ i = idx[r]
      BY <3>1 DEF TypeOK
    <3>4. \A p \in Eligible(home[r]) : Exhausted(r, p)
      BY <3>1, <3>2, <3>3 DEF Candidate
    <3>5. QED
      BY <1>2, <2>2, <2>4, <3>1, <3>4 DEF Holds, Candidate
  <2>5. QED
    BY <2>3, <2>4
<1>3. QED
  BY <1>1, <1>2

LEMMA TruthIsHolds == TelemetryTruth <=> \A row \in rows : Holds(row)
BY DEF TelemetryTruth, Holds

-----------------------------------------------------------------------------
(* Rows stay true *)

\* What a request that is past its insert keeps.
Settled(r) ==
    /\ route'[r] = route[r] /\ answer'[r] = answer[r] /\ home'[r] = home[r]
    /\ calls'[r] = calls[r] /\ fate'[r] = fate[r]

LEMMA RowsSettled ==
    ASSUME TypeOK, [Next]_vars, NEW x \in Requests, pc[x] \in {"recorded"} \cup Ended
    PROVE  Settled(x)
<1> USE DEF shared, fixed, Ended, Settled
<1>1. ASSUME NEW r \in Requests, NEW q \in Queries,
             ArriveNoProvider(r, q) \/ Arrive(r, q)
      PROVE  Settled(x)
  BY <1>1 DEF ArriveNoProvider, Arrive, TypeOK
<1>2. ASSUME NEW r \in Requests, LookupHit(r) \/ LookupMiss(r) \/ Backoff(r)
      PROVE  Settled(x)
  BY <1>2 DEF LookupHit, LookupMiss, Backoff, TypeOK
<1>3. ASSUME NEW r \in Requests, NEW l \in Latencies, AttemptSucceeds(r, l)
      PROVE  Settled(x)
  BY <1>3 DEF AttemptSucceeds, TypeOK
<1>4. ASSUME NEW r \in Requests, NEW e \in Errors,
             AttemptRetries(r, e) \/ AttemptFallsBack(r, e) \/ AttemptExhausts(r, e)
      PROVE  Settled(x)
  <2>1. /\ pc[r] = "attempt" /\ UNCHANGED <<route, answer, home>>
        /\ fate' = [fate EXCEPT ![r][Candidate(r)] = e]
        /\ \/ UNCHANGED calls
           \/ calls' = [calls EXCEPT ![r][Candidate(r)] = @ + 1]
    BY <1>4 DEF AttemptRetries, AttemptFallsBack, AttemptExhausts, Fails
  <2>2. QED
    BY <2>1 DEF TypeOK
<1>5. ASSUME NEW r \in Requests, AttemptRaises(r) \/ Store(r) \/ Record(r) \/ Return(r)
      PROVE  Settled(x)
  BY <1>5 DEF AttemptRaises, Store, Record, Return
<1>6. CASE \/ \E k \in CacheKeys : Expire(k)
           \/ \E d \in Configs : Restart(d)
           \/ UNCHANGED vars
  BY <1>6 DEF Expire, Restart, vars
<1>7. QED
  BY <1>1, <1>2, <1>3, <1>4, <1>5, <1>6 DEF Next, Serve, Idle

LEMMA RowsGrow ==
    ASSUME [Next]_vars, NEW row \in rows', row \notin rows
    PROVE  \E r \in Requests : row = Row(r) /\ Record(r)
<1> USE DEF shared, fixed
<1>1. CASE \E r \in Requests : Record(r)
  BY <1>1 DEF Record, Inserted
<1>2. CASE UNCHANGED rows
  BY <1>2
<1>3. UNCHANGED rows \/ \E r \in Requests : Record(r)
  BY DEF Next, Serve, Idle, vars, ArriveNoProvider, Arrive, LookupHit, LookupMiss,
         AttemptSucceeds, AttemptRetries, AttemptFallsBack, AttemptExhausts, Fails,
         AttemptRaises, Backoff, Store, Return, Expire, Restart
<1>4. QED
  BY <1>1, <1>2, <1>3

LEMMA ServedNext ==
    ASSUME TypeOK, GenuineInv, ProgressInv, Served, [Next]_vars
    PROVE  Served'
<1> USE DEF shared, fixed
\* A request that neither gets an answer nor moves keeps what it has.
<1>1. ASSUME NEW r \in Requests, NEW x \in Requests,
             x # r \/ answer[r] # None,
             answer'[x] = answer[x], hit'[x] = hit[x], calls'[x] = calls[x],
             route'[x] = route[x], idx'[x] = idx[x], answer'[x] # None
      PROVE  route'[x] # <<>> /\ (hit'[x] <=> calls'[x][Candidate(x)'] = 0)
  BY <1>1 DEF Served, Candidate
<1>2. ASSUME NEW r \in Requests, NEW q \in Queries,
             ArriveNoProvider(r, q) \/ Arrive(r, q)
      PROVE  Served'
  <2>1. answer[r] = None
    BY <1>2 DEF ArriveNoProvider, Arrive, GenuineInv, Unanswered, Early
  <2>2. /\ UNCHANGED <<answer, hit, calls>>
        /\ \A x \in Requests \ {r} : route'[x] = route[x] /\ idx'[x] = idx[x]
    BY <1>2 DEF ArriveNoProvider, Arrive, TypeOK
  <2>3. QED
    BY <2>1, <2>2, <1>1 DEF Served
<1>3. ASSUME NEW r \in Requests, LookupHit(r)
      PROVE  Served'
  <2>1. /\ pc[r] = "lookup" /\ route[r] # <<>> /\ calls[r][Candidate(r)] = 0
        /\ hit' = [hit EXCEPT ![r] = TRUE]
        /\ \A x \in Requests \ {r} : answer'[x] = answer[x]
        /\ UNCHANGED <<route, idx, calls>>
    BY <1>3 DEF LookupHit, TypeOK, ProgressInv, Progress, Untouched
  <2>2. hit'[r] = TRUE /\ \A x \in Requests \ {r} : hit'[x] = hit[x]
    BY <2>1 DEF TypeOK
  <2>3. Candidate(r)' = Candidate(r)
    BY <2>1 DEF Candidate
  <2>4. QED
    BY <2>1, <2>2, <2>3, <1>1 DEF Served
<1>4. ASSUME NEW r \in Requests, NEW l \in Latencies, AttemptSucceeds(r, l)
      PROVE  Served'
  <2>1. /\ pc[r] = "attempt" /\ route[r] # <<>>
        /\ calls[r][Candidate(r)] = tries[r] + 1 /\ tries[r] \in 0..MaxRetries
        /\ hit' = [hit EXCEPT ![r] = FALSE]
        /\ \A x \in Requests \ {r} : answer'[x] = answer[x]
        /\ UNCHANGED <<route, idx, calls>>
    BY <1>4 DEF AttemptSucceeds, TypeOK, ProgressInv, Progress
  <2>2. hit'[r] = FALSE /\ \A x \in Requests \ {r} : hit'[x] = hit[x]
    BY <2>1 DEF TypeOK
  <2>3. Candidate(r)' = Candidate(r) /\ calls[r][Candidate(r)] # 0
    BY <2>1, CompletionAssumption DEF Candidate
  <2>4. QED
    BY <2>1, <2>2, <2>3, <1>1 DEF Served
\* The steps of a request that holds no answer yet.
<1>5. ASSUME NEW r \in Requests, NEW c,
             pc[r] \in Early, UNCHANGED <<route, answer, hit>>,
             \A x \in Requests \ {r} : idx'[x] = idx[x] /\ calls'[x] = calls[x]
      PROVE  Served'
  <2>1. answer[r] = None
    BY <1>5 DEF GenuineInv, Unanswered
  <2>2. QED
    BY <1>5, <2>1, <1>1 DEF Served
<1>6. ASSUME NEW r \in Requests, LookupMiss(r) \/ Backoff(r) \/ AttemptRaises(r)
      PROVE  Served'
  <2>1. /\ pc[r] \in Early /\ UNCHANGED <<route, answer, hit>>
        /\ \A x \in Requests \ {r} : idx'[x] = idx[x] /\ calls'[x] = calls[x]
    BY <1>6 DEF LookupMiss, Backoff, AttemptRaises, Early, TypeOK
  <2>2. QED
    BY <2>1, <1>5
<1>7. ASSUME NEW r \in Requests, NEW e \in Errors,
             AttemptRetries(r, e) \/ AttemptFallsBack(r, e) \/ AttemptExhausts(r, e)
      PROVE  Served'
  <2>1. /\ pc[r] \in Early /\ UNCHANGED <<route, answer, hit>>
        /\ \A x \in Requests \ {r} : idx'[x] = idx[x] /\ calls'[x] = calls[x]
    BY <1>7 DEF AttemptRetries, AttemptFallsBack, AttemptExhausts, Fails, Early, TypeOK
  <2>2. QED
    BY <2>1, <1>5
<1>8. CASE UNCHANGED <<route, idx, answer, hit, calls>>
  BY <1>8 DEF Served, Candidate
<1>9. QED
  BY <1>2, <1>3, <1>4, <1>6, <1>7, <1>8
     DEF Next, Serve, Idle, vars, Store, Record, Return, Expire, Restart

LEMMA TruthNext ==
    ASSUME TypeOK, GenuineInv, ProgressInv, OriginInv, TruthInv, [Next]_vars
    PROVE  TruthInv'
<1>1. Served'
  BY ServedNext DEF TruthInv
<1>2. ASSUME NEW row \in rows'
      PROVE  Holds(row)'
  <2>1. CASE row \in rows
    <3> DEFINE r == row.request
    <3>1. r \in Requests /\ pc[r] \in {"recorded"} \cup Ended /\ Holds(row)
      BY <2>1, TruthIsHolds DEF TypeOK, Rows, OriginInv, RowsArePast, TruthInv
    <3>2. Settled(r)
      BY <3>1, RowsSettled
    <3>3. QED
      BY <3>1, <3>2, HoldsFrame DEF Settled
  <2>2. CASE row \notin rows
    <3>1. PICK r \in Requests : row = Row(r) /\ Record(r)
      BY <2>2, RowsGrow
    <3>2. Holds(row) /\ row.request = r
      BY <3>1, NewRowHolds DEF TruthInv, Record, Row
    <3>3. /\ route' = route /\ answer' = answer /\ home' = home
          /\ calls' = calls /\ fate' = fate
      BY <3>1 DEF Record, fixed
    <3>4. QED
      BY <3>2, <3>3, HoldsFrame
  <2>3. QED
    BY <2>1, <2>2
<1>3. TelemetryTruth'
  BY <1>2 DEF TelemetryTruth, Holds
<1>4. QED
  BY <1>1, <1>3 DEF TruthInv

LEMMA OriginAlways == Spec => [](TypeOK /\ GenuineInv /\ ProgressInv /\ OriginInv)
<1>1. Init => TypeOK /\ GenuineInv /\ ProgressInv /\ OriginInv
  BY TypeInit, GenuineInit, ProgressInit, OriginInit
<1>2. TypeOK /\ GenuineInv /\ ProgressInv /\ OriginInv /\ [Next]_vars
        => (TypeOK /\ GenuineInv /\ ProgressInv /\ OriginInv)'
  BY TypeNext, GenuineNext, ProgressNext, OriginNext
<1>3. QED
  BY <1>1, <1>2, PTL DEF Spec

\* Every row that is ever read says what happened to its request, whatever fails and
\* however the requests interleave: whether the provider was called, who pays, whether
\* the first choice answered, and which failure was the last.
THEOREM TelemetryIsTrue == Spec => []TelemetryTruth
<1>1. Init => TruthInv
  BY DEF Init, TruthInv, Served, TelemetryTruth
<1>2. TypeOK /\ GenuineInv /\ ProgressInv /\ OriginInv /\ TruthInv /\ [Next]_vars
        => TruthInv'
  BY TruthNext
<1>3. TruthInv => TelemetryTruth
  BY DEF TruthInv
<1>4. QED
  BY <1>1, <1>2, <1>3, OriginAlways, PTL DEF Spec

-----------------------------------------------------------------------------
(* No completion is missing *)

RowsOf(r) == {row \in rows : row.request = r}

\* While nothing but Redis and the process fails, a request has a row once it is
\* past its insert, and leaves the service in no other way.
Logged ==
    \A r \in Requests :
        /\ pc[r] # "error"
        /\ pc[r] \in {"recorded", "answered", "failed"} => \E row : RowsOf(r) = {row}

LEMMA LoggedNext ==
    ASSUME Faults \cap {"postgres", "adapter"} = {},
           TypeOK, OriginInv, Logged, [Next]_vars
    PROVE  Logged'
<1> USE DEF shared, fixed
<1>1. ASSUME NEW r \in Requests, Record(r)
      PROVE  Logged'
  <2>1. /\ pc[r] = "record" /\ pc' = [pc EXCEPT ![r] = "recorded"]
        /\ rows' = rows \cup {Row(r)} /\ Row(r).request = r
    BY <1>1 DEF Record, Inserted, Row
  <2>2. RowsOf(r) = {}
    BY <2>1 DEF RowsOf, OriginInv, RowsArePast, Ended, TypeOK, Rows
  <2>3. RowsOf(r)' = {Row(r)}
    BY <2>1, <2>2 DEF RowsOf
  <2>4. \A x \in Requests \ {r} : RowsOf(x)' = RowsOf(x) /\ pc'[x] = pc[x]
    BY <2>1 DEF RowsOf, TypeOK
  <2>5. pc'[r] = "recorded"
    BY <2>1 DEF TypeOK
  <2>6. QED
    BY <2>3, <2>4, <2>5 DEF Logged
\* A step that inserts nothing and lets nobody past the insert.
<1>2. ASSUME UNCHANGED rows,
             \A x \in Requests :
                \/ pc'[x] = pc[x]
                \/ pc'[x] \in {"lookup", "attempt", "backoff", "store", "record", "lost"}
                \/ pc[x] = "recorded" /\ pc'[x] \in {"answered", "failed"}
      PROVE  Logged'
  BY <1>2 DEF Logged, RowsOf
<1>3. ASSUME NEW r \in Requests, NEW q \in Queries,
             ArriveNoProvider(r, q) \/ Arrive(r, q)
      PROVE  Logged'
  BY <1>3, <1>2 DEF ArriveNoProvider, Arrive, TypeOK
<1>4. ASSUME NEW r \in Requests, LookupHit(r) \/ LookupMiss(r) \/ Backoff(r) \/ Store(r)
      PROVE  Logged'
  BY <1>4, <1>2 DEF LookupHit, LookupMiss, Backoff, Store, TypeOK
<1>5. ASSUME NEW r \in Requests, NEW l \in Latencies, AttemptSucceeds(r, l)
      PROVE  Logged'
  BY <1>5, <1>2 DEF AttemptSucceeds, TypeOK
<1>6. ASSUME NEW r \in Requests, NEW e \in Errors,
             AttemptRetries(r, e) \/ AttemptFallsBack(r, e) \/ AttemptExhausts(r, e)
      PROVE  Logged'
  BY <1>6, <1>2 DEF AttemptRetries, AttemptFallsBack, AttemptExhausts, Fails, TypeOK
<1>7. ASSUME NEW r \in Requests, Return(r)
      PROVE  Logged'
  BY <1>7, <1>2 DEF Return, TypeOK
<1>8. CASE \/ \E k \in CacheKeys : Expire(k)
           \/ \E d \in Configs : Restart(d)
           \/ UNCHANGED vars
  BY <1>8, <1>2 DEF Expire, Restart, vars
<1>9. ASSUME NEW r \in Requests
      PROVE  ~AttemptRaises(r)
  BY DEF AttemptRaises
<1>10. QED
  BY <1>1, <1>3, <1>4, <1>5, <1>6, <1>7, <1>8, <1>9 DEF Next, Serve, Idle

\* As long as PostgreSQL commits and the providers' clients raise nothing but
\* ProviderErrors, every completion that gets an outcome leaves exactly one row,
\* though Redis fails and the process restarts.
THEOREM NoCompletionIsMissing ==
    Faults \cap {"postgres", "adapter"} = {} => (Spec => []OneRowPerCompletion)
<1> SUFFICES ASSUME Faults \cap {"postgres", "adapter"} = {}
             PROVE  Spec => []OneRowPerCompletion
  OBVIOUS
<1>1. Init => Logged
  BY DEF Init, Logged
<1>2. TypeOK /\ OriginInv /\ Logged /\ [Next]_vars => Logged'
  BY LoggedNext
<1>3. Logged => OneRowPerCompletion
  BY FS_Singleton DEF Logged, RowsOf, OneRowPerCompletion
<1>4. QED
  BY <1>1, <1>2, <1>3, OriginAlways, PTL DEF Spec
=============================================================================
