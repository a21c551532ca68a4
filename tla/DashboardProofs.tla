--------------------------- MODULE DashboardProofs ---------------------------
(***************************************************************************)
(* Theorems about Dashboard for any number of rows, of refreshes under way *)
(* at a time, and any combination of faults; and about Lifecycle, for any  *)
(* set of URLs: the page is as right across starts, stops and outages, and *)
(* no start gets stuck on a URL that was accepted.                         *)
(***************************************************************************)
EXTENDS Lifecycle, FiniteSetTheorems, WellFoundedInduction, TLAPS

-----------------------------------------------------------------------------
(* Rows are written once *)

\* A step leaves committed rows committed, with what they say.
LEMMA RowsStay ==
    ASSUME TypeOK, [Next]_vars
    PROVE  /\ Committed \subseteq Committed'
           /\ \A i \in Committed : rows'[i] = rows[i]
<1> USE DEF Committed, table
<1>1. ASSUME NEW i \in Ids, NEW kind \in Kinds, Commit(i, kind)
      PROVE  \A j \in Ids : rows[j] # None => rows'[j] = rows[j]
  BY <1>1 DEF Commit, TypeOK
<1>2. ASSUME NEW k \in Fetchers, Answer(k)
      PROVE  rows' = rows
  BY <1>2 DEF Answer, ReadTotals, ReadBreakdown, ReadRecent, SummaryFails, RecentFails
<1>3. CASE Visit \/ LoadFails
  BY <1>3 DEF Visit, LoadFails
<1>4. ASSUME NEW k \in Slots, Open(k) \/ Poll(k) \/ Render(k) \/ Report(k)
      PROVE  rows' = rows
  BY <1>4 DEF Open, Poll, Render, Report
<1>5. CASE UNCHANGED vars
  BY <1>5 DEF vars
<1>6. QED
  BY <1>1, <1>2, <1>3, <1>4, <1>5 DEF Next

LEMMA CommittedAreIds == Committed \subseteq Ids /\ Newest(Committed) \subseteq Committed
BY DEF Committed, Newest

-----------------------------------------------------------------------------
(* Type correctness *)

LEMMA TypeInit == Init => TypeOK
BY DEF Init, TypeOK, Fetchers, Committed, Settled

LEMMA TypeNext == TypeOK /\ [Next]_vars => TypeOK'
<1> SUFFICES ASSUME TypeOK, [Next]_vars PROVE TypeOK'
  OBVIOUS
<1>0. Committed \subseteq Committed' /\ Committed \subseteq Ids
  BY RowsStay, CommittedAreIds
<1> USE DEF TypeOK, table, reads, screen, Settled
<1>1. ASSUME NEW i \in Ids, NEW kind \in Kinds, Commit(i, kind)
      PROVE  TypeOK'
  BY <1>0, <1>1 DEF Commit
<1>2. ASSUME NEW k \in Fetchers, ReadTotals(k) \/ ReadBreakdown(k) \/ ReadRecent(k)
      PROVE  TypeOK'
  <2>1. Committed' = Committed
    BY <1>2 DEF ReadTotals, ReadBreakdown, ReadRecent, Committed
  <2>2. CASE ReadTotals(k)
    BY <2>1, <2>2 DEF ReadTotals
  <2>3. CASE ReadBreakdown(k)
    BY <2>1, <2>3 DEF ReadBreakdown
  <2>4. CASE ReadRecent(k)
    <3>1. Newest(Committed) \in SUBSET Committed
      BY CommittedAreIds
    <3>2. QED
      BY <2>1, <2>4, <3>1 DEF ReadRecent
  <2>5. QED
    BY <1>2, <2>2, <2>3, <2>4
<1>3. ASSUME NEW k \in Fetchers, SummaryFails(k) \/ RecentFails(k)
      PROVE  TypeOK'
  <2>1. Committed' = Committed
    BY <1>3 DEF SummaryFails, RecentFails, Committed
  <2>2. Outcomes \subseteq {"refused", "broken"}
    BY DEF Outcomes
  <2>3. CASE SummaryFails(k)
    BY <2>1, <2>2, <2>3 DEF SummaryFails
  <2>4. CASE RecentFails(k)
    BY <2>1, <2>2, <2>4 DEF RecentFails
  <2>5. QED
    BY <1>3, <2>3, <2>4
<1>4. CASE Visit \/ LoadFails
  <2>1. Committed' = Committed /\ PageLoad \in Fetchers
    BY <1>4 DEF Visit, LoadFails, Committed, Fetchers
  <2>2. PageLoad \notin Slots /\ Slots \subseteq Fetchers
    BY DashboardAssumption DEF Fetchers
  <2>3. CASE Visit
    BY <2>1, <2>2, <2>3 DEF Visit, Send
  <2>4. CASE LoadFails
    BY <2>1, <2>2, <2>4 DEF LoadFails, Close
  <2>5. QED
    BY <1>4, <2>3, <2>4
<1>5. ASSUME NEW k \in Slots, Open(k)
      PROVE  TypeOK'
  <2>1. Committed' = Committed /\ PageLoad \in Fetchers /\ k \in Fetchers
    BY <1>5 DEF Open, Committed, Fetchers
  <2>2. Picture(PageLoad) \in Pictures /\ Picture(PageLoad) # None
    BY <1>0, <2>1, NoneIsNoData DEF Picture, Pictures
  <2>3. QED
    BY <1>5, <2>1, <2>2 DEF Open, Show, Close
<1>6. ASSUME NEW k \in Slots, Poll(k) \/ Report(k)
      PROVE  TypeOK'
  <2>1. Committed' = Committed /\ k \in Fetchers
    BY <1>6 DEF Poll, Report, Committed, Fetchers
  <2>2. QED
    BY <1>6, <2>1 DEF Poll, Report, Send, Finish, Close
<1>7. ASSUME NEW k \in Slots, Render(k)
      PROVE  TypeOK'
  <2>1. Committed' = Committed /\ k \in Fetchers
    BY <1>7 DEF Render, Committed, Fetchers
  <2>2. Picture(k) \in Pictures /\ Picture(k) # None
    BY <1>0, <2>1, NoneIsNoData DEF Picture, Pictures
  <2>3. page = "open"
    BY <1>7, <2>1 DEF Render
  <2>4. QED
    BY <1>7, <2>1, <2>2, <2>3 DEF Render, Show, Finish, Close
<1>8. CASE UNCHANGED vars
  BY <1>8 DEF vars, Committed
<1>9. QED
  BY <1>1, <1>2, <1>3, <1>4, <1>5, <1>6, <1>7, <1>8 DEF Next, Answer

\* Every statement sees committed rows only, and a page that refreshes itself is
\* open and shows something.
THEOREM TypeCorrect == Spec => []TypeOK
BY TypeInit, TypeNext, PTL DEF Spec

-----------------------------------------------------------------------------
(* Freshness *)

\* What a fetch has read so far covers what was committed when it was sent, and
\* what an earlier statement saw.
Covers(k) ==
    /\ summary[k] \in {"half", "ok"} => asked[k] \subseteq totals[k]
    /\ summary[k] = "ok" => totals[k] \subseteq breakdown[k]

FreshInv ==
    /\ \A k \in Fetchers : Covers(k)
    /\ shown # None => /\ shown.asked \subseteq shown.totals
                       /\ shown.totals \subseteq shown.breakdown
                       /\ shown.breakdown \subseteq Committed

LEMMA FreshInit == Init => FreshInv
BY DEF Init, FreshInv, Covers

LEMMA FreshNext == TypeOK /\ FreshInv /\ [Next]_vars => FreshInv'
<1> SUFFICES ASSUME TypeOK, FreshInv, [Next]_vars PROVE FreshInv'
  OBVIOUS
<1>0. Committed \subseteq Committed'
  BY RowsStay
<1> USE DEF FreshInv, Covers, table, reads, screen
<1>1. ASSUME NEW i \in Ids, NEW kind \in Kinds, Commit(i, kind)
      PROVE  FreshInv'
  BY <1>0, <1>1 DEF Commit
<1>2. ASSUME NEW k \in Fetchers, Answer(k)
      PROVE  FreshInv'
  <2>1. CASE ReadTotals(k) \/ ReadBreakdown(k)
    BY <1>0, <2>1 DEF ReadTotals, ReadBreakdown, TypeOK
  <2>2. CASE ReadRecent(k) \/ RecentFails(k)
    BY <1>0, <2>2 DEF ReadRecent, RecentFails, TypeOK
  <2>3. CASE SummaryFails(k)
    <3>1. Outcomes \cap {"half", "ok"} = {}
      BY DEF Outcomes
    <3>2. QED
      BY <1>0, <2>3, <3>1 DEF SummaryFails, TypeOK
  <2>4. QED
    BY <1>2, <2>1, <2>2, <2>3 DEF Answer
<1>3. CASE Visit \/ LoadFails
  BY <1>0, <1>3 DEF Visit, LoadFails, Send, Close, Fetchers, TypeOK
<1>4. ASSUME NEW k \in Slots, Open(k)
      PROVE  FreshInv'
  <2>1. /\ PageLoad \in Fetchers /\ k \in Fetchers
        /\ summary[PageLoad] = "ok" /\ shown' = Picture(PageLoad)
    BY <1>4 DEF Open, Show, Fetchers
  <2>2. Covers(PageLoad) /\ breakdown[PageLoad] \subseteq Committed
    BY <2>1 DEF TypeOK
  <2>3. /\ shown'.asked \subseteq shown'.totals
        /\ shown'.totals \subseteq shown'.breakdown
        /\ shown'.breakdown \subseteq Committed'
    BY <1>0, <2>1, <2>2 DEF Picture
  <2>4. \A j \in Fetchers : Covers(j)'
    BY <1>4, <2>1 DEF Open, Show, Close, TypeOK
  <2>5. QED
    BY <2>3, <2>4
<1>5. ASSUME NEW k \in Slots, Poll(k) \/ Report(k)
      PROVE  FreshInv'
  BY <1>0, <1>5 DEF Poll, Report, Send, Finish, Close, Fetchers, TypeOK
<1>6. ASSUME NEW k \in Slots, Render(k)
      PROVE  FreshInv'
  <2>1. /\ k \in Fetchers /\ summary[k] = "ok" /\ shown' = Picture(k)
    BY <1>6 DEF Render, Show, Fetchers
  <2>2. Covers(k) /\ breakdown[k] \subseteq Committed
    BY <2>1 DEF TypeOK
  <2>3. /\ shown'.asked \subseteq shown'.totals
        /\ shown'.totals \subseteq shown'.breakdown
        /\ shown'.breakdown \subseteq Committed'
    BY <1>0, <2>1, <2>2 DEF Picture
  <2>4. \A j \in Fetchers : Covers(j)'
    BY <1>6, <2>1 DEF Render, Show, Finish, Close, TypeOK
  <2>5. QED
    BY <2>3, <2>4
<1>7. CASE UNCHANGED vars
  BY <1>7 DEF vars, Committed
<1>8. QED
  BY <1>1, <1>2, <1>3, <1>4, <1>5, <1>6, <1>7 DEF Next

LEMMA FreshAlways == Spec => [](TypeOK /\ FreshInv)
<1>1. Init => TypeOK /\ FreshInv
  BY TypeInit, FreshInit
<1>2. TypeOK /\ FreshInv /\ [Next]_vars => (TypeOK /\ FreshInv)'
  BY TypeNext, FreshNext
<1>3. QED
  BY <1>1, <1>2, PTL DEF Spec

\* However refreshes overlap and rows are committed between two statements, what is
\* shown counts every row that was committed when the refresh was sent.
THEOREM PagesAreFresh == Spec => []AsFreshAsAsked
<1>1. FreshInv => AsFreshAsAsked
  BY DEF FreshInv, AsFreshAsAsked
<1>2. QED
  BY <1>1, FreshAlways, PTL

-----------------------------------------------------------------------------
(* The counters *)

\* Disjoint finite sets are counted separately.
LEMMA DisjointCount ==
    ASSUME NEW S, NEW R, IsFiniteSet(S), IsFiniteSet(R), S \cap R = {}
    PROVE  /\ IsFiniteSet(S \cup R)
           /\ Cardinality(S \cup R) = Cardinality(S) + Cardinality(R)
<1>1. Cardinality(S) \in Nat /\ Cardinality(R) \in Nat
  BY FS_CardinalityType
<1>2. Cardinality(S \cap R) = 0
  BY FS_EmptySet
<1>3. /\ IsFiniteSet(S \cup R)
      /\ Cardinality(S \cup R) = Cardinality(S) + Cardinality(R) - Cardinality(S \cap R)
  BY FS_Union
<1>4. QED
  BY <1>1, <1>2, <1>3

\* A finite set of rows, split by provider, is counted exactly.
LEMMA SplitByProvider ==
    ASSUME TypeOK, NEW B, B \subseteq Committed
    PROVE  /\ IsFiniteSet(B)
           /\ IsFiniteSet(Successful(B))
           /\ Cardinality(Successful(B)) =
                 Cardinality(OfProvider(B, "openai")) + Cardinality(OfProvider(B, "gemini"))
                   + Cardinality(OfProvider(B, "mock"))
<1> DEFINE o == OfProvider(B, "openai")
           g == OfProvider(B, "gemini")
           m == OfProvider(B, "mock")
<1>1. IsFiniteSet(Ids)
  BY DashboardAssumption, FS_Interval DEF Ids
<1>2. IsFiniteSet(B)
  BY <1>1, CommittedAreIds, FS_Subset
<1>3. Successful(B) \subseteq B /\ o \subseteq B /\ g \subseteq B /\ m \subseteq B
  BY DEF Successful, OfProvider
<1>4. IsFiniteSet(Successful(B)) /\ IsFiniteSet(o) /\ IsFiniteSet(g) /\ IsFiniteSet(m)
  BY <1>2, <1>3, FS_Subset
<1>5. \A i \in B : rows[i].provider \in {"openai", "gemini", "mock", None}
  BY DashboardAssumption DEF TypeOK, Committed, RowKinds, Names
<1>6. None \notin {"openai", "gemini", "mock"}
  BY DashboardAssumption DEF Names
<1>7. /\ Successful(B) = (o \cup g) \cup m
      /\ o \cap g = {} /\ (o \cup g) \cap m = {}
  BY <1>5, <1>6 DEF Successful, OfProvider
<1> HIDE DEF o, g, m
<1>8. /\ IsFiniteSet(o \cup g)
      /\ Cardinality(o \cup g) = Cardinality(o) + Cardinality(g)
  BY <1>4, <1>7, DisjointCount
<1>9. Cardinality((o \cup g) \cup m) = Cardinality(o \cup g) + Cardinality(m)
  BY <1>4, <1>7, <1>8, DisjointCount
<1>10. QED
  BY <1>2, <1>4, <1>7, <1>8, <1>9 DEF o, g, m

LEMMA FreshCounters == TypeOK /\ FreshInv => CountersAgree
<1> SUFFICES ASSUME TypeOK, FreshInv, shown # None
             PROVE  LET T == shown.totals  B == shown.breakdown IN
                    /\ CacheHits(T) \cup Fallbacks(T) \subseteq Successful(T)
                    /\ Cardinality(Successful(T))
                          <= Cardinality(OfProvider(B, "openai"))
                               + Cardinality(OfProvider(B, "gemini"))
                               + Cardinality(OfProvider(B, "mock"))
  BY DEF CountersAgree
<1> DEFINE T == shown.totals
           B == shown.breakdown
<1>1. T \subseteq B /\ B \subseteq Committed
  BY DEF FreshInv
<1>2. \A i \in Committed : rows[i] \in RowKinds
  BY DashboardAssumption DEF TypeOK, Committed
<1>3. CacheHits(T) \cup Fallbacks(T) \subseteq Successful(T)
  BY <1>1, <1>2 DEF CacheHits, Fallbacks, Successful, RowKinds
<1>4. Successful(T) \subseteq Successful(B) /\ IsFiniteSet(Successful(B))
  BY <1>1, SplitByProvider DEF Successful
<1>5. Cardinality(Successful(T)) <= Cardinality(Successful(B))
  BY <1>4, FS_Subset
<1>6. QED
  BY <1>1, <1>3, <1>5, SplitByProvider

\* The totals and the table by provider come from different statements, and still
\* the table accounts for every success the totals claim.
THEOREM CountersStayTogether == Spec => []CountersAgree
BY FreshAlways, FreshCounters, PTL

-----------------------------------------------------------------------------
(* The list of recent requests *)

LEMMA LargestId ==
    ASSUME NEW S, S \subseteq Ids, S # {}
    PROVE  \E m \in S : \A x \in S : x <= m
<1> DEFINE D == {MaxRows - x : x \in S}
<1>1. MaxRows \in Nat /\ \A x \in S : x \in Nat /\ MaxRows - x \in Nat
  BY DashboardAssumption DEF Ids
<1>2. D \subseteq Nat /\ D # {}
  BY <1>1
<1> HIDE DEF D
<1>3. PICK d \in D : \A e \in D : <<e, d>> \notin OpToRel(<, Nat)
  BY <1>2, WFMin, NatLessThanWellFounded, Zenon
<1>4. \A e \in D : ~(e < d)
  BY <1>2, <1>3, Zenon DEF OpToRel
<1>5. PICK m \in S : d = MaxRows - m
  BY <1>3 DEF D
<1>6. \A x \in S : ~(MaxRows - x < MaxRows - m)
  BY <1>4, <1>5 DEF D
<1>7. QED
  BY <1>1, <1>5, <1>6

\* The list L is complete for the rows A: who is missing was pushed off its end.
Lists(L, A) == \A i \in A \ L : Cardinality({j \in L : j > i}) >= Limit

\* Among the rows that are not listed, the newest has Limit newer ones, all of them
\* listed; and so has every older row.
LEMMA NewestLists ==
    ASSUME NEW V, V \subseteq Ids
    PROVE  Lists(Newest(V), V)
<1> SUFFICES ASSUME NEW i \in V \ Newest(V)
             PROVE  Cardinality({j \in Newest(V) : j > i}) >= Limit
  BY DEF Lists
<1> DEFINE S == {x \in V \ Newest(V) : x >= i}
<1>0. IsFiniteSet(Ids) /\ Ids \subseteq Nat
  BY DashboardAssumption, FS_Interval DEF Ids
<1>1. V \subseteq Nat /\ IsFiniteSet(V)
  BY <1>0, FS_Subset
<1>2. S \subseteq Ids /\ i \in S
  <2>1. i >= i
    BY <1>1
  <2>2. QED
    BY <2>1, Zenon
<1>3. PICK m \in S : \A x \in S : x <= m
  BY <1>2, LargestId
<1> DEFINE above == {j \in V : j > m}
           listed == {j \in Newest(V) : j > i}
<1>4. m \in V /\ m \notin Newest(V) /\ m >= i /\ m \in Nat /\ i \in Nat
  BY <1>1, <1>3
<1>5. ~(Cardinality(above) < Limit)
  BY <1>4 DEF Newest
<1>6. above \subseteq listed
  <2> SUFFICES ASSUME NEW j \in V, j > m PROVE j \in Newest(V) /\ j > i
    OBVIOUS
  <2>1. j \in Nat /\ j > i
    BY <1>1, <1>4
  <2>2. j \notin S
    BY <1>3, <1>4, <2>1
  <2>3. QED
    BY <2>1, <2>2
<1>7. listed \subseteq V
  BY DEF Newest
<1> HIDE DEF above, listed
<1>8. IsFiniteSet(listed) /\ IsFiniteSet(above)
  BY <1>1, <1>6, <1>7, FS_Subset
<1>9. /\ Cardinality(above) <= Cardinality(listed)
      /\ Cardinality(above) \in Nat /\ Cardinality(listed) \in Nat
  BY <1>6, <1>8, FS_Subset, FS_CardinalityType
<1>10. Cardinality(listed) >= Limit
  BY <1>5, <1>9, DashboardAssumption
<1>11. QED
  BY <1>10 DEF listed

\* A list is complete for fewer rows, too.
LEMMA ListsFewer ==
    ASSUME NEW L, NEW A, NEW B, Lists(L, A), B \subseteq A
    PROVE  Lists(L, B)
BY DEF Lists

ListInv ==
    /\ \A k \in Fetchers : recent[k] = "ok" => Lists(latest[k], asked[k])
    /\ shown # None => Lists(shown.latest, shown.asked)

LEMMA ListInit == Init => ListInv
BY DEF Init, ListInv

LEMMA ListNext == TypeOK /\ ListInv /\ [Next]_vars => ListInv'
<1> SUFFICES ASSUME TypeOK, ListInv, [Next]_vars PROVE ListInv'
  OBVIOUS
<1> USE DEF table, reads, screen
\* A step that no list is read in, shown or asked for.
<1>1. ASSUME shown' = shown,
             \A k \in Fetchers : recent'[k] = "ok" =>
                recent[k] = "ok" /\ latest'[k] = latest[k] /\ asked'[k] = asked[k]
      PROVE  ListInv'
  BY <1>1 DEF ListInv, Lists
<1>2. ASSUME NEW i \in Ids, NEW kind \in Kinds, Commit(i, kind)
      PROVE  ListInv'
  BY <1>1, <1>2 DEF Commit
<1>3. ASSUME NEW k \in Fetchers, ReadRecent(k)
      PROVE  ListInv'
  <2>1. Lists(Newest(Committed), Committed)
    BY CommittedAreIds, NewestLists
  <2>2. Lists(Newest(Committed), asked[k])
    BY <2>1, ListsFewer DEF TypeOK
  <2>3. /\ latest' = [latest EXCEPT ![k] = Newest(Committed)]
        /\ recent' = [recent EXCEPT ![k] = "ok"]
        /\ UNCHANGED <<shown, asked>>
    BY <1>3 DEF ReadRecent
  <2>4. \A j \in Fetchers : recent'[j] = "ok" => Lists(latest'[j], asked'[j])
    BY <2>2, <2>3 DEF TypeOK, ListInv
  <2>5. QED
    BY <2>3, <2>4 DEF ListInv
<1>4. ASSUME NEW k \in Fetchers,
             ReadTotals(k) \/ ReadBreakdown(k) \/ SummaryFails(k) \/ RecentFails(k)
      PROVE  ListInv'
  <2>1. "ok" \notin Outcomes
    BY DEF Outcomes
  <2>2. QED
    BY <1>1, <1>4, <2>1 DEF ReadTotals, ReadBreakdown, SummaryFails, RecentFails, TypeOK
<1>5. CASE Visit \/ LoadFails
  BY <1>1, <1>5 DEF Visit, LoadFails, Send, Close, Fetchers, TypeOK
<1>6. ASSUME NEW k \in Slots, Poll(k) \/ Report(k)
      PROVE  ListInv'
  BY <1>1, <1>6 DEF Poll, Report, Send, Finish, Close, Fetchers, TypeOK
<1>7. ASSUME NEW k \in Fetchers, recent[k] = "ok", shown' = Picture(k),
             \A j \in Fetchers : recent'[j] = "ok" =>
                recent[j] = "ok" /\ latest'[j] = latest[j] /\ asked'[j] = asked[j]
      PROVE  ListInv'
  <2>1. Lists(shown'.latest, shown'.asked)
    BY <1>7 DEF ListInv, Picture
  <2>2. QED
    BY <1>7, <2>1 DEF ListInv
<1>8. ASSUME NEW k \in Slots, Open(k)
      PROVE  ListInv'
  <2>1. PageLoad \in Fetchers /\ recent[PageLoad] = "ok" /\ shown' = Picture(PageLoad)
    BY <1>8 DEF Open, Show, Fetchers
  <2>2. \A j \in Fetchers : recent'[j] = "ok" =>
           recent[j] = "ok" /\ latest'[j] = latest[j] /\ asked'[j] = asked[j]
    BY <1>8 DEF Open, Close, Fetchers, TypeOK
  <2>3. QED
    BY <1>7, <2>1, <2>2
<1>9. ASSUME NEW k \in Slots, Render(k)
      PROVE  ListInv'
  <2>1. k \in Fetchers /\ recent[k] = "ok" /\ shown' = Picture(k)
    BY <1>9 DEF Render, Show, Fetchers
  <2>2. \A j \in Fetchers : recent'[j] = "ok" =>
           recent[j] = "ok" /\ latest'[j] = latest[j] /\ asked'[j] = asked[j]
    BY <1>9 DEF Render, Finish, Close, Fetchers, TypeOK
  <2>3. QED
    BY <1>7, <2>1, <2>2
<1>10. CASE UNCHANGED vars
  BY <1>1, <1>10 DEF vars
<1>11. QED
  BY <1>2, <1>3, <1>4, <1>5, <1>6, <1>8, <1>9, <1>10 DEF Next, Answer

\* The list of recent requests leaves out nothing that was committed when it was asked
\* for, except what enough newer requests have pushed off it, for every length of
\* the list and however commits and refreshes interleave.
THEOREM ListsSkipNothing == Spec => []NothingSkipped
<1>1. Init => ListInv
  BY ListInit
<1>2. TypeOK /\ ListInv /\ [Next]_vars => ListInv'
  BY ListNext
<1>3. ListInv => NothingSkipped
  BY DEF ListInv, Lists, NothingSkipped
<1>4. QED
  BY <1>1, <1>2, <1>3, TypeCorrect, PTL DEF Spec

-----------------------------------------------------------------------------
(* Across the lives of the process *)

PageInv == TypeOK /\ FreshInv /\ ListInv

\* The only step that is none of Dashboard's is the stop of the process.
LEMMA StepsOfTheLife ==
    ASSUME [LifeNext]_lifeVars
    PROVE  [Next]_vars \/ Stop
<1>1. ASSUME Launch \/ Start \/ Toggle PROVE UNCHANGED vars
  BY <1>1 DEF Launch, Start, Initialize, ContinueWithoutDatabase, StartFails, Toggle
<1>2. ASSUME NEW i \in Ids, NEW kind \in Kinds, WriteRow(i, kind) PROVE Next
  BY <1>2 DEF WriteRow, Next
<1>3. ASSUME NEW k \in Fetchers, ServeFetch(k) PROVE Next
  BY <1>3 DEF ServeFetch, Next, Answer
<1>4. ASSUME Browse(Visit) \/ Browse(LoadFails) PROVE Next
  BY <1>4 DEF Browse, Next
<1>5. ASSUME NEW k \in Slots, Browse(Open(k) \/ Poll(k) \/ Render(k) \/ Report(k))
      PROVE  Next
  BY <1>5 DEF Browse, Next
<1>6. CASE UNCHANGED lifeVars
  BY <1>6 DEF lifeVars
<1>7. QED
  BY <1>1, <1>2, <1>3, <1>4, <1>5, <1>6 DEF LifeNext

\* A stop breaks what is under way and takes back nothing that has been read.
LEMMA StopKeepsPage == PageInv /\ Stop => PageInv'
<1> SUFFICES ASSUME PageInv, Stop PROVE PageInv'
  OBVIOUS
<1>1. /\ summary' = [k \in Fetchers |->
                        IF summary[k] \in {"sent", "half"} THEN "broken" ELSE summary[k]]
      /\ recent' = [k \in Fetchers |-> IF recent[k] = "sent" THEN "broken" ELSE recent[k]]
      /\ UNCHANGED <<rows, totals, breakdown, latest, page, shown, status, ever, asked>>
  BY DEF Stop, table, reads, screen
<1>2. Committed' = Committed
  BY <1>1 DEF Committed
<1>3. TypeOK'
  BY <1>1, <1>2 DEF PageInv, TypeOK, Settled, Fetchers
<1>4. FreshInv'
  BY <1>1, <1>2 DEF PageInv, FreshInv, Covers
<1>5. ListInv'
  BY <1>1 DEF PageInv, ListInv, Lists
<1>6. QED
  BY <1>3, <1>4, <1>5 DEF PageInv

LEMMA PageInvAlways == LifeSpec => []PageInv
<1>1. LifeInit => PageInv
  BY TypeInit, FreshInit, ListInit DEF LifeInit, PageInv
<1>2. PageInv /\ [LifeNext]_lifeVars => PageInv'
  BY StepsOfTheLife, StopKeepsPage, TypeNext, FreshNext, ListNext DEF PageInv
<1>3. QED
  BY <1>1, <1>2, PTL DEF LifeSpec

\* Also while the process is stopped and started under an open page, PostgreSQL comes
\* and goes, and fetches are answered by another process than they were sent to,
\* what the page shows is as fresh as its refresh, agrees with itself and skips
\* nothing.
THEOREM PagesSurviveRestarts ==
    LifeSpec => [](AsFreshAsAsked /\ CountersAgree /\ NothingSkipped)
<1>1. PageInv => AsFreshAsAsked /\ CountersAgree /\ NothingSkipped
  BY FreshCounters
     DEF PageInv, FreshInv, AsFreshAsAsked, ListInv, Lists, NothingSkipped
<1>2. QED
  BY <1>1, PageInvAlways, PTL

\* Of an accepted URL the driver understands what it is told if and only if it takes
\* every parameter that the code does not look at as it stands in the URL, and so
\* its own TLS parameter: whatever the URL says of TLS for libpq does no harm.
LEMMA AcceptedIsUnderstood ==
    ASSUME NEW u \in Urls, Accepted(u)
    PROVE  Understood(u) <=> Plain(u)
<1> DEFINE sslmode == Value(u, "sslmode")
           Rest == {<<k, u.query[k]>> : k \in DOMAIN u.query \ RemovedQueryKeys(u)}
<1>1. sslmode # None <=> "sslmode" \in DOMAIN u.query
  BY LifecycleAssumption DEF Value
<1>2. DOMAIN u.query \ RemovedQueryKeys(u) = DOMAIN u.query \ {"sslmode", "channel_binding"}
  BY <1>1 DEF RemovedQueryKeys
<1>3. Rest \subseteq DriverArguments <=> Plain(u)
  BY <1>2 DEF Plain
<1>4. sslmode # None => <<"ssl", sslmode>> \in DriverArguments
  BY LifecycleAssumption DEF Accepted
<1>5. QED
  BY <1>3, <1>4 DEF Understood, Arguments

\* The URL decides how every start ends: a process serves only with one that passed
\* and that the driver takes as it stands, apart from what it says of TLS for libpq;
\* it fails only with one that passed all the same; and a start that reached
\* PostgreSQL has left the table there.
StartsAreSound ==
    /\ url \in Urls
    /\ life = "rejected" => ~Accepted(url)
    /\ life \in {"starting", "serving", "failed"} => Accepted(url)
    /\ life = "serving" => Plain(url)
    /\ life = "failed" => ~Plain(url)
    /\ reached => schema

\* Whatever URLs a deployment has, and however often the process is started and
\* stopped and PostgreSQL goes and comes back.
THEOREM StartsStaySound == LifeSpec => []StartsAreSound
<1>1. LifeInit => StartsAreSound
  BY DEF LifeInit, StartsAreSound
<1>2. StartsAreSound /\ [LifeNext]_lifeVars => StartsAreSound'
  <2> SUFFICES ASSUME StartsAreSound, [LifeNext]_lifeVars PROVE StartsAreSound'
    OBVIOUS
  <2>1. url' = url
    BY DEF LifeNext, Launch, Start, Initialize, ContinueWithoutDatabase, StartFails, Stop,
           Toggle, WriteRow, ServeFetch, Browse, process, lifeVars
  <2>2. /\ Accepted(url)' <=> Accepted(url)
        /\ Plain(url)' <=> Plain(url)
    BY <2>1 DEF Accepted, Value, Plain
  <2>3. CASE Launch
    BY <2>2, <2>3 DEF Launch, StartsAreSound
  <2>4. CASE Start
    BY <2>2, <2>4, AcceptedIsUnderstood
       DEF Start, Initialize, ContinueWithoutDatabase, StartFails, StartsAreSound
  <2>5. CASE Stop
    BY <2>1, <2>2, <2>5 DEF Stop, StartsAreSound
  <2>6. ASSUME UNCHANGED <<life, schema, reached>>
        PROVE  StartsAreSound'
    BY <2>1, <2>2, <2>6 DEF StartsAreSound
  <2>7. QED
    BY <2>3, <2>4, <2>5, <2>6
       DEF LifeNext, Toggle, WriteRow, ServeFetch, Browse, process, lifeVars
<1>3. QED
  BY <1>1, <1>2, PTL DEF LifeSpec
=============================================================================
