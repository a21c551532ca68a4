------------------------------ MODULE Dashboard ------------------------------
(***************************************************************************)
(* Reading the telemetry: the aggregates and the list of recent requests   *)
(* (MetricsService in app/services/metrics.py), the endpoints over them    *)
(* (app/api/metrics_routes.py), and one open dashboard that refreshes      *)
(* itself on a timer (app/templates/dashboard.html).                       *)
(*                                                                         *)
(* A row is written once and never changed, so what a statement returns is *)
(* determined by the rows it can see: the variables hold these rows, and   *)
(* the operators below say what is computed from them. PostgreSQL runs at  *)
(* READ COMMITTED: each statement sees what is committed when it starts,   *)
(* two statements of one transaction may see different rows.               *)
(*                                                                         *)
(* Rows are numbered by their timestamp, which is the start of the         *)
(* inserting transaction: they need not be committed in that order.        *)
(***************************************************************************)
EXTENDS Naturals, FiniteSets

CONSTANTS
    MaxRows,   \* bounds the model: how many rows are written
    Kinds,     \* what rows may say
    Slots,     \* bounds the model: the refreshes under way at a time
    PageLoad,  \* the request for the page itself
    Limit,     \* how many recent requests are shown
    Faults,    \* the parts of the environment that may fail
    None       \* the absent value

Names == {"openai", "gemini", "mock"}

\* What the completion service records, as far as the counters can tell.
RowKinds ==
    {k \in [provider : Names \cup {None}, cache_hit : BOOLEAN, fallback_used : BOOLEAN] :
        k.provider = None => ~k.cache_hit /\ ~k.fallback_used}

ASSUME DashboardAssumption ==
    /\ MaxRows \in Nat
    /\ Kinds \subseteq RowKinds
    /\ IsFiniteSet(Slots)
    /\ PageLoad \notin Slots
    /\ Limit \in Nat \ {0}
    /\ Faults \subseteq {"postgres", "network"}
    /\ None \notin Names

Ids == 1..MaxRows
Fetchers == Slots \cup {PageLoad}

Pictures ==
    [totals : SUBSET Ids, breakdown : SUBSET Ids, latest : SUBSET Ids,
     asked : SUBSET Ids]

ASSUME NoneIsNoData == None \notin RowKinds \cup Pictures

VARIABLES
    rows,      \* the table: what each committed row says
    page,      \* absent, loading, or open in a browser
    summary,   \* where each fetch of the summary is
    recent,    \* where each fetch of the recent requests is
    totals,    \* the rows its aggregate statement saw
    breakdown, \* the rows its statement by provider saw
    latest,    \* the rows its list of recent requests holds
    shown,     \* what the page shows
    status,    \* the refresh indicator of the page
    \* History, read by no guard:
    asked,     \* the rows committed when a fetch was sent
    ever       \* the rows the page has counted at any time

table == <<rows>>
reads == <<totals, breakdown, latest>>
screen == <<page, shown, status, ever>>
vars == <<rows, page, summary, recent, totals, breakdown, latest, shown, status,
          asked, ever>>

-----------------------------------------------------------------------------
(* What is computed from the rows a statement sees *)

Committed == {i \in Ids : rows[i] # None}

Successful(V) == {i \in V : rows[i].provider # None}
CacheHits(V) == {i \in V : rows[i].cache_hit}
Fallbacks(V) == {i \in V : rows[i].fallback_used}

\* Mutant: the table by provider leaves cache hits out.
OfProviderFresh(V, p) == {i \in V : rows[i].provider = p /\ ~rows[i].cache_hit}

OfProvider(V, p) == {i \in V : rows[i].provider = p}

\* Mutant: the oldest come first.
NewestAscending(V) == {i \in V : Cardinality({j \in V : j < i}) < Limit}

\* The Limit rows with the latest timestamps.
Newest(V) == {i \in V : Cardinality({j \in V : j > i}) < Limit}

Picture(k) ==
    [totals |-> totals[k], breakdown |-> breakdown[k], latest |-> latest[k],
     asked |-> asked[k]]

-----------------------------------------------------------------------------
Settled == {"ok", "refused", "broken"}

Init ==
    /\ rows = [i \in Ids |-> None]
    /\ page = "absent"
    /\ summary = [k \in Fetchers |-> "idle"]
    /\ recent = [k \in Fetchers |-> "idle"]
    /\ totals = [k \in Fetchers |-> {}]
    /\ breakdown = [k \in Fetchers |-> {}]
    /\ latest = [k \in Fetchers |-> {}]
    /\ shown = None
    /\ status = "none"
    /\ asked = [k \in Fetchers |-> {}]
    /\ ever = {}

\* The telemetry of a completion is committed.
Commit(i, kind) ==
    /\ rows[i] = None
    /\ rows' = [rows EXCEPT ![i] = kind]
    /\ UNCHANGED <<summary, recent, reads, screen, asked>>

-----------------------------------------------------------------------------
(* The server *)

\* The first statement of summary().
ReadTotals(k) ==
    /\ summary[k] = "sent"
    /\ totals' = [totals EXCEPT ![k] = Committed]
    /\ summary' = [summary EXCEPT ![k] = "half"]
    /\ UNCHANGED <<table, recent, breakdown, latest, screen, asked>>

\* The second statement of summary(), and its response.
ReadBreakdown(k) ==
    /\ summary[k] = "half"
    /\ breakdown' = [breakdown EXCEPT ![k] = Committed]
    /\ summary' = [summary EXCEPT ![k] = "ok"]
    /\ UNCHANGED <<table, recent, totals, latest, screen, asked>>

\* recent() and its response. The page itself asks for it after the summary.
ReadRecent(k) ==
    /\ recent[k] = "sent"
    /\ k = PageLoad => summary[k] = "ok"
    /\ latest' = [latest EXCEPT ![k] = Newest(Committed)]
    /\ recent' = [recent EXCEPT ![k] = "ok"]
    /\ UNCHANGED <<table, summary, totals, breakdown, screen, asked>>

\* A statement fails, which the endpoint turns into a 503; or the connection does.
Outcomes ==
    (IF "postgres" \in Faults THEN {"refused"} ELSE {})
        \cup (IF "network" \in Faults THEN {"broken"} ELSE {})

SummaryFails(k) ==
    /\ summary[k] \in {"sent", "half"}
    /\ \E f \in Outcomes : summary' = [summary EXCEPT ![k] = f]
    /\ UNCHANGED <<table, recent, reads, screen, asked>>

RecentFails(k) ==
    /\ recent[k] = "sent"
    /\ k = PageLoad => summary[k] = "ok"
    /\ \E f \in Outcomes : recent' = [recent EXCEPT ![k] = f]
    /\ UNCHANGED <<table, summary, reads, screen, asked>>

-----------------------------------------------------------------------------
(* The page *)

Send(k) ==
    /\ summary' = [summary EXCEPT ![k] = "sent"]
    /\ recent' = [recent EXCEPT ![k] = "sent"]
    /\ asked' = [asked EXCEPT ![k] = Committed]

\* Fetcher k is done; what it has read is forgotten with it.
Close(k) ==
    /\ totals' = [totals EXCEPT ![k] = {}]
    /\ breakdown' = [breakdown EXCEPT ![k] = {}]
    /\ latest' = [latest EXCEPT ![k] = {}]

Show(k) ==
    /\ shown' = Picture(k)
    /\ ever' = ever \cup totals[k]

\* Somebody asks for /dashboard.
Visit ==
    /\ page = "absent"
    /\ page' = "loading"
    /\ Send(PageLoad)
    /\ UNCHANGED <<table, reads, shown, status, ever>>

\* Mutant: a page without metrics is rendered all the same.
LoadFailsEmpty ==
    /\ page = "loading"
    /\ summary[PageLoad] \in {"refused", "broken"} \/ recent[PageLoad] \in {"refused", "broken"}
    /\ page' = "open"
    /\ summary' = [summary EXCEPT ![PageLoad] = "idle"]
    /\ recent' = [recent EXCEPT ![PageLoad] = "idle"]
    /\ asked' = [asked EXCEPT ![PageLoad] = {}]
    /\ Close(PageLoad)
    /\ UNCHANGED <<table, shown, status, ever>>

\* The page could not be rendered: a 503, or no answer.
LoadFails ==
    /\ page = "loading"
    /\ summary[PageLoad] \in {"refused", "broken"} \/ recent[PageLoad] \in {"refused", "broken"}
    /\ page' = "absent"
    /\ summary' = [summary EXCEPT ![PageLoad] = "idle"]
    /\ recent' = [recent EXCEPT ![PageLoad] = "idle"]
    /\ asked' = [asked EXCEPT ![PageLoad] = {}]
    /\ Close(PageLoad)
    /\ UNCHANGED <<table, shown, status, ever>>

\* The page arrives with its first picture, and its script sends a refresh at once.
Open(k) ==
    /\ page = "loading"
    /\ summary[PageLoad] = "ok" /\ recent[PageLoad] = "ok"
    /\ page' = "open"
    /\ Show(PageLoad)
    /\ status' = "loading"
    /\ summary' = [summary EXCEPT ![PageLoad] = "idle", ![k] = "sent"]
    /\ recent' = [recent EXCEPT ![PageLoad] = "idle", ![k] = "sent"]
    /\ asked' = [asked EXCEPT ![PageLoad] = {}, ![k] = Committed]
    /\ Close(PageLoad)
    /\ UNCHANGED table

\* Mutant: the timer is never set.
PollNever(k) == FALSE

\* The timer fires, whether or not earlier refreshes are still under way.
Poll(k) ==
    /\ page = "open"
    /\ summary[k] = "idle"
    /\ status' = "loading"
    /\ Send(k)
    /\ UNCHANGED <<table, reads, page, shown, ever>>

Finish(k) ==
    /\ summary' = [summary EXCEPT ![k] = "idle"]
    /\ recent' = [recent EXCEPT ![k] = "idle"]
    /\ asked' = [asked EXCEPT ![k] = {}]
    /\ Close(k)

\* Mutant: a refresh only draws the recent requests.
RenderRecentOnly(k) ==
    /\ summary[k] = "ok" /\ recent[k] = "ok"
    /\ shown' = [Picture(k) EXCEPT !.totals = shown.totals]
    /\ ever' = ever \cup totals[k]
    /\ status' = "current"
    /\ Finish(k)
    /\ UNCHANGED <<table, page>>

\* Both responses are there: the page is drawn anew.
Render(k) ==
    /\ summary[k] = "ok" /\ recent[k] = "ok"
    /\ Show(k)
    /\ status' = "current"
    /\ Finish(k)
    /\ UNCHANGED <<table, page>>

\* Mutant: a refusal of one of the two goes unnoticed.
FailedIfBothRefused(k) ==
    \/ summary[k] = "broken" \/ recent[k] = "broken"
    \/ summary[k] = "refused" /\ recent[k] = "refused"

\* A lost connection is noticed at once, a refusal when both responses are there.
Failed(k) ==
    \/ summary[k] = "broken" \/ recent[k] = "broken"
    \/ /\ summary[k] \in Settled /\ recent[k] \in Settled
       /\ summary[k] = "refused" \/ recent[k] = "refused"

\* Mutant: the page does not say so.
ReportQuietly(k) == Failed(k) /\ Finish(k) /\ UNCHANGED <<table, screen>>

\* The refresh failed: the page keeps what it shows and says so.
Report(k) ==
    /\ Failed(k)
    /\ status' = "unavailable"
    /\ Finish(k)
    /\ UNCHANGED <<table, page, shown, ever>>

-----------------------------------------------------------------------------
Answer(k) ==
    \/ ReadTotals(k) \/ ReadBreakdown(k) \/ ReadRecent(k)
    \/ SummaryFails(k) \/ RecentFails(k)

Next ==
    \/ \E i \in Ids, kind \in Kinds : Commit(i, kind)
    \/ \E k \in Fetchers : Answer(k)
    \/ Visit
    \/ LoadFails
    \/ \E k \in Slots : Open(k) \/ Poll(k) \/ Render(k) \/ Report(k)

Spec == Init /\ [][Next]_vars

-----------------------------------------------------------------------------
(* Properties *)

\* Every variable has its type; whatever a statement has seen is committed, a page is
\* open exactly when it shows something, and only an open page refreshes itself.
TypeOK ==
    /\ rows \in [Ids -> Kinds \cup {None}]
    /\ page \in {"absent", "loading", "open"}
    /\ summary \in [Fetchers -> {"idle", "sent", "half"} \cup Settled]
    /\ recent \in [Fetchers -> {"idle", "sent"} \cup Settled]
    /\ totals \in [Fetchers -> SUBSET Committed]
    /\ breakdown \in [Fetchers -> SUBSET Committed]
    /\ latest \in [Fetchers -> SUBSET Committed]
    /\ shown \in Pictures \cup {None}
    /\ status \in {"none", "loading", "current", "unavailable"}
    /\ asked \in [Fetchers -> SUBSET Committed]
    /\ ever \subseteq Committed
    /\ page = "open" <=> shown # None
    /\ \A k \in Slots : summary[k] # "idle" \/ recent[k] # "idle" => page = "open"

\* The counters on the page agree with each other, although they come from two
\* statements that see different rows: no rate exceeds 100 %, and the table by
\* provider accounts for every success the totals claim.
CountersAgree ==
    shown # None =>
        LET T == shown.totals  B == shown.breakdown IN
        /\ CacheHits(T) \cup Fallbacks(T) \subseteq Successful(T)
        /\ Cardinality(Successful(T))
              <= Cardinality(OfProvider(B, "openai")) + Cardinality(OfProvider(B, "gemini"))
                   + Cardinality(OfProvider(B, "mock"))

\* What is shown is no older than the refresh that fetched it: it counts every row
\* that was committed when the refresh was sent.
AsFreshAsAsked ==
    shown # None => shown.asked \subseteq shown.totals \cap shown.breakdown

\* The list of recent requests skips nothing: a row committed when it was asked for
\* is missing only if enough newer ones have pushed it off the end.
NothingSkipped ==
    shown # None =>
        \A i \in shown.asked \ shown.latest :
            Cardinality({j \in shown.latest : j > i}) >= Limit

\* "Metrics up to date": the page never says so while it shows less than it has
\* already shown.
UpToDate == status = "current" => ever \subseteq shown.totals

\* Every refresh ends, in a new picture or in a message.
RefreshEnds == \A k \in Slots : summary[k] # "idle" ~> summary[k] = "idle"
=============================================================================
