------------------------------ MODULE Lifecycle ------------------------------
(***************************************************************************)
(* The dashboard across the lives of the gateway process (the lifespan in  *)
(* app/main.py, Database and prepare_database_connection in                *)
(* app/db/database.py): the database URL is adapted or refused when the    *)
(* application is built, the metrics table is created when it starts, if   *)
(* PostgreSQL can be reached then, and a stop breaks the fetches under     *)
(* way. The page stays open in its browser and meets whichever process     *)
(* answers next.                                                           *)
(*                                                                         *)
(* What the driver is told is taken to matter in one way only: whether it  *)
(* understands its arguments, which does not depend on PostgreSQL. Every   *)
(* other failure of a connection reaches the code as one of the two kinds  *)
(* of exception it catches.                                                *)
(***************************************************************************)
EXTENDS Dashboard

CONSTANTS
    Urls,            \* the database URLs a deployment may have
    DriverArguments, \* the parameters, each with its value, that the driver takes
    Casefold         \* what a text is without its capitals

Schemes == {"postgres", "postgresql", "postgresql+asyncpg"}
SslModes == {"allow", "disable", "prefer", "require", "verify-ca", "verify-full"}
BindingModes == {"disable", "prefer", "require"}

\* The driver takes every TLS mode, spelled without capitals, under its own name for
\* it. Urls are made of texts.
ASSUME LifecycleAssumption ==
    /\ {"ssl"} \X SslModes \subseteq DriverArguments
    /\ \A u \in Urls : \A k \in DOMAIN u.query : u.query[k] \in DOMAIN Casefold
    /\ \A v \in DOMAIN Casefold : Casefold[v] # None

VARIABLES
    url,       \* the DATABASE_URL of the deployment
    life,      \* of the process: down, rejected (its URL), starting, serving, failed
    postgres,  \* whether PostgreSQL can be reached
    schema,    \* whether the metrics table exists
    reached    \* history: whether the last start could create it

process == <<url, life, schema, reached>>
lifeVars == <<vars, process, postgres>>

-----------------------------------------------------------------------------
(* The database URL: its scheme, and its query as a function from parameters   *)
(* to texts. A parameter given twice counts as one with an unknown text.       *)

\* The value of parameter k, without its capitals.
Value(u, k) == IF k \in DOMAIN u.query THEN Casefold[u.query[k]] ELSE None

\* Parameters other than these three are not looked at.
Accepted(u) ==
    LET sslmode == Value(u, "sslmode")
        ssl == Value(u, "ssl")
        binding == Value(u, "channel_binding")
    IN  /\ u.scheme \in Schemes
        /\ sslmode = None \/ ssl = None
        /\ {sslmode, ssl} \subseteq SslModes \cup {None}
        /\ binding \in BindingModes \cup {None}
        /\ binding = "require" => sslmode # None \/ ssl # None

\* Mutant: the channel binding stays in the URL.
RemovedSslModeOnly(u) == {"sslmode"}

RemovedQueryKeys(u) ==
    {"channel_binding"} \cup (IF Value(u, "sslmode") # None THEN {"sslmode"} ELSE {})

\* What reaches the driver's connect: what is left of the query, as it is spelled
\* there, and connect_args.
Arguments(u) ==
    {<<k, u.query[k]>> : k \in DOMAIN u.query \ RemovedQueryKeys(u)}
        \cup (IF Value(u, "sslmode") # None THEN {<<"ssl", Value(u, "sslmode")>>} ELSE {})

\* What the driver raises for an argument it does not take is none of the kinds
\* that the start catches.
Understood(u) == Arguments(u) \subseteq DriverArguments

-----------------------------------------------------------------------------
(* The process *)

LifeInit ==
    /\ Init
    /\ url \in Urls
    /\ life = "down"
    /\ postgres \in {"up", "down"}
    /\ schema = FALSE
    /\ reached = FALSE

\* The application is built, or the process ends with its ValueError.
Launch ==
    /\ life = "down"
    /\ life' = IF Accepted(url) THEN "starting" ELSE "rejected"
    /\ UNCHANGED <<vars, url, schema, reached, postgres>>

\* The missing table is created.
Initialize ==
    /\ life = "starting" /\ postgres = "up" /\ Understood(url)
    /\ schema' = TRUE /\ reached' = TRUE
    /\ life' = "serving"
    /\ UNCHANGED <<vars, url, postgres>>

\* PostgreSQL cannot be reached: this is logged, and the gateway continues.
ContinueWithoutDatabase ==
    /\ life = "starting" /\ postgres = "down" /\ Understood(url)
    /\ life' = "serving" /\ reached' = FALSE
    /\ UNCHANGED <<vars, url, schema, postgres>>

\* The driver raises before it opens a connection, PostgreSQL or not; nobody catches
\* it, and the process ends.
StartFails ==
    /\ life = "starting" /\ ~Understood(url)
    /\ life' = "failed" /\ reached' = FALSE
    /\ UNCHANGED <<vars, url, schema, postgres>>

\* The process stops: every fetch it has not answered breaks.
Stop ==
    /\ life = "serving"
    /\ life' = "down"
    /\ summary' = [k \in Fetchers |->
                      IF summary[k] \in {"sent", "half"} THEN "broken" ELSE summary[k]]
    /\ recent' = [k \in Fetchers |-> IF recent[k] = "sent" THEN "broken" ELSE recent[k]]
    /\ UNCHANGED <<table, reads, screen, asked, url, schema, reached, postgres>>

\* PostgreSQL goes, or comes back with what it holds.
Toggle ==
    /\ postgres' = IF postgres = "up" THEN "down" ELSE "up"
    /\ UNCHANGED <<vars, process>>

-----------------------------------------------------------------------------
(* What the endpoints and the page do meanwhile *)

Readable == life = "serving" /\ postgres = "up" /\ schema

\* How a fetch fails, if it does.
Failure == IF life # "serving" THEN "broken" ELSE IF ~Readable THEN "refused" ELSE None

\* A statement succeeds, fails with a 503, or finds nobody listening. A response is
\* lost only with the process.
ServeFetch(k) ==
    /\ \/ Readable /\ (ReadTotals(k) \/ ReadBreakdown(k) \/ ReadRecent(k))
       \/ Failure # None /\ SummaryFails(k) /\ summary'[k] = Failure
       \/ Failure # None /\ RecentFails(k) /\ recent'[k] = Failure
    /\ UNCHANGED <<process, postgres>>

WriteRow(i, kind) == Readable /\ Commit(i, kind) /\ UNCHANGED <<process, postgres>>

Browse(Step) == Step /\ UNCHANGED <<process, postgres>>

Start == Initialize \/ ContinueWithoutDatabase \/ StartFails

LifeNext ==
    \/ Launch \/ Start \/ Stop \/ Toggle
    \/ \E i \in Ids, kind \in Kinds : WriteRow(i, kind)
    \/ \E k \in Fetchers : ServeFetch(k)
    \/ Browse(Visit) \/ Browse(LoadFails)
    \/ \E k \in Slots : Browse(Open(k) \/ Poll(k) \/ Render(k) \/ Report(k))

LifeSpec == LifeInit /\ [][LifeNext]_lifeVars

\* A start ends, fetches end, the timer fires, and the page handles what it gets.
\* Nobody has to launch or stop the process, to visit, or to repair PostgreSQL.
\* A fetch can fail whenever it has to: Faults names both parts of the environment.
FairLifeSpec ==
    /\ LifeSpec
    /\ WF_lifeVars(Start)
    /\ \A k \in Fetchers : WF_lifeVars(ServeFetch(k))
    /\ WF_lifeVars(\E k \in Slots : Browse(Poll(k)))
    /\ WF_lifeVars(Browse(LoadFails) \/ \E k \in Slots : Browse(Open(k)))
    /\ \A k \in Slots : WF_lifeVars(Browse(Render(k) \/ Report(k)))

-----------------------------------------------------------------------------
(* Properties *)

\* Whoever writes a URL for the driver, and adds to it what libpq or a hosting
\* provider wants for TLS, gets a process that serves, with or without PostgreSQL.
Plain(u) ==
    \A k \in DOMAIN u.query \ {"sslmode", "channel_binding"} :
        <<k, u.query[k]>> \in DriverArguments

\* What an accepted URL says of TLS never keeps the process from starting: the driver
\* is told in its own words, and of a channel binding nothing.
GatewayServes == life = "starting" /\ Plain(url) ~> life = "serving"

\* A URL that has been adapted for the driver is one the driver can be opened with.
AdaptedUrlsConnect == life # "failed"

\* An open page comes to count every row, through restarts and outages, once the
\* process stays up after a start that reached PostgreSQL.
CatchesUp ==
    <>[](life = "serving" /\ reached /\ postgres = "up")
    => \A i \in Ids : rows[i] # None /\ page = "open" ~> shown # None /\ i \in shown.totals

\* A page that stays open while the metrics cannot be read, because the process is
\* gone, PostgreSQL is, or the table was never created, keeps saying so.
OutageShows ==
    <>[](page = "open" /\ ~Readable) => []<>(status = "unavailable")
=============================================================================
