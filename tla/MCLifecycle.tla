----------------------------- MODULE MCLifecycle -----------------------------
(* A small instance of Lifecycle for TLC. *)
EXTENDS Lifecycle

CONSTANTS s1, s2, load

ASSUME BothFail == Faults = {"postgres", "network"}

OneKind == {[provider |-> "openai", cache_hit |-> FALSE, fallback_used |-> FALSE]}

\* The texts of the URLs, and what they are without capitals.
Texts == SslModes \cup BindingModes \cup {"modelroute", "60"}
MCCasefold == [v \in Texts \cup {"REQUIRE"} |-> IF v = "REQUIRE" THEN "require" ELSE v]

\* Of what the driver takes, what these URLs can have.
MCDriverArguments == ({"ssl"} \X SslModes) \cup {<<"prepared_statement_cache_size", "60">>}

\* As hosted PostgreSQL hands it out, with a parameter of the driver's own; one that
\* asks for TLS twice; one with a parameter of libpq that is not about TLS; and one
\* that spells the driver's own parameter in capitals.
Hosted == [scheme |-> "postgres",
           query |-> [sslmode |-> "REQUIRE", channel_binding |-> "require",
                      prepared_statement_cache_size |-> "60"]]
Contradictory == [scheme |-> "postgresql", query |-> [sslmode |-> "require", ssl |-> "require"]]
Named == [scheme |-> "postgresql",
          query |-> [sslmode |-> "require", channel_binding |-> "require",
                     application_name |-> "modelroute"]]
Shouted == [scheme |-> "postgresql+asyncpg", query |-> [ssl |-> "REQUIRE"]]

SomeUrls == {Hosted, Contradictory, Named, Shouted}
NamedUrl == {Named}
=============================================================================
