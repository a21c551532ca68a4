-------------------------- MODULE CompletionPromise --------------------------
(***************************************************************************)
(* Completion keeps the promise of Promise: how its state looks to a       *)
(* client that sees neither the cache nor the attempts.                    *)
(***************************************************************************)
EXTENDS Completion

\* A request that is past its last lookup is decided: it has an answer or not.
Phase(r) ==
    CASE pc[r] \in {"lookup", "attempt", "backoff"} -> "open"
      [] pc[r] \in {"store", "record", "recorded"} ->
            IF answer[r] # None THEN "won" ELSE "refused"
      [] OTHER -> pc[r]

phases == [r \in Requests |-> Phase(r)]

\* The terms of a request: its body, and the deployment it arrived in.
AllTerms == [query : Queries, home : Configs]
terms == [r \in Requests |-> [query |-> query[r], home |-> home[r]]]

\* The candidates a request has moved on from.
out == [r \in Requests |-> {route[r][i] : i \in {j \in DOMAIN route[r] : j < idx[r]}}]

given == answer
made == {answer[r] : r \in Requests} \ {None}

log ==
    {[request |-> row.request, provider |-> row.provider, charged |-> row.charged] :
        row \in rows}

\* The answers that fit the terms t: made by one of the deployment's models for
\* the prompt and the parameters of the request.
FittingAnswers(t) ==
    {a \in Answers :
        /\ a.model = t.home.model[a.provider]
        /\ a.prompt = t.query.prompt
        /\ a.parameters = EffectiveParameters(a.provider, t.query)}

P == INSTANCE Promise WITH
        phase <- phases,
        Terms <- AllTerms,
        NoTerms <- [query |-> None, home |-> None],
        Offered <- [t \in AllTerms |-> Eligible(t.home)],
        Fitting <- [t \in AllTerms |-> FittingAnswers(t)]

\* Behind the cache, the retries and the fallbacks, with Redis, PostgreSQL, the
\* providers' clients and the process failing at any await, every completion
\* keeps the promise: it is answered by a provider it has not given up, with an
\* answer that fits its own terms and was made for it or for an earlier request,
\* it is refused only when every eligible provider was given up, and it leaves at
\* most one telemetry row, which charges the request the answer was made for.
ImplementsPromise == P!Spec
=============================================================================
