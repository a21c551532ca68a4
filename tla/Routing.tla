------------------------------- MODULE Routing -------------------------------
(***************************************************************************)
(* The pure part of a completion: which providers a deployment offers, in  *)
(* which order a request tries them, what an upstream call is told, under  *)
(* which key its answer is cached, and how the moving average of upstream  *)
(* latency is kept (app/services/router.py, app/services/latency.py,       *)
(* ResponseCache.build_key, and the wiring in app/main.py).                *)
(*                                                                         *)
(* A deployment is one value of Settings, as far as routing can see it:    *)
(*   default   the name in DEFAULT_PROVIDER                                *)
(*   available the providers that have a key (the mock needs none)         *)
(*   model     the model name of each provider                             *)
(*   price_in, price_out   cost per token, per provider                    *)
(* A query is the body of a request: strategy, prompt and max_tokens. Its  *)
(* temperature is left out because no provider sends it upstream.          *)
(***************************************************************************)
EXTENDS Naturals, FiniteSets, SequencesExt

CONSTANTS
    Models,          \* model names
    Prompts,         \* prompts
    TokenLimits,     \* the values of max_tokens
    PromptTokens,    \* the token estimate of each prompt
    InitialLatency,  \* what an unmeasured provider is taken to need, in ms
    AlphaNum,        \* the weight of a new latency sample is
    AlphaDen,        \*   AlphaNum / AlphaDen
    None             \* the absent value

ASSUME RoutingAssumption ==
    /\ TokenLimits \subseteq Nat
    /\ PromptTokens \in [Prompts -> Nat]
    /\ InitialLatency \in Nat
    /\ AlphaDen \in Nat \ {0}
    /\ AlphaNum \in 1..AlphaDen
    /\ None \notin Nat

-----------------------------------------------------------------------------
(* Providers and deployments *)

Names == {"openai", "gemini", "mock"}
Strategies == {"fixed", "cheapest", "fastest"}

\* The order in which the application builds the providers.
Position == [openai |-> 1, gemini |-> 2, mock |-> 3]

\* The alphabetical order of the identities "name:model".
IdentityRank == [gemini |-> 1, mock |-> 2, openai |-> 3]

Deployments ==
    [default : Names, available : SUBSET Names, model : [Names -> Models],
     price_in : [Names -> Nat], price_out : [Names -> Nat]]

AllQueries == [strategy : Strategies, prompt : Prompts, max_tokens : TokenLimits]

\* A deployment whose default is the mock routes to nothing else.
RoutingProviders(d) == IF d.default = "mock" THEN {"mock"} ELSE Names

\* Mutant: the mock is one more provider to fall back to.
EligibleWithMock(d) == RoutingProviders(d) \cap d.available

Eligible(d) ==
    {p \in RoutingProviders(d) :
        p \in d.available /\ (p # "mock" \/ d.default = "mock")}

-----------------------------------------------------------------------------
(* The latency tracker: ewma[p] is None until p has answered once *)

\* Mutant: an unmeasured provider counts as instantaneous.
LatencyOfZero(ewma, p) == IF ewma[p] = None THEN 0 ELSE ewma[p]

LatencyOf(ewma, p) == IF ewma[p] = None THEN InitialLatency ELSE ewma[p]

Blend(previous, sample) ==
    (AlphaNum * sample + (AlphaDen - AlphaNum) * previous) \div AlphaDen

\* Mutant: the first sample is blended with the initial guess.
RecordLatencyFromGuess(ewma, p, sample) ==
    [ewma EXCEPT ![p] = Blend(LatencyOf(ewma, p), sample)]

RecordLatency(ewma, p, sample) ==
    [ewma EXCEPT ![p] = IF @ = None THEN sample ELSE Blend(@, sample)]

-----------------------------------------------------------------------------
(* The order of the candidates *)

EstimatedCost(d, p, q) ==
    PromptTokens[q.prompt] * d.price_in[p] + q.max_tokens * d.price_out[p]

\* Mutant: the cheapest is the one with the lowest list price.
SortKeyByListPrice(d, ewma, q, p) ==
    CASE q.strategy = "fixed"    -> <<IF p = d.default THEN 0 ELSE 1, Position[p]>>
      [] q.strategy = "cheapest" -> <<d.price_in[p] + d.price_out[p], IdentityRank[p]>>
      [] q.strategy = "fastest"  -> <<LatencyOf(ewma, p), IdentityRank[p]>>

\* Mutant: a fixed strategy keeps to the order in which the providers are built.
SortKeyByPosition(d, ewma, q, p) ==
    CASE q.strategy = "fixed"    -> <<0, Position[p]>>
      [] q.strategy = "cheapest" -> <<EstimatedCost(d, p, q), IdentityRank[p]>>
      [] q.strategy = "fastest"  -> <<LatencyOf(ewma, p), IdentityRank[p]>>

SortKey(d, ewma, q, p) ==
    CASE q.strategy = "fixed"    -> <<IF p = d.default THEN 0 ELSE 1, Position[p]>>
      [] q.strategy = "cheapest" -> <<EstimatedCost(d, p, q), IdentityRank[p]>>
      [] q.strategy = "fastest"  -> <<LatencyOf(ewma, p), IdentityRank[p]>>

Precedes(a, b) == a[1] < b[1] \/ (a[1] = b[1] /\ a[2] < b[2])

\* s lists every eligible provider once, best first.
IsRoute(s, d, ewma, q) ==
    /\ s \in SetToSeqs(Eligible(d))
    /\ \A i, j \in DOMAIN s :
          i < j => Precedes(SortKey(d, ewma, q, s[i]), SortKey(d, ewma, q, s[j]))

-----------------------------------------------------------------------------
(* Upstream calls and cache keys *)

\* The request parameters that reach the provider; the mock ignores them all.
EffectiveParameters(p, q) == IF p = "mock" THEN {} ELSE {q.max_tokens}

CacheKeys == [provider : Names, model : Models, prompt : Prompts,
              parameters : {{}} \cup {{n} : n \in TokenLimits}]

\* Mutant: the parameters are not part of the identity of an answer.
BuildKeyWithoutParameters(d, p, q) ==
    [provider |-> p, model |-> d.model[p], prompt |-> q.prompt, parameters |-> {}]

BuildKey(d, p, q) ==
    [provider |-> p, model |-> d.model[p], prompt |-> q.prompt,
     parameters |-> EffectiveParameters(p, q)]
=============================================================================
