---------------------------- MODULE MCCompletion ----------------------------
(* Small instances of Completion: deployments, queries and symmetry for TLC. *)
EXTENDS CompletionPromise, TLC

CONSTANTS r1, r2, r3, hello, m1, m2

\* A deployment with default d whose providers in ps have keys, and whose model
\* settings all read m. The mock needs no key and costs nothing. OpenAI is the
\* cheaper one for a short answer and the dearer one for a long answer.
Deploy(d, ps, m) ==
    [default |-> d, available |-> ps \cup {"mock"},
     model |-> [p \in Names |-> m],
     price_in |-> [openai |-> 1, gemini |-> 3, mock |-> 0],
     price_out |-> [openai |-> 2, gemini |-> 1, mock |-> 0]]

Ask(s, p, n) == [strategy |-> s, prompt |-> p, max_tokens |-> n]

MCPromptTokens == [p \in Prompts |-> 1]

\* The default is not the provider that is built first.
BothProviders == {Deploy("gemini", {"openai", "gemini"}, m1)}

\* Both providers, nobody to go to, and the mock alone.
AnyConfig == BothProviders
    \cup {Deploy("openai", {}, m1), Deploy("mock", {"openai", "gemini"}, m1)}

\* The same providers before and after a change of the models.
ModelChange == {Deploy("gemini", {"openai", "gemini"}, m) : m \in Models}

FixedQuery == {Ask("fixed", hello, 1)}
RoutedQueries == {Ask("fastest", hello, 1), Ask("cheapest", hello, 3)}

Symmetry == Permutations(Requests)
SharedSymmetry == Permutations(Requests) \cup Permutations(Models)
=============================================================================
