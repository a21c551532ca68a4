---------------------------- MODULE MCDashboard ----------------------------
(* Small instances of Dashboard for TLC. *)
EXTENDS Dashboard, TLC

CONSTANTS s1, s2, load

\* A refusal, a cache hit, and an answer of the second candidate.
ThreeKinds ==
    {[provider |-> None, cache_hit |-> FALSE, fallback_used |-> FALSE],
     [provider |-> "openai", cache_hit |-> TRUE, fallback_used |-> FALSE],
     [provider |-> "gemini", cache_hit |-> FALSE, fallback_used |-> TRUE]}

OneKind == {[provider |-> "openai", cache_hit |-> FALSE, fallback_used |-> FALSE]}
Symmetry == Permutations(Slots)
=============================================================================
