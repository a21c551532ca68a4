----------------------------- MODULE MCGateway -----------------------------
(* Small instances of Gateway for TLC: one client, two real providers. *)
EXTENDS Gateway

CONSTANTS alice, r1, r2, hello

Deploy(ps) ==
    [default |-> "openai", available |-> ps \cup {"mock"},
     model |-> [p \in Names |-> "m1"],
     price_in |-> [openai |-> 1, gemini |-> 3, mock |-> 0],
     price_out |-> [openai |-> 2, gemini |-> 1, mock |-> 0]]

MCModels == {"m1"}
MCPromptTokens == [p \in Prompts |-> 1]
AnyConfig == {Deploy({"openai", "gemini"}), Deploy({})}
OneQuery == {[strategy |-> "fixed", prompt |-> hello, max_tokens |-> 1]}
OneOwner == [r \in {r1, r2} |-> alice]

=============================================================================
