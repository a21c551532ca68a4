----------------------------- MODULE MCAttempts -----------------------------
(* Small instances of Attempts for TLC: two real providers, none, or the mock. *)
EXTENDS Attempts

CONSTANTS r1, hello

Deploy(d, ps) ==
    [default |-> d, available |-> ps \cup {"mock"},
     model |-> [p \in Names |-> "m1"],
     price_in |-> [openai |-> 1, gemini |-> 3, mock |-> 0],
     price_out |-> [openai |-> 2, gemini |-> 1, mock |-> 0]]

MCModels == {"m1"}
MCPromptTokens == [p \in Prompts |-> 1]
AnyConfig == {Deploy("openai", {"openai", "gemini"}), Deploy("openai", {}),
              Deploy("mock", {})}
FastQuery == {[strategy |-> "fastest", prompt |-> hello, max_tokens |-> 1]}
MCLatencies == 0..LongestAttempt
AllErrors == RetryableErrors \cup FinalErrors
=============================================================================
