---------------------------- MODULE MCRateLimiter ----------------------------
(* Small instances of RateLimiter for TLC. *)
EXTENDS RateLimiter, TLC

CONSTANTS alice, r1, r2, r3

\* Every request is from the one client, so the requests are interchangeable.
OneOwner == [r \in {r1, r2, r3} |-> alice]
Symmetry == Permutations(Checks)
=============================================================================
