------------------------------ MODULE Promise ------------------------------
(***************************************************************************)
(* What completions promise their clients, whoever serves them and however *)
(* they are served: no cache, no attempts, no order of the candidates.     *)
(*                                                                         *)
(* A request comes with its terms. While it is open, providers are given   *)
(* up one by one. It is won by an answer that fits its terms, from a       *)
(* provider that has not been given up, and which was either made for this *)
(* request or has been made for another one before; it is refused when no  *)
(* provider is left. One row, at most, is logged for it before it closes,  *)
(* and it charges the request that the answer was made for.                *)
(***************************************************************************)
EXTENDS Naturals

CONSTANTS
    Requests,  \* the requests
    Terms,     \* what a request may ask for, and of whom
    Offered,   \* the providers that may serve each of the terms
    Fitting,   \* the answers that fit each of the terms
    NoTerms,   \* the terms of a request that has not come
    None       \* the absent value

VARIABLES
    phase,  \* where each request is
    terms,  \* its terms
    out,    \* the providers given up for it
    given,  \* the answer it is won by
    made,   \* the answers made so far
    log     \* the rows logged

vars == <<phase, terms, out, given, made, log>>

Pending == {"open", "won", "refused"}
Open == {r \in Requests : phase[r] = "open"}

Init ==
    /\ phase = [r \in Requests |-> "new"]
    /\ terms = [r \in Requests |-> NoTerms]
    /\ out = [r \in Requests |-> {}]
    /\ given = [r \in Requests |-> None]
    /\ made = {}
    /\ log = {}

\* A request is accepted; with nobody to turn to it is refused at once.
Accept(r, t) ==
    /\ phase[r] = "new"
    /\ phase' = [phase EXCEPT ![r] = IF Offered[t] = {} THEN "refused" ELSE "open"]
    /\ terms' = [terms EXCEPT ![r] = t]
    /\ UNCHANGED <<out, given, made, log>>

\* The providers that an open request may still turn to.
Left(r) == Offered[terms[r]] \ out[r]

GiveUp(r, p) ==
    /\ p \in Left(r) /\ Left(r) # {p}
    /\ out' = [out EXCEPT ![r] = @ \cup {p}]
    /\ UNCHANGED <<phase, terms, given, made, log>>

Refuse(r, p) ==
    /\ Left(r) = {p}
    /\ phase' = [phase EXCEPT ![r] = "refused"]
    /\ UNCHANGED <<terms, out, given, made, log>>

Win(r, a) ==
    /\ a.provider \in Left(r)
    /\ given' = [given EXCEPT ![r] = a]
    /\ phase' = [phase EXCEPT ![r] = "won"]
    /\ UNCHANGED <<terms, out, log>>

Reuse(r, a) ==
    /\ Win(r, a)
    /\ a \in made
    /\ UNCHANGED made

Make(r, a) ==
    /\ Win(r, a)
    /\ a.by = r
    /\ made' = made \cup {a}

Row(r) ==
    IF phase[r] = "won"
    THEN [request |-> r, provider |-> given[r].provider, charged |-> given[r].by = r]
    ELSE [request |-> r, provider |-> None, charged |-> FALSE]

Log(r) ==
    /\ phase[r] \in {"won", "refused"}
    /\ \A row \in log : row.request # r
    /\ log' = log \cup {Row(r)}
    /\ UNCHANGED <<phase, terms, out, given, made>>

Close(r) ==
    /\ \/ phase[r] = "won" /\ phase' = [phase EXCEPT ![r] = "answered"]
       \/ phase[r] = "refused" /\ phase' = [phase EXCEPT ![r] = "failed"]
       \/ phase[r] = "open" /\ phase' = [phase EXCEPT ![r] = "error"]
    /\ UNCHANGED <<terms, out, given, made, log>>

\* Whoever serves the requests is gone.
Lose ==
    /\ phase' = [r \in Requests |-> IF phase[r] \in Pending THEN "lost" ELSE phase[r]]
    /\ UNCHANGED <<terms, out, given, made, log>>

Next ==
    \/ \E r \in Requests, t \in Terms : Accept(r, t)
    \/ \E r \in Open : \E p \in Left(r) : GiveUp(r, p) \/ Refuse(r, p)
    \/ \E r \in Open : \E a \in Fitting[terms[r]] : Reuse(r, a) \/ Make(r, a)
    \/ \E r \in Requests : Log(r) \/ Close(r)
    \/ Lose

Spec == Init /\ [][Next]_vars
=============================================================================
