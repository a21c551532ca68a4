----------------------------- MODULE RateLimiter -----------------------------
(***************************************************************************)
(* The token bucket that guards POST /v1/chat/completions                  *)
(* (app/services/rate_limiter.py): one bucket per client, kept in Redis,   *)
(* read and rewritten by one Lua script, which Redis runs atomically, and  *)
(* called by any number of gateway processes.                              *)
(*                                                                         *)
(* Time is the clock of the Redis server, in ticks of 1/Second seconds.    *)
(* Tokens are fractional in the code; here they are counted in grains of   *)
(* 1/Grain token, so refill_rate is Refill * Second / Grain.               *)
(***************************************************************************)
EXTENDS Integers, FiniteSets

CONSTANTS
    Clients,    \* client identities
    Owner,      \* the client behind each request that is checked
    Capacity,   \* RATE_LIMIT_CAPACITY
    Grain,      \* grains in a token
    Refill,     \* grains per tick
    Second,     \* ticks in a second
    MinTTL,     \* the shortest lifetime of a bucket, in seconds
    Steps,      \* how far the clock may move at once, either way
    MaxSends,   \* how often the Redis client may send one call
    MaxTravel,  \* bounds the model: how far the clock moves forward in all
    NoBucket    \* what Redis holds for a client without a bucket

\* The requests the limiter is asked about, each by one call of allow.
Checks == DOMAIN Owner

ASSUME RateLimiterAssumption ==
    /\ Owner \in [Checks -> Clients]
    /\ Capacity \in Nat \ {0}
    /\ Grain \in Nat \ {0}
    /\ Refill \in Nat \ {0}
    /\ Second \in Nat \ {0}
    /\ MinTTL \in Nat
    /\ Steps \subseteq Nat \ {0}
    /\ MaxSends \in Nat \ {0}
    /\ MaxTravel \in Nat

VARIABLES
    now,      \* the clock of the Redis server
    bucket,   \* the bucket of each client, NoBucket if Redis holds none
    phase,    \* where each request is: idle, sent, executed, and then
              \*   admitted, limited (429) or unavailable (503)
    granted,  \* what the last run of the script told the request
    sends,    \* how often the call has been sent
    \* History, read by no guard:
    travel,   \* how far the clock has moved forward in all
    since,    \* where travel stood when the watch on each client began
    count,    \* the tokens each client has taken since then
    spent     \* the tokens taken on behalf of each request

limiterVars == <<now, bucket, phase, granted, sends, travel, since, count, spent>>
checkVars == <<phase, granted, sends>>
history == <<travel, since, count, spent>>

-----------------------------------------------------------------------------
(* The bucket *)

Full == Capacity * Grain

Buckets == [tokens : 0..Full, timestamp : Nat, expires : Nat]

ASSUME NoBucketAssumption == NoBucket \notin Buckets

AtMost(a, b) == IF a <= b THEN a ELSE b
AtLeast(a, b) == IF a >= b THEN a ELSE b
CeilDiv(a, b) == (a + b - 1) \div b

\* Mutant: the lifetime does not depend on how long a refill takes.
BucketTTLFixed == Second * MinTTL

\* Long enough to refill an empty bucket twice.
BucketTTL == Second * AtLeast(MinTTL, CeilDiv(2 * Full, Refill * Second))

Live(c) == bucket[c] # NoBucket /\ now <= bucket[c].expires

\* Mutant: the bucket is not capped.
RefilledUncapped(c) ==
    IF Live(c)
    THEN bucket[c].tokens + Refill * AtLeast(0, now - bucket[c].timestamp)
    ELSE Full

\* What the script finds in the bucket: a bucket that is missing or has expired
\* counts as full, and a clock that has stepped back adds nothing.
Refilled(c) ==
    IF Live(c)
    THEN AtMost(Full, bucket[c].tokens + Refill * AtLeast(0, now - bucket[c].timestamp))
    ELSE Full

\* Mutant: a part of a token is enough.
AllowsPartial(c) == Refilled(c) > 0

Allows(c) == Refilled(c) >= Grain

\* Mutant: the timestamp is only written with a new bucket.
RewrittenLate(c) ==
    [tokens |-> Refilled(c) - (IF Allows(c) THEN Grain ELSE 0),
     timestamp |-> IF Live(c) THEN bucket[c].timestamp ELSE now,
     expires |-> now + BucketTTL]

\* What the script writes back.
Rewritten(c) ==
    [tokens |-> Refilled(c) - (IF Allows(c) THEN Grain ELSE 0),
     timestamp |-> now, expires |-> now + BucketTTL]

-----------------------------------------------------------------------------
LimiterInit ==
    /\ now = 0
    /\ bucket = [c \in Clients |-> NoBucket]
    /\ phase = [r \in Checks |-> "idle"]
    /\ granted = [r \in Checks |-> FALSE]
    /\ sends = [r \in Checks |-> 0]
    /\ travel = 0
    /\ since = [c \in Clients |-> 0]
    /\ count = [c \in Clients |-> 0]
    /\ spent = [r \in Checks |-> 0]

(* A request and its call *)

\* The gateway calls the script for a request.
Call(r) ==
    /\ phase[r] = "idle"
    /\ phase' = [phase EXCEPT ![r] = "sent"]
    /\ sends' = [sends EXCEPT ![r] = 1]
    /\ UNCHANGED <<now, bucket, granted, history>>

\* Redis runs the script.
Execute(r) ==
    LET c == Owner[r] IN
    /\ phase[r] = "sent"
    /\ phase' = [phase EXCEPT ![r] = "executed"]
    /\ granted' = [granted EXCEPT ![r] = Allows(c)]
    /\ bucket' = [bucket EXCEPT ![c] = Rewritten(c)]
    /\ count' = [count EXCEPT ![c] = IF Allows(c) THEN @ + 1 ELSE @]
    /\ spent' = [spent EXCEPT ![r] = IF Allows(c) THEN @ + 1 ELSE @]
    /\ UNCHANGED <<now, sends, travel, since>>

\* Mutant: nobody counts how often a call is sent again.
ResendUncounted(r) ==
    /\ phase[r] = "executed"
    /\ phase' = [phase EXCEPT ![r] = "sent"]
    /\ UNCHANGED <<now, bucket, granted, sends, history>>

\* The reply is lost with its connection and the Redis client sends the call
\* again, not knowing whether the script has run.
Resend(r) ==
    /\ phase[r] = "executed"
    /\ sends[r] < MaxSends
    /\ phase' = [phase EXCEPT ![r] = "sent"]
    /\ sends' = [sends EXCEPT ![r] = @ + 1]
    /\ UNCHANGED <<now, bucket, granted, history>>

\* The reply arrives and decides.
Decide(r) ==
    /\ phase[r] = "executed"
    /\ phase' = [phase EXCEPT ![r] = IF granted[r] THEN "admitted" ELSE "limited"]
    /\ UNCHANGED <<now, bucket, granted, sends, history>>

\* Mutant: a limiter that cannot be reached lets everyone in.
FailOpen(r) ==
    /\ phase[r] \in {"sent", "executed"}
    /\ phase' = [phase EXCEPT ![r] = "admitted"]
    /\ UNCHANGED <<now, bucket, granted, sends, history>>

\* Redis cannot be reached, or its reply does not come or makes no sense: the
\* request is refused, whether or not the script has run.
Unavailable(r) ==
    /\ phase[r] \in {"sent", "executed"}
    /\ phase' = [phase EXCEPT ![r] = "unavailable"]
    /\ UNCHANGED <<now, bucket, granted, sends, history>>

(* The environment *)

Tick(d) ==
    /\ travel + d <= MaxTravel
    /\ now' = now + d
    /\ travel' = travel + d
    /\ UNCHANGED <<bucket, checkVars, since, count, spent>>

\* The clock of the Redis server is set back.
StepBack(d) ==
    /\ now >= d
    /\ now' = now - d
    /\ UNCHANGED <<bucket, checkVars, history>>

\* Redis removes a bucket whose time is over.
ExpireBucket(c) ==
    /\ bucket[c] # NoBucket
    /\ now > bucket[c].expires
    /\ bucket' = [bucket EXCEPT ![c] = NoBucket]
    /\ UNCHANGED <<now, checkVars, history>>

\* A watch on a client begins.
Watch(c) ==
    /\ since' = [since EXCEPT ![c] = travel]
    /\ count' = [count EXCEPT ![c] = 0]
    /\ UNCHANGED <<now, bucket, checkVars, travel, spent>>

\* Redis loses its data (nothing is persisted) or evicts a bucket: the client
\* starts with a full one. Nothing is promised across this, so the watch restarts.
Forget(c) ==
    /\ bucket[c] # NoBucket
    /\ bucket' = [bucket EXCEPT ![c] = NoBucket]
    /\ since' = [since EXCEPT ![c] = travel]
    /\ count' = [count EXCEPT ![c] = 0]
    /\ UNCHANGED <<now, checkVars, travel, spent>>

-----------------------------------------------------------------------------
Handle(r) == Execute(r) \/ Resend(r) \/ Decide(r) \/ Unavailable(r)

LimiterNext ==
    \/ \E r \in Checks : Call(r) \/ Handle(r)
    \/ \E d \in Steps : Tick(d) \/ StepBack(d)
    \/ \E c \in Clients : ExpireBucket(c) \/ Watch(c) \/ Forget(c)

LimiterSpec == LimiterInit /\ [][LimiterNext]_limiterVars

-----------------------------------------------------------------------------
(* Properties *)

\* Every variable has its type; a bucket never holds more than it can, nor less
\* than nothing, and it lives for BucketTTL after its last use.
LimiterTypeOK ==
    /\ now \in Nat
    /\ bucket \in [Clients -> Buckets \cup {NoBucket}]
    /\ phase \in [Checks ->
          {"idle", "sent", "executed", "admitted", "limited", "unavailable"}]
    /\ granted \in [Checks -> BOOLEAN]
    /\ sends \in [Checks -> 0..MaxSends]
    /\ travel \in Nat
    /\ since \in [Clients -> Nat]
    /\ count \in [Clients -> Nat]
    /\ spent \in [Checks -> Nat]
    /\ \A c \in Clients : since[c] <= travel
    /\ \A c \in Clients : bucket[c] # NoBucket =>
          bucket[c].expires = bucket[c].timestamp + BucketTTL

\* Over any stretch, however calls of all processes interleave, are resent or get
\* lost, and however the clock jumps, a client takes no more than a full bucket
\* and what the clock's forward movement has refilled.
AdmissionBound ==
    \A c \in Clients : Grain * count[c] <= Full + Refill * (travel - since[c])

\* When a bucket's time is over it would have been full anyway: expiry gives
\* nothing away.
ExpiryIsInvisible ==
    \A c \in Clients : bucket[c] # NoBucket /\ now > bucket[c].expires =>
        bucket[c].tokens + Refill * (now - bucket[c].timestamp) >= Full

\* Unless Redis loses a bucket that was alive, a client's balance changes by exactly
\* the tokens it takes while the clock stands still, and never shrinks otherwise
\* while the clock moves on: nobody else's calls, no refusal, no expiry and no
\* earlier jump of the clock costs it anything.
TokensAreConserved ==
    [][\A c \in Clients :
          LET taken == count'[c] - count[c]
              lost == Live(c) /\ bucket'[c] = NoBucket
          IN taken >= 0 /\ ~lost /\ now' >= now =>
                /\ Refilled(c)' >= Refilled(c) - Grain * taken
                /\ now' = now => Refilled(c)' = Refilled(c) - Grain * taken]_limiterVars

\* No request is let in without a token having been taken for it, and none is
\* charged more often than its call was sent.
AdmissionIsPaid ==
    \A r \in Checks :
        /\ phase[r] = "admitted" => spent[r] >= 1
        /\ spent[r] <= sends[r]
=============================================================================
