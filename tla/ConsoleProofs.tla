---------------------------- MODULE ConsoleProofs ----------------------------
(***************************************************************************)
(* Theorems about Console for every set of texts and strategies and any    *)
(* number of copies under way; MaxCopies only bounds the instances TLC     *)
(* checks, and no proof uses its value.                                    *)
(***************************************************************************)
EXTENDS Console, FiniteSetTheorems, TLAPS

Calls == [payload : Payloads, ok : BOOLEAN \cup {None}]

\* What the variables of the view hold.
ViewType ==
    /\ form \in Payloads
    /\ inFlight \in BOOLEAN
    /\ last \in Payloads \cup {None}
    /\ calls \subseteq Calls
    /\ state \in {"Ready", "Sending", "Complete", "Error"}
    /\ shown \in Payloads \cup {None}

\* At most one request is under way. That the page is true is not inductive without
\* it: a second response would overwrite what the first one has left.
AtMostOne == calls = {} \/ \E c \in Calls : calls = {c}

View ==
    /\ inFlight <=> calls # {}
    /\ state = "Sending" <=> calls # {}
    /\ state = "Complete" <=> shown # None
    /\ state = "Complete" => pipeline = shown.strategy /\ last = shown
    /\ state = "Error" => pipeline = "Not available" /\ problem # None
    /\ problem = "request" => state = "Error"

PageInv == ViewType /\ AtMostOne /\ View

LEMMA PageInit == Init => PageInv
BY NoneIsNothing DEF Init, PageInv, ViewType, AtMostOne, View, Payloads

LEMMA PageNext == PageInv /\ [Next]_vars => PageInv'
<1> SUFFICES ASSUME PageInv, [Next]_vars PROVE PageInv'
  OBVIOUS
<1> USE DEF view, copies
<1>1. ASSUME NEW p \in Payloads, Edit(p)
      PROVE  PageInv'
  BY <1>1 DEF Edit, PageInv, ViewType, AtMostOne, View
<1>2. ASSUME NEW p \in Payloads, Send(p)
      PROVE  PageInv'
  <2> DEFINE c == [payload |-> p, ok |-> None]
  <2>1. calls = {} /\ c \in Calls
    BY <1>2 DEF Send, PageInv, View, Calls
  <2>2. calls' = {c}
    BY <1>2, <2>1 DEF Send
  <2> HIDE DEF c
  <2>3. ViewType'
    BY <1>2, <2>1, <2>2 DEF Send, PageInv, ViewType
  <2>4. View'
    BY <1>2, <2>2, NoneIsNothing DEF Send, View
  <2>5. QED
    BY <2>1, <2>2, <2>3, <2>4 DEF PageInv, AtMostOne
<1>3. CASE Submit \/ Repeat
  BY <1>2, <1>3 DEF Submit, Repeat, PageInv, ViewType
<1>4. ASSUME NEW c \in calls
      PROVE  calls = {c} /\ c \in Calls /\ c.payload \in Payloads
  BY DEF PageInv, AtMostOne, Calls
<1>5. ASSUME NEW c \in calls, NEW ok \in BOOLEAN, Respond(c, ok)
      PROVE  PageInv'
  <2>1. calls' = {[c EXCEPT !.ok = ok]} /\ [c EXCEPT !.ok = ok] \in Calls
    BY <1>4, <1>5 DEF Respond, Calls
  <2>2. QED
    BY <1>4, <1>5, <2>1 DEF Respond, PageInv, ViewType, AtMostOne, View
<1>6. ASSUME NEW c \in calls, Succeed(c)
      PROVE  PageInv'
  <2>1. calls' = {} /\ c.payload \in Payloads /\ c.payload # None
    BY <1>4, <1>6, NoneIsNothing DEF Succeed, Settle
  <2>2. ViewType'
    BY <1>6, <2>1 DEF Succeed, Settle, PageInv, ViewType
  <2>3. View'
    BY <1>6, <2>1, NoneIsNothing DEF Succeed, Settle, View
  <2>4. QED
    BY <2>1, <2>2, <2>3 DEF PageInv, AtMostOne
<1>7. ASSUME NEW c \in calls, SucceedUnreadable(c) \/ Fail(c)
      PROVE  PageInv'
  <2>1. calls' = {} /\ c.payload \in Payloads
    BY <1>4, <1>7 DEF SucceedUnreadable, Fail, Settle
  <2>2. ViewType'
    BY <1>7, <2>1
       DEF SucceedUnreadable, Fail, Settle, RenderRequestError, PageInv, ViewType
  <2>3. View'
    BY <1>7, <2>1, NoneIsNothing
       DEF SucceedUnreadable, Fail, Settle, RenderRequestError, View
  <2>4. QED
    BY <2>1, <2>2, <2>3 DEF PageInv, AtMostOne
<1>8. ASSUME NEW b \in Buttons, CopyFails(b)
      PROVE  PageInv'
  <2>1. ViewType' /\ AtMostOne'
    BY <1>8 DEF CopyFails, PageInv, ViewType, AtMostOne
  <2>2. problem' = "copy" /\ UNCHANGED <<inFlight, calls, state, shown, pipeline, last>>
    BY <1>8 DEF CopyFails
  <2>3. View'
    BY <2>2, NoneIsNothing DEF PageInv, View
  <2>4. QED
    BY <2>1, <2>3 DEF PageInv
<1>9. ASSUME NEW b \in Buttons, Copy(b) \/ Copied(b) \/ Restore(b)
      PROVE  PageInv'
  <2>1. UNCHANGED <<form, inFlight, last, calls, view, problem>>
    BY <1>9 DEF Copy, Copied, Restore
  <2>2. QED
    BY <2>1 DEF PageInv, ViewType, AtMostOne, View
<1>10. CASE UNCHANGED vars
  BY <1>10 DEF vars, PageInv, ViewType, AtMostOne, View
<1>11. QED
  BY <1>1, <1>3, <1>5, <1>6, <1>7, <1>8, <1>9, <1>10 DEF Next, Handle, CopyStep

\* However submits, repeats, edits, responses, failures and copies interleave, there is
\* one request at a time, and the page is about that request or its outcome alone.
THEOREM PageIsTrue == Spec => []PageTellsTheTruth
<1>1. PageInv => PageTellsTheTruth
  <2> SUFFICES ASSUME PageInv PROVE Cardinality(calls) <= 1
    BY DEF PageInv, View, PageTellsTheTruth
  <2>1. CASE calls = {}
    BY <2>1, FS_EmptySet
  <2>2. CASE \E c \in Calls : calls = {c}
    BY <2>2, FS_Singleton
  <2>3. QED
    BY <2>1, <2>2 DEF PageInv, AtMostOne
<1>2. QED
  BY <1>1, PageInit, PageNext, PTL DEF Spec
=============================================================================
