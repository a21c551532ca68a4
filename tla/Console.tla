------------------------------- MODULE Console -------------------------------
(***************************************************************************)
(* The script of the demo page (app/templates/index.html): a form, one     *)
(* request at a time, the view of its outcome, and two buttons that copy   *)
(* parts of a response.                                                    *)
(*                                                                         *)
(* The script runs alone from one await to the next: a request waits for   *)
(* the headers of the response and then for its body, a copy waits for the *)
(* clipboard and then for a timer. Everything in between, editing the form *)
(* included, is up to the visitor. The gateway, the network and the        *)
(* clipboard are external: each of them answers, or fails.                 *)
(***************************************************************************)
EXTENDS Naturals, Sequences, FiniteSets

CONSTANTS
    Texts,       \* what the prompt, the temperature and max_tokens may say
    Strategies,  \* the strategies to choose from
    MaxCopies,   \* bounds the model: the copies of one button under way at once
    None         \* no value

ASSUME ConsoleAssumption == MaxCopies \in Nat /\ Strategies \cap {"Waiting", "Not available"} = {}

Payloads == [text : Texts, strategy : Strategies]
Buttons == {"copy-response", "copy-request-id"}

ASSUME NoneIsNothing == None \notin Payloads \cup {"request", "copy"}

VARIABLES
    form,      \* what the form says
    inFlight,  \* the guard of sendRequest; it also disables the buttons
    last,      \* lastSuccessfulPayload
    calls,     \* the calls of sendRequest under way: payload, and the status seen
    state,     \* Ready, Sending, Complete or Error
    shown,     \* the payload whose response is on the page, None if none is
    pipeline,  \* the strategy in the pipeline, or the text in its place
    problem,   \* what the error box reports, None if it is hidden
    writing,   \* the writes to the clipboard under way, per button
    timers,    \* the labels the timers of a button will restore, soonest first
    label,     \* what a button says
    \* History, read by no guard:
    overlap    \* the buttons that were copied with again within their confirmation

view == <<state, shown, pipeline>>
copies == <<writing, timers, label, overlap>>
vars == <<form, inFlight, last, calls, view, problem, copies>>

Init ==
    /\ form \in Payloads
    /\ inFlight = FALSE /\ last = None /\ calls = {}
    /\ state = "Ready" /\ shown = None /\ pipeline = "Waiting" /\ problem = None
    /\ writing = [b \in Buttons |-> 0]
    /\ timers = [b \in Buttons |-> <<>>]
    /\ label = [b \in Buttons |-> "Copy"]
    /\ overlap = {}

-----------------------------------------------------------------------------
(* The form *)

\* Only the choice of the strategy is disabled while a request is in flight.
Edit(p) ==
    /\ p # form
    /\ inFlight => p.strategy = form.strategy
    /\ form' = p
    /\ UNCHANGED <<inFlight, last, calls, view, problem, copies>>

\* Mutant: only the button keeps a second request back, not the keyboard.
SendUnguarded(p) ==
    /\ inFlight' = TRUE
    /\ calls' = calls \cup {[payload |-> p, ok |-> None]}
    /\ state' = "Sending" /\ shown' = None /\ pipeline' = "Waiting" /\ problem' = None
    /\ UNCHANGED <<form, last, copies>>

\* sendRequest up to its first await: what was shown is cleared.
Send(p) ==
    /\ ~inFlight
    /\ inFlight' = TRUE
    /\ calls' = calls \cup {[payload |-> p, ok |-> None]}
    /\ state' = "Sending" /\ shown' = None /\ pipeline' = "Waiting" /\ problem' = None
    /\ UNCHANGED <<form, last, copies>>

\* The form is submitted, with its button or from the keyboard.
Submit == Send(form)

\* The button beside a response repeats the last request that succeeded.
Repeat == shown # None /\ last # None /\ Send(last)

-----------------------------------------------------------------------------
(* The request *)

\* The headers of the response arrive.
Respond(c, ok) ==
    /\ c.ok = None
    /\ calls' = (calls \ {c}) \cup {[c EXCEPT !.ok = ok]}
    /\ UNCHANGED <<form, inFlight, last, view, problem, copies>>

\* Mutant: an error leaves the page waiting.
SettleOnSuccess(c, s) ==
    calls' = calls \ {c} /\ state' = s /\ inFlight' = (s = "Error")

\* The call is over and the form is enabled again.
Settle(c, s) ==
    calls' = calls \ {c} /\ state' = s /\ inFlight' = FALSE

RenderRequestError == shown' = None /\ pipeline' = "Not available" /\ problem' = "request"

\* The body of a success arrives.
Succeed(c) ==
    /\ c.ok = TRUE
    /\ Settle(c, "Complete")
    /\ last' = c.payload
    /\ shown' = c.payload /\ pipeline' = c.payload.strategy /\ problem' = None
    /\ UNCHANGED <<form, copies>>

\* It does not arrive, or makes no sense: the request counts as the last that
\* succeeded, but its rendering raises, which is handled as an unreachable gateway.
SucceedUnreadable(c) ==
    /\ c.ok = TRUE
    /\ Settle(c, "Error")
    /\ last' = c.payload
    /\ RenderRequestError
    /\ UNCHANGED <<form, copies>>

\* The gateway cannot be reached, or refuses; its message may be readable or not.
Fail(c) ==
    /\ c.ok # TRUE
    /\ Settle(c, "Error")
    /\ RenderRequestError
    /\ UNCHANGED <<form, last, copies>>

-----------------------------------------------------------------------------
(* The copy buttons *)

Copy(b) ==
    /\ shown # None
    /\ writing[b] + Len(timers[b]) < MaxCopies
    /\ writing' = [writing EXCEPT ![b] = @ + 1]
    /\ UNCHANGED <<form, inFlight, last, calls, view, problem, timers, label, overlap>>

\* Mutant: the label is read when it has been changed already.
OriginalReadLate(b) == "Copied"

Original(b) == label[b]

\* The clipboard has taken the value: the button says so, and a timer will put
\* back what it says now.
Copied(b) ==
    /\ writing[b] > 0
    /\ writing' = [writing EXCEPT ![b] = @ - 1]
    /\ timers' = [timers EXCEPT ![b] = Append(@, Original(b))]
    /\ label' = [label EXCEPT ![b] = "Copied"]
    /\ overlap' = IF timers[b] = <<>> THEN overlap ELSE overlap \cup {b}
    /\ UNCHANGED <<form, inFlight, last, calls, view, problem>>

\* The clipboard refuses: the error box says so, whatever it said before.
CopyFails(b) ==
    /\ writing[b] > 0
    /\ writing' = [writing EXCEPT ![b] = @ - 1]
    /\ problem' = "copy"
    /\ UNCHANGED <<form, inFlight, last, calls, view, timers, label, overlap>>

Restore(b) ==
    /\ timers[b] # <<>>
    /\ label' = [label EXCEPT ![b] = Head(timers[b])]
    /\ timers' = [timers EXCEPT ![b] = Tail(@)]
    /\ UNCHANGED <<form, inFlight, last, calls, view, problem, writing, overlap>>

-----------------------------------------------------------------------------
Handle ==
    \E c \in calls :
        \/ \E ok \in BOOLEAN : Respond(c, ok)
        \/ Succeed(c) \/ SucceedUnreadable(c) \/ Fail(c)

CopyStep(b) == Copied(b) \/ CopyFails(b)

Next ==
    \/ \E p \in Payloads : Edit(p)
    \/ Submit
    \/ Repeat
    \/ Handle
    \/ \E b \in Buttons : Copy(b) \/ CopyStep(b) \/ Restore(b)

Spec == Init /\ [][Next]_vars

\* A fetch settles (the gateway bounds its own awaits, the browser the
\* connection), the clipboard answers and timers fire. Visitors owe nothing.
FairSpec ==
    /\ Spec
    /\ WF_vars(Handle)
    /\ \A b \in Buttons : WF_vars(CopyStep(b)) /\ WF_vars(Restore(b))

-----------------------------------------------------------------------------
(* Properties *)

\* However submits, repeats, edits, failures and copies interleave, there is one
\* request at a time and the page shows its state and nothing else: while it is
\* in flight and after it has failed nothing of an earlier response is left, and
\* a response is shown with the strategy it was asked for with, beside a button that
\* repeats exactly the request it answers, however the form has been edited. The
\* one thing that may come in between is a failed copy.
PageTellsTheTruth ==
    /\ Cardinality(calls) <= 1
    /\ inFlight <=> calls # {}
    /\ state = "Sending" <=> calls # {}
    /\ state = "Complete" <=> shown # None
    /\ state = "Complete" => pipeline = shown.strategy /\ last = shown
    /\ state = "Error" => pipeline = "Not available" /\ problem # None
    /\ problem = "request" => state = "Error"

\* Every request ends, and the form and its buttons can be used again.
RequestEnds == inFlight ~> ~inFlight

\* A button that confirms a copy says again what it is for, unless it was used again
\* before: the second confirmation then takes the first one for the button's own
\* label, and stays.
LabelReturns ==
    \A b \in Buttons : label[b] = "Copied" ~> (label[b] = "Copy" \/ b \in overlap)
=============================================================================
