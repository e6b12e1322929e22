---------------------------- MODULE ChatContract ----------------------------
(***************************************************************************)
(* What ChatService promises to those who call it, whatever its            *)
(* collaborators do: a complete answer is one that a provider call gave    *)
(* and that the output guardrails let through.  It is the answer to the    *)
(* request's own question if the request made a call; if not, to a         *)
(* question of the same tenant to the same model with the same messages    *)
(* before the provider, which may have been put with other sampling        *)
(* parameters.  A request makes at most one call and is billed at most     *)
(* once, for that call; and once a stream is open the request is no longer *)
(* refused.                                                                *)
(***************************************************************************)
CONSTANTS
  Request,
  Question,    \* records [key, model, msgs, params]: who asks, which model,
               \*   with which messages, max_tokens and temperature
  Answer,
  None         \* no question, no answer

VARIABLES
  status,      \* of each request, as its client sees it
  asked,       \* the question it has become, once admitted
  answer,      \* what its client received
  known,       \* the questions answered by provider calls, with the answers
  called,      \* the requests that a provider answered
  billed,      \* the requests whose call was charged
  vetted       \* the answers that the output guardrails let through

vars == <<status, asked, answer, known, called, billed, vetted>>

Status == {"pending", "answered", "streaming", "refused"}

Init ==
  /\ status = [r \in Request |-> "pending"]
  /\ asked = [r \in Request |-> None]
  /\ answer = [r \in Request |-> None]
  /\ known = {}
  /\ called = {}
  /\ billed = {}
  /\ vetted \subseteq Answer

\* The request is admitted, and its question fixed.
Ask(r) ==
  /\ status[r] = "pending"
  /\ asked[r] = None
  /\ \E q \in Question : asked' = [asked EXCEPT ![r] = q]
  /\ UNCHANGED <<status, answer, known, called, billed, vetted>>

Call(r) ==
  /\ status[r] = "pending"
  /\ asked[r] # None
  /\ r \notin called
  /\ \E a \in Answer : known' = known \union {[question |-> asked[r], answer |-> a]}
  /\ called' = called \union {r}
  /\ UNCHANGED <<status, asked, answer, billed, vetted>>

Bill(r) ==
  /\ r \in called \ billed
  /\ billed' = billed \union {r}
  /\ UNCHANGED <<status, asked, answer, known, called, vetted>>

\* The answer to p passes for one to q: they differ in their parameters at most.
Fits(p, q) == [p EXCEPT !.params = q.params] = q

\* From a call of its own or, without one, from what fits.
Reply(r) ==
  /\ status[r] = "pending"
  /\ asked[r] # None
  /\ \E k \in known :
       /\ IF r \in called THEN k.question = asked[r] ELSE Fits(k.question, asked[r])
       /\ k.answer \in vetted
       /\ answer' = [answer EXCEPT ![r] = k.answer]
  /\ status' = [status EXCEPT ![r] = "answered"]
  /\ UNCHANGED <<asked, known, called, billed, vetted>>

\* A stream is opened after admission only.
Open(r) ==
  /\ status[r] = "pending"
  /\ asked[r] # None
  /\ r \notin called
  /\ status' = [status EXCEPT ![r] = "streaming"]
  /\ UNCHANGED <<asked, answer, known, called, billed, vetted>>

Refuse(r) ==
  /\ status[r] = "pending"
  /\ status' = [status EXCEPT ![r] = "refused"]
  /\ UNCHANGED <<asked, answer, known, called, billed, vetted>>

Next ==
  \E r \in Request :
    Ask(r) \/ Call(r) \/ Bill(r) \/ Reply(r) \/ Open(r) \/ Refuse(r)

Spec == Init /\ [][Next]_vars
=============================================================================
