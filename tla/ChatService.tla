----------------------------- MODULE ChatService -----------------------------
(***************************************************************************)
(* ChatService (app/services/chat_service.py) with the collaborators that  *)
(* app/api/deps.py gives it: concurrent requests of several tenants walk   *)
(* the stages of complete and stream over one exact cache, one budget and  *)
(* one accounting table.                                                   *)
(*                                                                         *)
(* Every await is a step, and every call it makes may raise.  The rate     *)
(* limiter and the route of the provider call are RateLimiter's and        *)
(* Failover's; here they admit or refuse, answer or fail.                  *)
(***************************************************************************)
EXTENDS Naturals, FiniteSets, SequencesExt, PythonNone

CONSTANTS
  Request,
  Arrival,     \* what a request may carry: [key, model, text, ref, params, stream]
  Deployment,  \* the sets of collaborators that a deployment may wire
  Known,       \* the models that the registry resolves
  PreChain,    \* the guards on texts and on answers, in order: each a function
  PostChain,   \*   to what it leaves in the context, or to Rejected
  Rejected,
  Text,
  Answer,
  Version,     \* the prompt's versions
  Unversioned, \* NO_PROMPT_VERSION
  Production,  \* a ref to the production version, not to one by its semver
  Cap          \* the monthly cap, in calls

Collaborator ==
  {"limiter", "budget", "guards", "prompts", "cache", "recorder", "publisher"}

ASSUME ChatAssumption ==
  /\ Deployment \subseteq SUBSET Collaborator
  /\ Cap \in Nat
  /\ {Unversioned, Production} \intersect Version = {}
  /\ {None, Rejected} \intersect Answer = {}
  /\ Rejected \notin Text
  /\ \A a \in Arrival :
       /\ a.text \in Text
       /\ a.ref \in Version \union {Production, None}
       /\ a.stream \in BOOLEAN

VARIABLES
  wired,       \* the deployment's collaborators
  req,         \* what each request carries
  stage,       \* where it is
  msgs,        \* its messages [text, prompt] after the pre-checks
  version,     \* its prompt version
  result,      \* what the provider answered
  response,    \* the response built, or the cached one
  status,      \* the HTTP status sent, 0 before
  production,  \* the prompt's production version
  cache,       \* the entries of the exact cache: [key, answer]
  rows,        \* the requests with a call_records row ...
  events,      \* ... with an atlas.calls.v1 event ...
  charged,     \* ... and charged to the budget
  sent,        \* history: the messages a provider was called with
  known,       \* history: the questions providers answered, and the answers
  faults       \* history: the stages at which a call of the request raised

shared == <<production, cache>>
ledger == <<rows, events, charged>>
history == <<sent, known, faults>>
vars == <<wired, req, stage, msgs, version, result, response, status,
          shared, ledger, history>>

-----------------------------------------------------------------------------
(* The stages, and what the deployment makes of them.                      *)

\* The stages of a completion after admission, each with the collaborator
\* that it needs.
Needs ==
  [limit |-> {"limiter"}, budget |-> {"budget"}, lookup |-> {"cache"},
   insert |-> {"recorder"}, publish |-> {"recorder", "publisher"},
   charge |-> {"recorder", "budget"}, guard |-> {"guards"}, store |-> {"cache"}]

Running == DOMAIN Needs \union {"prepare", "call", "stream", "frames"}
Stage == Running \union {"idle", "done", "lost"}

\* GuardrailChain._run: the guards in order, each on what the last one left;
\* the first rejection ends the chain.
RunChain(chain, x) ==
  FoldLeft(LAMBDA y, guard : IF y = Rejected THEN y ELSE guard[y], x, chain)

\* A guard on texts leaves a text, or rejects it.
TextGuard == [Text -> Text \union {Rejected}]

ASSUME ChainAssumption == PreChain \in Seq(TextGuard)

\* The i-th guard of a chain leaves what it would leave again, and the guards
\* after it keep it so.
GuardHolds(chain, i) ==
  /\ \A t \in Text : chain[i][t] # Rejected => chain[i][chain[i][t]] = chain[i][t]
  /\ \A j \in i + 1 .. Len(chain), t \in Text :
       chain[i][t] = t /\ chain[j][t] # Rejected => chain[i][chain[j][t]] = chain[j][t]

\* Mutant: the tenant is left out of the key.
KeyWithoutTenant(r) ==
  [key |-> None, model |-> req[r].model, msgs |-> msgs[r], version |-> version[r]]

\* The exact cache's key: tenant, prompt version, model as the request names
\* it, and the messages the provider would see.
BuildKey(r) ==
  [key |-> req[r].key, model |-> req[r].model, msgs |-> msgs[r], version |-> version[r]]

\* What the provider is asked, and for whom: the messages it is sent, with the
\* max_tokens and the temperature of the request, which the key leaves out.
QuestionOf(r) ==
  [key |-> req[r].key, model |-> req[r].model, msgs |-> msgs[r], params |-> req[r].params]

Init ==
  /\ wired \in Deployment
  /\ req \in [Request -> Arrival]
  /\ stage = [r \in Request |-> "idle"]
  /\ msgs = [r \in Request |-> None]
  /\ version = [r \in Request |-> Unversioned]
  /\ result = [r \in Request |-> None]
  /\ response = [r \in Request |-> None]
  /\ status = [r \in Request |-> 0]
  /\ production \in Version
  /\ cache = {}
  /\ rows = {}
  /\ events = {}
  /\ charged = {}
  /\ sent = [r \in Request |-> None]
  /\ known = {}
  /\ faults = [r \in Request |-> {}]

-----------------------------------------------------------------------------
(* How a request goes on from a stage, or ends.                            *)

Goto(r, next) == stage' = [stage EXCEPT ![r] = next] /\ UNCHANGED status

Finish(r, code) ==
  /\ stage' = [stage EXCEPT ![r] = "done"]
  /\ status' = [status EXCEPT ![r] = code]

At(r, s) == stage[r] = s /\ (s \in DOMAIN Needs => Needs[s] \subseteq wired)

\* What follows each stage that may be skipped.
Follow ==
  [limit |-> "budget", budget |-> "prepare", lookup |-> "call", insert |-> "publish",
   publish |-> "charge", charge |-> "guard", guard |-> "store"]

Raised(r) == faults' = [faults EXCEPT ![r] = @ \union {stage[r]}]

\* Any other exception surfaces as a 500.
Break(r) ==
  /\ Finish(r, 500)
  /\ Raised(r)
  /\ UNCHANGED <<wired, req, msgs, version, result, response, shared, ledger, sent, known>>

\* Mutant: a recorder without a publisher waits for one.
SkipUnrecorded(r) ==
  /\ stage[r] \in DOMAIN Needs
  /\ Needs[stage[r]] \intersect wired = {}
  /\ IF stage[r] = "store" THEN Finish(r, 200) ELSE Goto(r, Follow[stage[r]])
  /\ UNCHANGED <<wired, req, msgs, version, result, response, shared, ledger, history>>

\* A stage whose collaborator is None is skipped.
Skip(r) ==
  /\ stage[r] \in DOMAIN Needs
  /\ ~(Needs[stage[r]] \subseteq wired)
  /\ IF stage[r] = "store" THEN Finish(r, 200) ELSE Goto(r, Follow[stage[r]])
  /\ UNCHANGED <<wired, req, msgs, version, result, response, shared, ledger, history>>

\* The controller: the request arrives; a stream resolves its model first,
\* UnknownModelError (404).
Receive(r) ==
  /\ stage[r] = "idle"
  /\ IF req[r].stream /\ req[r].model \notin Known THEN Finish(r, 404) ELSE Goto(r, "limit")
  /\ UNCHANGED <<wired, req, msgs, version, result, response, shared, ledger, history>>

\* The client's connection or the replica goes away: the request's coroutine
\* runs no further.  What it has written stays.
Lose(r) ==
  /\ stage[r] \in Running
  /\ Goto(r, "lost")
  /\ UNCHANGED <<wired, req, msgs, version, result, response, shared, ledger, history>>

-----------------------------------------------------------------------------
(* _pre_checks.                                                            *)

\* RateLimitExceeded (429), or Redis raises.
Limit(r) ==
  /\ At(r, "limit")
  /\ \/ /\ Goto(r, "budget") \/ Finish(r, 429)
        /\ UNCHANGED <<wired, req, msgs, version, result, response, shared, ledger, history>>
     \/ Break(r)

Spent(key) == Cardinality({r \in charged : req[r].key = key})

\* check(0): BudgetExceeded (429) at or over the cap.
Budget(r) ==
  /\ At(r, "budget")
  /\ \/ /\ IF Spent(req[r].key) >= Cap THEN Finish(r, 429) ELSE Goto(r, "prepare")
        /\ UNCHANGED <<wired, req, msgs, version, result, response, shared, ledger, history>>
     \/ Break(r)

\* PromptResolver.resolve: by the production pointer or by semver.
Resolved(ref) == IF ref = Production THEN production ELSE ref

AfterPrepare(r) == IF req[r].stream THEN "stream" ELSE "lookup"

\* Mutant: the guarded copy of the messages is dropped.
PrepareUnguarded(r) ==
  LET v == IF "prompts" \in wired /\ req[r].ref # None THEN Resolved(req[r].ref) ELSE Unversioned
      guarded == IF "guards" \in wired THEN RunChain(PreChain, req[r].text) ELSE req[r].text
  IN /\ stage[r] = "prepare"
     /\ guarded # Rejected
     /\ msgs' = [msgs EXCEPT ![r] = [text |-> req[r].text, prompt |-> v]]
     /\ version' = [version EXCEPT ![r] = v]
     /\ Goto(r, AfterPrepare(r))
     /\ UNCHANGED <<wired, req, result, response, shared, ledger, history>>

\* Pre-guardrails, then the prompt: neither of them awaits.  What the guards
\* leave replaces the messages; the rendered prompt goes in front of it, with
\* the request's params in it, which no guard has read.
Prepare(r) ==
  LET v == IF "prompts" \in wired /\ req[r].ref # None THEN Resolved(req[r].ref) ELSE Unversioned
      guarded == IF "guards" \in wired THEN RunChain(PreChain, req[r].text) ELSE req[r].text
  IN /\ stage[r] = "prepare"
     /\ guarded # Rejected
     /\ msgs' = [msgs EXCEPT ![r] = [text |-> guarded, prompt |-> v]]
     /\ version' = [version EXCEPT ![r] = v]
     /\ Goto(r, AfterPrepare(r))
     /\ UNCHANGED <<wired, req, result, response, shared, ledger, history>>

\* GuardrailRejection (422).
RejectPre(r) ==
  /\ stage[r] = "prepare"
  /\ "guards" \in wired
  /\ RunChain(PreChain, req[r].text) = Rejected
  /\ Finish(r, 422)
  /\ UNCHANGED <<wired, req, msgs, version, result, response, shared, ledger, history>>

\* An unknown or malformed ref, or params the schema refuses: no handler.
BadPrompt(r) ==
  /\ stage[r] = "prepare"
  /\ "prompts" \in wired /\ req[r].ref # None
  /\ "guards" \in wired => RunChain(PreChain, req[r].text) # Rejected
  /\ Break(r)

-----------------------------------------------------------------------------
(* complete.                                                               *)

\* Mutant: the cached entry is returned as it is stored.
HitUnparsed(r) ==
  /\ At(r, "lookup")
  /\ \E e \in cache :
       /\ e.key = BuildKey(r)
       /\ response' = [response EXCEPT ![r] = e]
  /\ Finish(r, 200)
  /\ UNCHANGED <<wired, req, msgs, version, result, shared, ledger, history>>

\* A hit returns the cached response at once.
Hit(r) ==
  /\ At(r, "lookup")
  /\ \E e \in cache :
       /\ e.key = BuildKey(r)
       /\ response' = [response EXCEPT ![r] = e.answer]
  /\ Finish(r, 200)
  /\ UNCHANGED <<wired, req, msgs, version, result, shared, ledger, history>>

Miss(r) ==
  /\ At(r, "lookup")
  /\ \A e \in cache : e.key # BuildKey(r)
  /\ Goto(r, "call")
  /\ UNCHANGED <<wired, req, msgs, version, result, response, shared, ledger, history>>

LookupFails(r) == At(r, "lookup") /\ Break(r)

\* UnknownModelError (404): a completion resolves its model only now.
UnknownModel(r) ==
  /\ stage[r] = "call"
  /\ req[r].model \notin Known
  /\ Finish(r, 404)
  /\ UNCHANGED <<wired, req, msgs, version, result, response, shared, ledger, history>>

\* The provider answers.  The response is built here, from the raw result.
Call(r) ==
  /\ stage[r] = "call"
  /\ req[r].model \in Known
  /\ \E a \in Answer :
       /\ result' = [result EXCEPT ![r] = a]
       /\ response' = [response EXCEPT ![r] = a]
       /\ known' = known \union {[question |-> QuestionOf(r), answer |-> a]}
  /\ sent' = [sent EXCEPT ![r] = msgs[r]]
  /\ Goto(r, "insert")
  /\ UNCHANGED <<wired, req, msgs, version, shared, ledger, faults>>

\* ... or its call raises.
CallFails(r) ==
  /\ stage[r] = "call"
  /\ req[r].model \in Known
  /\ Finish(r, 500)
  /\ Raised(r)
  /\ sent' = [sent EXCEPT ![r] = msgs[r]]
  /\ UNCHANGED <<wired, req, msgs, version, result, response, shared, ledger, known>>

\* Mutant: a failed insert still yields the cost.
InsertCostsAnyway(r) ==
  /\ At(r, "insert")
  /\ \/ rows' = rows \union {r} /\ UNCHANGED faults
     \/ UNCHANGED rows /\ Raised(r)
  /\ Goto(r, "publish")
  /\ UNCHANGED <<wired, req, msgs, version, result, response, shared, events, charged, sent, known>>

\* AccountingRecorder.record: the row first.  If the insert raises there is
\* no event and no cost, and the request goes on.
Insert(r) ==
  /\ At(r, "insert")
  /\ \/ rows' = rows \union {r} /\ Goto(r, "publish") /\ UNCHANGED faults
     \/ UNCHANGED rows /\ Goto(r, "guard") /\ Raised(r)
  /\ UNCHANGED <<wired, req, msgs, version, result, response, shared, events, charged, sent, known>>

\* Then the event; a producer's error ends in the no-op error sink.
Publish(r) ==
  /\ At(r, "publish")
  /\ \/ events' = events \union {r} /\ UNCHANGED faults
     \/ UNCHANGED events /\ Raised(r)
  /\ Goto(r, "charge")
  /\ UNCHANGED <<wired, req, msgs, version, result, response, shared, rows, charged, sent, known>>

\* Mutant: a charge that raises fails the request.
ChargeOrFail(r) ==
  \/ /\ At(r, "charge")
     /\ charged' = charged \union {r}
     /\ Goto(r, "guard")
     /\ UNCHANGED <<wired, req, msgs, version, result, response, shared, rows, events, history>>
  \/ At(r, "charge") /\ Break(r)

\* _record: the cost is charged; what that raises is swallowed.
Charge(r) ==
  /\ At(r, "charge")
  /\ \/ charged' = charged \union {r} /\ UNCHANGED faults
     \/ UNCHANGED charged /\ Raised(r)
  /\ Goto(r, "guard")
  /\ UNCHANGED <<wired, req, msgs, version, result, response, shared, rows, events, sent, known>>

\* Post-guardrails: what they leave stays in their context.
Guard(r) ==
  /\ At(r, "guard")
  /\ IF RunChain(PostChain, result[r]) = Rejected
       THEN Finish(r, 422)
       ELSE Goto(r, "store")
  /\ UNCHANGED <<wired, req, msgs, version, result, response, shared, ledger, history>>

\* The response is cached under the request's key, and returned.
Store(r) ==
  /\ At(r, "store")
  /\ cache' = {e \in cache : e.key # BuildKey(r)}
                \union {[key |-> BuildKey(r), answer |-> response[r]]}
  /\ Finish(r, 200)
  /\ UNCHANGED <<wired, req, msgs, version, result, response, production, ledger, history>>

StoreFails(r) == At(r, "store") /\ Break(r)

-----------------------------------------------------------------------------
(* stream: no route, no breaker, no accounting, no post-guardrails.        *)

\* Admission is over: the 200 goes out with the first frame.
Open(r) ==
  /\ stage[r] = "stream"
  /\ stage' = [stage EXCEPT ![r] = "frames"]
  /\ status' = [status EXCEPT ![r] = 200]
  /\ UNCHANGED <<wired, req, msgs, version, result, response, shared, ledger, history>>

\* The generator calls the provider when it is first pulled.
Pull(r) ==
  /\ stage[r] = "frames"
  /\ sent[r] = None
  /\ sent' = [sent EXCEPT ![r] = msgs[r]]
  /\ UNCHANGED <<wired, req, stage, msgs, version, result, response, status,
                 shared, ledger, known, faults>>

\* The last delta and [DONE], or an error that cuts the stream.
EndStream(r) ==
  /\ stage[r] = "frames"
  /\ sent[r] # None
  /\ Goto(r, "done")
  /\ faults' \in {faults, [faults EXCEPT ![r] = @ \union {"frames"}]}
  /\ UNCHANGED <<wired, req, msgs, version, result, response, shared, ledger, sent, known>>

-----------------------------------------------------------------------------
(* The environment.                                                        *)

\* PromotionService moves the production pointer.
Promote(v) ==
  /\ v # production
  /\ production' = v
  /\ UNCHANGED <<wired, req, stage, msgs, version, result, response, status,
                 cache, ledger, history>>

\* An entry's TTL runs out.
Expire(e) ==
  /\ cache' = cache \ {e}
  /\ UNCHANGED <<wired, req, stage, msgs, version, result, response, status,
                 production, ledger, history>>

Step(r) ==
  \/ Skip(r) \/ Limit(r) \/ Budget(r) \/ Prepare(r) \/ RejectPre(r) \/ BadPrompt(r)
  \/ Hit(r) \/ Miss(r) \/ LookupFails(r) \/ UnknownModel(r) \/ Call(r) \/ CallFails(r)
  \/ Insert(r) \/ Publish(r) \/ Charge(r) \/ Guard(r) \/ Store(r) \/ StoreFails(r)
  \/ Open(r) \/ Pull(r) \/ EndStream(r)

Next ==
  \/ \E r \in Request : Receive(r) \/ Step(r) \/ Lose(r)
  \/ \E v \in Version : Promote(v)
  \/ \E e \in cache : Expire(e)

Spec == Init /\ [][Next]_vars

\* A coroutine that can run is run: every await ends, by an answer or by a
\* timeout of the client library.
FairSpec == Spec /\ \A r \in Request : WF_vars(Step(r))

-----------------------------------------------------------------------------
(* Properties.                                                             *)

Messages == [text : Text, prompt : Version \union {Unversioned}]

CacheKey ==
  [key : {a.key : a \in Arrival}, model : {a.model : a \in Arrival},
   msgs : Messages, version : Version \union {Unversioned}]

Question ==
  [key : {a.key : a \in Arrival}, model : {a.model : a \in Arrival},
   msgs : Messages, params : {a.params : a \in Arrival}]

\* None is neither messages nor a question.
ASSUME NoneAssumption == None \notin Messages /\ None \notin Question

\* Type correctness: what requests hold and what the stores contain.
TypeOK ==
  /\ wired \in Deployment
  /\ req \in [Request -> Arrival]
  /\ stage \in [Request -> Stage]
  /\ msgs \in [Request -> Messages \union {None}]
  /\ version \in [Request -> Version \union {Unversioned}]
  /\ result \in [Request -> Answer \union {None}]
  /\ response \in [Request -> Answer \union {None}]
  /\ status \in [Request -> {0, 200, 404, 422, 429, 500}]
  /\ production \in Version
  /\ cache \subseteq [key : CacheKey, answer : Answer]
  /\ rows \subseteq Request /\ events \subseteq Request /\ charged \subseteq Request
  /\ sent \in [Request -> Messages \union {None}]
  /\ known \subseteq [question : Question, answer : Answer]
  /\ faults \in [Request -> SUBSET Running]

\* "The provider never sees raw PII": the request's text reaches a provider,
\* streamed or not, only in a form that the whole pre-chain lets through as it
\* is.  The params of a prompt are not of that text: they are rendered after the
\* guards have run.
ProviderSeesGuarded ==
  \A r \in Request :
    sent[r] # None /\ "guards" \in wired
      => RunChain(PreChain, sent[r].text) = sent[r].text

\* "Accounting never fails the request": a 500 has another cause than a row,
\* an event or a charge that could not be written.
AccountingNeverFails ==
  \A r \in Request :
    status[r] = 500 => ~(faults[r] \subseteq {"insert", "publish", "charge"})

\* What is charged or published has a row, a row has a call; and a call that
\* ended unrecorded or uncharged lost its row or its charge to a fault.
BilledIsRecorded ==
  /\ charged \union events \subseteq rows
  /\ \A r \in rows : result[r] # None
  /\ \A r \in Request :
       stage[r] = "done" /\ result[r] # None /\ "recorder" \in wired =>
         /\ r \in rows \/ "insert" \in faults[r]
         /\ \/ r \in charged
            \/ "budget" \notin wired
            \/ {"insert", "charge"} \intersect faults[r] # {}

\* The answers that the deployment's post-chain lets through as they are.
Vetted == {a \in Answer : "guards" \in wired => RunChain(PostChain, a) = a}

Completed(r) == status[r] = 200 /\ ~req[r].stream

StatusOf(r) ==
  IF status[r] = 0 THEN "pending"
  ELSE IF status[r] # 200 THEN "refused"
  ELSE IF req[r].stream THEN "streaming" ELSE "answered"

Contract == INSTANCE ChatContract
  WITH status <- [r \in Request |-> StatusOf(r)],
       asked <- [r \in Request |-> IF msgs[r] = None THEN None ELSE QuestionOf(r)],
       answer <- [r \in Request |-> IF Completed(r) THEN response[r] ELSE None],
       called <- {r \in Request : result[r] # None},
       billed <- charged,
       vetted <- Vetted

\* The service keeps its contract: answers fit their questions across tenants,
\* promotions and cache hits, no call is made or billed twice, and a stream
\* that is open is not refused.  Fitting leaves max_tokens and temperature
\* open: the key has neither, so a hit may bring the answer that another
\* max_tokens cut short.
ImplementsContract == Contract!Spec

\* No request hangs, whichever collaborators are missing and whatever raises.
EveryRequestEnds ==
  \A r \in Request : stage[r] \in Running ~> stage[r] \in {"done", "lost"}

\* schema_repair.py, "Persist the repaired output so downstream sees valid
\* JSON only": what a client receives is what the post-chain left.  The
\* code does not keep this where a post-guard rewrites: the response is built
\* from the raw result before the guards run.
ClientSeesRepaired ==
  \A r \in Request : Completed(r) => response[r] \in Vetted
=============================================================================
