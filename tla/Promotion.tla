----------------------------- MODULE Promotion ------------------------------
(***************************************************************************)
(* The prompt-version lifecycle and the production pointer                 *)
(* (app/registry/promotion.py): every PromotionService over one store of   *)
(* version statuses and one eval gate, both injected.                      *)
(*                                                                         *)
(* A call makes its reads and writes one by one, in no transaction: each   *)
(* is a step here, and any of them may raise.  A call that is rejected     *)
(* before it writes changes nothing, and only its end is shown.            *)
(***************************************************************************)
EXTENDS Naturals

CONSTANTS
  Service,    \* PromotionService instances, one in each replica
  Version,    \* rows of prompt_versions
  PromptOf    \* the prompt each version belongs to

VARIABLES
  status,     \* the store: each version's status
  green,      \* versions whose last eval run passed
  pc,         \* the next step of each service's call
  version,    \* the version the call is about
  target,     \* the status it is to have
  old,        \* the production version found, to be demoted
  passed      \* history: versions that have ever been green

vars == <<status, green, pc, version, target, old, passed>>

Status == {"draft", "candidate", "production", "retired"}

Phase == {"idle", "transition", "gate", "find", "demote", "set"}

\* Type correctness: a call is always about a known version.
TypeOK ==
  /\ status \in [Version -> Status]
  /\ green \subseteq Version
  /\ pc \in [Service -> Phase]
  /\ version \in [Service -> Version]
  /\ target \in [Service -> Status]
  /\ old \in [Service -> Version]
  /\ passed \subseteq Version

Init ==
  /\ status = [v \in Version |-> "draft"]
  /\ green = {}
  /\ pc = [s \in Service |-> "idle"]
  /\ version \in [Service -> Version]
  /\ target = [s \in Service |-> "draft"]
  /\ old = version
  /\ passed = {}

\* Mutant: a status the enum does not have.
ForwardPastProduction ==
  [draft |-> {"candidate"}, candidate |-> {"production"},
   production |-> {"superseded"}, retired |-> {}]

\* _ALLOWED_TRANSITIONS.
Forward == [draft |-> {"candidate"}, candidate |-> {"production"},
            production |-> {}, retired |-> {}]

\* Mutant: any status may be set again from retired.
AllowedFromRetired(current, t) ==
  t # current /\ (t = "retired" \/ current = "retired" \/ t \in Forward[current])

IsAllowed(current, t) ==
  t # current /\ (t = "retired" \/ t \in Forward[current])

\* Mutant: one production version in the whole store.
LiveAnywhere(p) == {v \in Version : status[v] = "production"}

\* The production versions of a prompt.
Live(p) == {v \in Version : PromptOf[v] = p /\ status[v] = "production"}

Goto(s, phase) == pc' = [pc EXCEPT ![s] = phase]

Call(s, v, t, phase) ==
  /\ pc[s] = "idle"
  /\ version' = [version EXCEPT ![s] = v]
  /\ target' = [target EXCEPT ![s] = t]
  /\ Goto(s, phase)
  /\ UNCHANGED <<status, green, old, passed>>

-----------------------------------------------------------------------------
(* The calls.                                                              *)

\* transition, and retire as transition to "retired".
Transition(s, v, t) == Call(s, v, t, "transition")

\* promote picks the target from the status it reads; transition reads again.
Promote(s, v) == \E t \in Forward[status[v]] : Call(s, v, t, "transition")

\* Mutant: going back is not gated.
RollbackUngated(s, v) ==
  /\ status[v] \notin {"production", "retired"}
  /\ Call(s, v, "production", "find")

\* rollback looks at the version only, whatever prompt it is called for; a
\* version in production is left as it is, a retired one is refused.
Rollback(s, v) ==
  /\ status[v] \notin {"production", "retired"}
  /\ Call(s, v, "production", "gate")

-----------------------------------------------------------------------------
(* The steps of a call.                                                    *)

Stay == UNCHANGED <<status, green, version, target, passed>>

\* transition reads the status: IllegalTransitionError, or on.
Enter(s) ==
  /\ pc[s] = "transition"
  /\ Goto(s, IF ~IsAllowed(status[version[s]], target[s]) THEN "idle"
             ELSE IF target[s] = "production" THEN "gate" ELSE "set")
  /\ UNCHANGED old
  /\ Stay

\* Mutant: the old production version is left as it is.
GateThenSet(s) ==
  /\ pc[s] = "gate"
  /\ Goto(s, IF version[s] \in green THEN "set" ELSE "idle")
  /\ UNCHANGED old
  /\ Stay

\* _require_eval_green: on, or EvalGateNotGreenError.
Gate(s) ==
  /\ pc[s] = "gate"
  /\ Goto(s, IF version[s] \in green THEN "find" ELSE "idle")
  /\ UNCHANGED old
  /\ Stay

\* _demote_current_production finds the version to demote, if there is one.
\* Should there be several, the store returns any.
Find(s) ==
  /\ pc[s] = "find"
  /\ LET live == Live(PromptOf[version[s]]) IN
       \/ \E v \in live \ {version[s]} :
            Goto(s, "demote") /\ old' = [old EXCEPT ![s] = v]
       \/ live \subseteq {version[s]} /\ Goto(s, "set") /\ UNCHANGED old
       \/ version[s] \in live /\ Goto(s, "set") /\ UNCHANGED old
  /\ Stay

Demote(s) ==
  /\ pc[s] = "demote"
  /\ status' = [status EXCEPT ![old[s]] = "candidate"]
  /\ Goto(s, "set")
  /\ UNCHANGED <<green, version, target, old, passed>>

Set(s) ==
  /\ pc[s] = "set"
  /\ status' = [status EXCEPT ![version[s]] = target[s]]
  /\ Goto(s, "idle")
  /\ UNCHANGED <<green, version, target, old, passed>>

\* The store or the gate raises, or the replica dies.
Fail(s) ==
  /\ pc[s] # "idle"
  /\ Goto(s, "idle")
  /\ UNCHANGED old
  /\ Stay

\* An eval run of a version ends.
Evaluate(v, verdict) ==
  /\ green' = IF verdict THEN green \union {v} ELSE green \ {v}
  /\ passed' = passed \union green'
  /\ UNCHANGED <<status, pc, version, target, old>>

Step(s) == Enter(s) \/ Gate(s) \/ Find(s) \/ Demote(s) \/ Set(s)

Next ==
  \/ \E s \in Service :
       \/ \E v \in Version :
            \/ \E t \in Status : Transition(s, v, t)
            \/ Promote(s, v) \/ Rollback(s, v)
       \/ Step(s) \/ Fail(s)
  \/ \E v \in Version, verdict \in BOOLEAN : Evaluate(v, verdict)

Spec == Init /\ [][Next]_vars

\* A call that has started is carried on, or fails.
FairSpec == Spec /\ \A s \in Service : WF_vars(Step(s) \/ Fail(s))

-----------------------------------------------------------------------------
(* Properties.                                                             *)

\* "at most one version is ever production": promote and rollback, and their
\* failures halfway, never leave a prompt with two production versions.
AtMostOneProduction ==
  \A v, w \in Version :
    /\ PromptOf[v] = PromptOf[w]
    /\ status[v] = "production" /\ status[w] = "production"
    => v = w

\* _ALLOWED_TRANSITIONS: retired "is terminal", through transition, rollback
\* and the demotion of another version alike.
RetiredIsTerminal ==
  [][\A v \in Version : status[v] = "retired" => status'[v] = "retired"]_vars

\* "A version with no green eval result, or a failing one, cannot be promoted to
\* production through any path", whatever other services do in between.
PassedItsEval == \A v \in Version : status[v] = "production" => v \in passed

\* A prompt's production version is demoted only for a call that is about to
\* promote another version of the same prompt, one that has passed its eval
\* and can be in production: a promotion that will be refused demotes nothing.
DemotedForSuccessor ==
  [][\A v \in Version :
       status[v] = "production" /\ status'[v] = "candidate" =>
         \E s \in Service :
           /\ pc'[s] = "set" /\ target[s] = "production"
           /\ PromptOf[version[s]] = PromptOf[v]
           /\ version[s] \in passed
           /\ status[version[s]] \in {"draft", "candidate"}]_vars
=============================================================================
