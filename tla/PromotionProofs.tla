-------------------------- MODULE PromotionProofs ---------------------------
(***************************************************************************)
(* Proofs about Promotion: for any services, versions and prompts, what is *)
(* in production has passed its eval; with one service, the lifecycle and  *)
(* the single production version hold through every failure.               *)
(***************************************************************************)
EXTENDS Promotion, TLAPS

\* A call past the gate is about a version that has passed it.
PastTheGate ==
  /\ green \subseteq passed
  /\ \A s \in Service :
       /\ pc[s] \in {"gate", "find", "demote"} => target[s] = "production"
       /\ pc[s] \in {"find", "demote"} => version[s] \in passed
       /\ pc[s] = "set" /\ target[s] = "production" => version[s] \in passed

GInv == TypeOK /\ PassedItsEval /\ PastTheGate

\* The initial states satisfy the gate's invariant.
LEMMA InitGInv == Init => GInv
BY DEF Init, GInv, TypeOK, PassedItsEval, PastTheGate, Status, Phase

\* A new call has not passed the gate.
LEMMA CallGInv ==
  ASSUME GInv, NEW s \in Service, NEW v \in Version, NEW t \in Status,
         NEW phase \in {"transition", "gate"}, Call(s, v, t, phase),
         phase = "gate" => t = "production"
  PROVE  GInv'
<1>1. TypeOK'
  BY DEF GInv, TypeOK, Call, Goto, Phase
<1>2. PassedItsEval'
  BY DEF GInv, PassedItsEval, Call
<1>3. PastTheGate'
  BY DEF GInv, TypeOK, PastTheGate, Call, Goto
<1>. QED
  BY <1>1, <1>2, <1>3 DEF GInv

\* Every step keeps the gate's invariant.
LEMMA NextGInv == GInv /\ [Next]_vars => GInv'
<1>. SUFFICES ASSUME GInv, [Next]_vars
     PROVE  GInv'
  OBVIOUS
<1>1. ASSUME NEW s \in Service, NEW v \in Version, NEW t \in Status,
             Transition(s, v, t)
      PROVE  GInv'
  BY <1>1, CallGInv DEF Transition
<1>2. ASSUME NEW s \in Service, NEW v \in Version, Promote(s, v)
      PROVE  GInv'
  <2>1. status[v] \in Status
    BY DEF GInv, TypeOK
  <2>2. Forward[status[v]] \subseteq Status
    BY <2>1 DEF Forward, Status
  <2>3. PICK t \in Forward[status[v]] : Call(s, v, t, "transition")
    BY <1>2 DEF Promote
  <2>. QED
    BY <2>2, <2>3, CallGInv
<1>3. ASSUME NEW s \in Service, NEW v \in Version, Rollback(s, v)
      PROVE  GInv'
  BY <1>3, CallGInv DEF Rollback, Status
<1>4. ASSUME NEW s \in Service, Enter(s)
      PROVE  GInv'
  BY <1>4 DEF GInv, TypeOK, PassedItsEval, PastTheGate, Enter, Goto, Stay, Phase
<1>5. ASSUME NEW s \in Service, Gate(s)
      PROVE  GInv'
  BY <1>5 DEF GInv, TypeOK, PassedItsEval, PastTheGate, Gate, Goto, Stay, Phase
<1>6. ASSUME NEW s \in Service, Find(s)
      PROVE  GInv'
  BY <1>6 DEF GInv, TypeOK, PassedItsEval, PastTheGate, Find, Live, Goto, Stay,
              Phase
<1>7. ASSUME NEW s \in Service, Demote(s)
      PROVE  GInv'
  BY <1>7 DEF GInv, TypeOK, PassedItsEval, PastTheGate, Demote, Goto, Phase,
              Status
<1>8. ASSUME NEW s \in Service, Set(s)
      PROVE  GInv'
  BY <1>8 DEF GInv, TypeOK, PassedItsEval, PastTheGate, Set, Goto, Phase
<1>9. ASSUME NEW s \in Service, Fail(s)
      PROVE  GInv'
  BY <1>9 DEF GInv, TypeOK, PassedItsEval, PastTheGate, Fail, Goto, Stay, Phase
<1>10. ASSUME NEW v \in Version, NEW verdict \in BOOLEAN, Evaluate(v, verdict)
       PROVE  GInv'
  BY <1>10 DEF GInv, TypeOK, PassedItsEval, PastTheGate, Evaluate
<1>11. CASE UNCHANGED vars
  BY <1>11 DEF GInv, TypeOK, PassedItsEval, PastTheGate, vars
<1>. QED
  BY <1>1, <1>2, <1>3, <1>4, <1>5, <1>6, <1>7, <1>8, <1>9, <1>10, <1>11
     DEF Next, Step

\* The gate's invariant holds throughout.
THEOREM GateInvariance == Spec => []GInv
<1>. QED
  BY InitGInv, NextGInv, PTL DEF Spec

\* Type correctness, for any services: a call is always about a known version
\* and a known status.
THEOREM TypeCorrect == Spec => []TypeOK
<1>1. GInv => TypeOK
  BY DEF GInv
<1>. QED
  BY <1>1, GateInvariance, PTL

\* Whatever the services interleave, a production version has had a green
\* eval run: promote, transition and rollback all pass the gate.
THEOREM GateCorrect == Spec => []PassedItsEval
<1>1. GInv => PassedItsEval
  BY DEF GInv
<1>. QED
  BY <1>1, GateInvariance, PTL

-----------------------------------------------------------------------------
(* One service.                                                            *)

Sole == \A s, t \in Service : s = t

\* What the call under way has read of the store is still so.
ReadIsCurrent ==
  \A s \in Service :
    /\ pc[s] \in {"gate", "find", "demote", "set"} =>
         status[version[s]] # "retired"
    /\ pc[s] = "demote" =>
         /\ status[old[s]] = "production"
         /\ old[s] # version[s]
         /\ PromptOf[old[s]] = PromptOf[version[s]]
    /\ pc[s] = "set" /\ target[s] = "production" =>
         Live(PromptOf[version[s]]) \subseteq {version[s]}
    /\ pc[s] = "set" /\ target[s] = "candidate" => status[version[s]] = "draft"

SInv == GInv /\ AtMostOneProduction /\ ReadIsCurrent

\* The initial states satisfy the lone service's invariant.
LEMMA InitSInv == Init => SInv
BY InitGInv DEF Init, SInv, AtMostOneProduction, ReadIsCurrent

\* Every step of a lone service keeps its invariant.
LEMMA NextSInv == Sole /\ SInv /\ [Next]_vars => SInv'
<1>. SUFFICES ASSUME Sole, SInv, [Next]_vars
     PROVE  AtMostOneProduction' /\ ReadIsCurrent'
  BY NextGInv DEF SInv
<1>a. TypeOK
  BY DEF SInv, GInv
<1>1. ASSUME NEW s \in Service, NEW v \in Version, NEW t \in Status,
             Transition(s, v, t)
      PROVE  AtMostOneProduction' /\ ReadIsCurrent'
  BY <1>1, <1>a DEF Sole, SInv, TypeOK, AtMostOneProduction, ReadIsCurrent, Live,
                    Transition, Call, Goto
<1>2. ASSUME NEW s \in Service, NEW v \in Version, Promote(s, v)
      PROVE  AtMostOneProduction' /\ ReadIsCurrent'
  BY <1>2, <1>a DEF Sole, SInv, TypeOK, AtMostOneProduction, ReadIsCurrent, Live,
                    Promote, Call, Goto
<1>3. ASSUME NEW s \in Service, NEW v \in Version, Rollback(s, v)
      PROVE  AtMostOneProduction' /\ ReadIsCurrent'
  BY <1>3, <1>a DEF Sole, SInv, TypeOK, AtMostOneProduction, ReadIsCurrent, Live,
                    Rollback, Call, Goto
<1>4. ASSUME NEW s \in Service, Enter(s)
      PROVE  AtMostOneProduction' /\ ReadIsCurrent'
  <2>1. AtMostOneProduction'
    BY <1>4 DEF SInv, AtMostOneProduction, Enter, Stay
  <2>2. /\ status[version[s]] = "retired" =>
             ~IsAllowed(status[version[s]], target[s])
        /\ target[s] = "candidate" /\ status[version[s]] # "draft" =>
             ~IsAllowed(status[version[s]], target[s])
    BY <1>a DEF IsAllowed, Forward, TypeOK, Status
  <2>3. ReadIsCurrent'
    BY <1>4, <1>a, <2>2 DEF Sole, SInv, TypeOK, ReadIsCurrent, Live, Enter, Stay, Goto
  <2>. QED
    BY <2>1, <2>3
<1>5. ASSUME NEW s \in Service, Gate(s)
      PROVE  AtMostOneProduction' /\ ReadIsCurrent'
  BY <1>5, <1>a DEF Sole, SInv, TypeOK, AtMostOneProduction, ReadIsCurrent, Live,
                    Gate, Stay, Goto
<1>6. ASSUME NEW s \in Service, Find(s)
      PROVE  AtMostOneProduction' /\ ReadIsCurrent'
  <2>1. pc[s] = "find" /\ target[s] = "production"
        /\ UNCHANGED <<status, version, target>>
    BY <1>6 DEF Find, Stay, SInv, GInv, PastTheGate
  <2>2. AtMostOneProduction'
    BY <2>1 DEF SInv, AtMostOneProduction
  <2>3. \/ \E v \in Live(PromptOf[version[s]]) \ {version[s]} :
             pc' = [pc EXCEPT ![s] = "demote"] /\ old' = [old EXCEPT ![s] = v]
        \/ pc' = [pc EXCEPT ![s] = "set"]
             /\ Live(PromptOf[version[s]]) \subseteq {version[s]}
    BY <1>6 DEF Find, Goto, SInv, AtMostOneProduction, Live
  <2>4. ReadIsCurrent'
    BY <1>a, <2>1, <2>3 DEF Sole, SInv, TypeOK, ReadIsCurrent, Live
  <2>. QED
    BY <2>2, <2>4
<1>7. ASSUME NEW s \in Service, Demote(s)
      PROVE  AtMostOneProduction' /\ ReadIsCurrent'
  <2>1. \A v \in Version : status'[v] = IF v = old[s] THEN "candidate" ELSE status[v]
    BY <1>7, <1>a DEF TypeOK, Demote
  <2>2. AtMostOneProduction'
    BY <2>1 DEF SInv, AtMostOneProduction
  <2>3. \A v \in Version :
          PromptOf[v] = PromptOf[version[s]] => status'[v] # "production"
    BY <1>7, <1>a, <2>1 DEF SInv, AtMostOneProduction, ReadIsCurrent, TypeOK, Demote
  <2>4. /\ pc' = [pc EXCEPT ![s] = "set"] /\ UNCHANGED <<version, target, old>>
        /\ target[s] = "production"
    BY <1>7 DEF Demote, Goto, SInv, GInv, PastTheGate
  <2>5. status'[version[s]] # "retired"
    BY <1>7, <1>a, <2>1 DEF SInv, ReadIsCurrent, TypeOK, Demote
  <2>6. ReadIsCurrent'
    BY <1>a, <2>3, <2>4, <2>5 DEF Sole, ReadIsCurrent, Live, TypeOK
  <2>. QED
    BY <2>2, <2>6
<1>8. ASSUME NEW s \in Service, Set(s)
      PROVE  AtMostOneProduction' /\ ReadIsCurrent'
  <2>1. \A v \in Version :
          status'[v] = IF v = version[s] THEN target[s] ELSE status[v]
    BY <1>8, <1>a DEF TypeOK, Set
  <2>2. target[s] = "production" =>
          \A v \in Version : PromptOf[v] = PromptOf[version[s]]
                             /\ status[v] = "production" => v = version[s]
    BY <1>8 DEF SInv, ReadIsCurrent, Live, Set
  <2>3. AtMostOneProduction'
    BY <2>1, <2>2 DEF SInv, AtMostOneProduction
  <2>4. ReadIsCurrent'
    BY <1>8, <1>a DEF Sole, TypeOK, ReadIsCurrent, Set, Goto
  <2>. QED
    BY <2>3, <2>4
<1>9. ASSUME NEW s \in Service, Fail(s)
      PROVE  AtMostOneProduction' /\ ReadIsCurrent'
  BY <1>9, <1>a DEF Sole, SInv, TypeOK, AtMostOneProduction, ReadIsCurrent, Live,
                    Fail, Stay, Goto
<1>10. ASSUME NEW v \in Version, NEW verdict \in BOOLEAN, Evaluate(v, verdict)
       PROVE  AtMostOneProduction' /\ ReadIsCurrent'
  BY <1>10 DEF SInv, AtMostOneProduction, ReadIsCurrent, Live, Evaluate
<1>11. CASE UNCHANGED vars
  BY <1>11 DEF SInv, AtMostOneProduction, ReadIsCurrent, Live, vars
<1>. QED
  BY <1>1, <1>2, <1>3, <1>4, <1>5, <1>6, <1>7, <1>8, <1>9, <1>10, <1>11
     DEF Next, Step

\* The lone service's invariant holds throughout.
THEOREM SoleInvariance == ASSUME Sole PROVE Spec => []SInv
<1>1. SInv /\ [Next]_vars => SInv'
  BY NextSInv, Sole
<1>. QED
  BY <1>1, InitSInv, PTL DEF Spec

\* One service alone never leaves a prompt with two production versions, not
\* even when the store fails halfway through a flip.
THEOREM PointerCorrect == ASSUME Sole PROVE Spec => []AtMostOneProduction
<1>1. SInv => AtMostOneProduction
  BY DEF SInv
<1>2. Spec => []SInv
  BY SoleInvariance, Sole
<1>. QED
  BY <1>1, <1>2, PTL

\* One service alone never revives a retired version.
THEOREM RetirementCorrect == ASSUME Sole PROVE Spec => RetiredIsTerminal
<1>1. ASSUME SInv, [Next]_vars, NEW v \in Version, status[v] = "retired"
      PROVE  status'[v] = "retired"
  <2>a. TypeOK /\ ReadIsCurrent
    BY <1>1 DEF SInv, GInv
  <2>1. CASE UNCHANGED status
    BY <1>1, <2>1
  <2>2. ASSUME NEW s \in Service, Demote(s)
        PROVE  status'[v] = "retired"
    BY <1>1, <2>a, <2>2 DEF ReadIsCurrent, TypeOK, Demote
  <2>3. ASSUME NEW s \in Service, Set(s)
        PROVE  status'[v] = "retired"
    BY <1>1, <2>a, <2>3 DEF ReadIsCurrent, TypeOK, Set
  <2>4. UNCHANGED status \/ \E s \in Service : Demote(s) \/ Set(s)
    BY <1>1 DEF Next, vars, Transition, Promote, Rollback, Call, Step, Enter, Gate,
                Find, Stay, Fail, Evaluate
  <2>. QED
    BY <2>1, <2>2, <2>3, <2>4
<1>2. SInv /\ [Next]_vars =>
        [\A v \in Version : status[v] = "retired" => status'[v] = "retired"]_vars
  BY <1>1
<1>3. Spec => []SInv
  BY SoleInvariance, Sole
<1>. QED
  BY <1>2, <1>3, PTL DEF Spec, RetiredIsTerminal

\* One service alone demotes a production version only when its successor has
\* passed its eval and is next to be promoted.
THEOREM DemotionCorrect == ASSUME Sole PROVE Spec => DemotedForSuccessor
<1>. DEFINE Successor(v, s) ==
       /\ pc'[s] = "set" /\ target[s] = "production"
       /\ PromptOf[version[s]] = PromptOf[v]
       /\ version[s] \in passed
       /\ status[version[s]] \in {"draft", "candidate"}
<1>1. ASSUME SInv, [Next]_vars, NEW v \in Version,
             status[v] = "production", status'[v] = "candidate"
      PROVE  \E s \in Service : Successor(v, s)
  <2>a. TypeOK /\ ReadIsCurrent /\ PastTheGate /\ AtMostOneProduction
    BY <1>1 DEF SInv, GInv
  <2>1. status' # status
    BY <1>1
  <2>2. PICK s \in Service : Demote(s) \/ Set(s)
    BY <1>1, <2>1 DEF Next, vars, Transition, Promote, Rollback, Call, Step,
                      Enter, Gate, Find, Stay, Fail, Evaluate
  <2>3. ~Set(s)
    BY <1>1, <2>a DEF Set, ReadIsCurrent, TypeOK
  <2>4. Demote(s) /\ v = old[s]
    BY <1>1, <2>a, <2>2, <2>3 DEF Demote, TypeOK
  <2>5. pc[s] = "demote" /\ pc'[s] = "set"
    BY <2>a, <2>4 DEF Demote, Goto, TypeOK
  <2>6. /\ target[s] = "production" /\ version[s] \in passed
        /\ PromptOf[version[s]] = PromptOf[v] /\ version[s] # v
        /\ status[version[s]] # "retired"
    BY <2>a, <2>4, <2>5 DEF PastTheGate, ReadIsCurrent
  <2>7. status[version[s]] # "production" /\ status[version[s]] \in Status
    BY <1>1, <2>a, <2>6 DEF AtMostOneProduction, TypeOK
  <2>8. Successor(v, s)
    BY <2>5, <2>6, <2>7 DEF Status
  <2>. QED
    BY <2>8
<1>2. SInv /\ [Next]_vars =>
        [\A v \in Version :
           status[v] = "production" /\ status'[v] = "candidate" =>
             \E s \in Service : Successor(v, s)]_vars
  BY <1>1
<1>3. Spec => []SInv
  BY SoleInvariance, Sole
<1>. QED
  BY <1>2, <1>3, PTL DEF Spec, DemotedForSuccessor
=============================================================================
