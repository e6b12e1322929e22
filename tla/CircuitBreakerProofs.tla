------------------------ MODULE CircuitBreakerProofs ------------------------
(***************************************************************************)
(* Proofs about CircuitBreaker, for every threshold, cooldown, TTL and set *)
(* of callers.                                                             *)
(***************************************************************************)
EXTENDS CircuitBreaker, TLAPS

\* What a transaction read is still what the key holds, older by no more
\* than the key's idle time, unless Redis has marked it dirty.
ReadsAreCurrent ==
  \A c \in Caller : InTransaction(c) /\ ~dirty[c] =>
    /\ snap[c].state = hash.state
    /\ snap[c].failures = hash.failures
    /\ snap[c].age <= hash.age
    /\ snap[c].state # "open" => snap[c].age = Cooldown
    /\ lag[c] <= idle

\* Only an open breaker has a cooldown running, and it has been running at
\* least since the key's last write.
StampInv ==
  /\ hash.state # "open" => hash.age = Cooldown
  /\ idle <= hash.age \/ hash.age = Cooldown

IInv == TypeOK /\ CountsEveryFailure /\ StampInv /\ ReadsAreCurrent

-----------------------------------------------------------------------------
(* The decisions.                                                          *)

USE BreakerAssumption

\* The rules turn hashes into hashes.
LEMMA RulesType ==
  ASSUME NEW h \in Hash, NEW stamp \in 0..Cooldown
  PROVE  /\ Clean \in Hash
         /\ AfterProbe(h) \in Hash
         /\ AfterFailure(h, stamp) \in Hash
         /\ Aged(h) \in Hash
BY DEF Hash, CircuitState, Clean, AfterProbe, AfterFailure, Aged, OneMore,
       Older, Effective

\* Growing older does not change what a breaker counts, and only ends its
\* cooldown.
LEMMA AgedKeeps ==
  ASSUME NEW h \in Hash
  PROVE  /\ Aged(h).state = h.state
         /\ Aged(h).failures = h.failures
         /\ Aged(h).age = Older(h.age, Cooldown)
BY DEF Hash, Aged

\* A failure decided on an older reading of a tripped or closed breaker is
\* the failure of the breaker as it is now.
LEMMA FailureOfCurrent ==
  ASSUME NEW g \in Hash, NEW h \in Hash, NEW stamp \in 0..Cooldown,
         g.state = h.state, g.failures = h.failures, g.age <= h.age,
         h.state = "closed" <=> h.failures < Threshold,
         g.state # "open" => g.age = Cooldown,
         h.state # "open" => h.age = Cooldown
  PROVE  AfterFailure(g, stamp) = AfterFailure(h, stamp)
BY DEF Hash, CircuitState, AfterFailure, Effective

-----------------------------------------------------------------------------
(* The steps.                                                              *)

\* Reading disturbs nobody but the reader, who now has the current hash.
LEMMA ReadStep ==
  ASSUME IInv, NEW c \in Caller, NEW phase \in Phase, Read(c, phase)
  PROVE  IInv'
<1>1. TypeOK'
  BY DEF IInv, TypeOK, Read, Phase
<1>2. CountsEveryFailure' /\ StampInv'
  BY DEF IInv, Read, CountsEveryFailure, StampInv
<1>3. ReadsAreCurrent'
  BY DEF IInv, Read, ReadsAreCurrent, StampInv, InTransaction, TypeOK, Hash
<1>4. QED
  BY <1>1, <1>2, <1>3 DEF IInv

\* An EXEC that writes leaves every other transaction dirty.
LEMMA WriteStep ==
  ASSUME IInv, NEW c \in Caller, NEW h \in Hash,
         NEW from \in Phase, NEW to \in {"idle", "calling"},
         Commit(c, from, to), Write(c, h)
  PROVE  /\ hash' = h /\ idle' = 0
         /\ pc' \in [Caller -> Phase] /\ snap' \in [Caller -> Hash]
         /\ lag' \in [Caller -> 0..Cooldown] /\ dirty' \in [Caller -> BOOLEAN]
         /\ ReadsAreCurrent'
<1>1. /\ pc' = [pc EXCEPT ![c] = to] /\ pc \in [Caller -> Phase]
      /\ dirty' = [d \in Caller |-> dirty[d] \/ (InTransaction(d) /\ d # c)]
      /\ dirty \in [Caller -> BOOLEAN]
  BY DEF IInv, TypeOK, Commit, Write, Touch
<1>2. ASSUME NEW d \in Caller, InTransaction(d)'
      PROVE  dirty'[d]
  BY <1>1, <1>2 DEF InTransaction
<1>3. dirty' \in [Caller -> BOOLEAN]
  <2>1. \A d \in Caller :
          (dirty[d] \/ (InTransaction(d) /\ d # c)) \in BOOLEAN
    BY <1>1 DEF InTransaction
  <2>2. QED
    BY <2>1, <1>1
<1>4. QED
  BY <1>1, <1>2, <1>3 DEF IInv, TypeOK, Commit, Write, ReadsAreCurrent, Phase

\* An EXEC without a write only moves its caller on.
LEMMA SilentStep ==
  ASSUME IInv, NEW c \in Caller, NEW to \in {"idle", "calling"},
         pc' = [pc EXCEPT ![c] = to],
         UNCHANGED <<hash, idle, snap, lag, dirty, streak>>
  PROVE  IInv'
<1>1. TypeOK'
  BY DEF IInv, TypeOK, Phase
<1>2. CountsEveryFailure' /\ StampInv'
  BY DEF IInv, CountsEveryFailure, StampInv
<1>3. ReadsAreCurrent'
  BY DEF IInv, ReadsAreCurrent, InTransaction, TypeOK
<1>4. QED
  BY <1>1, <1>2, <1>3 DEF IInv

\* A transaction that commits has read the key as it is, so what it decided
\* on its reading is what it would decide now.
LEMMA CommitsOnCurrent ==
  ASSUME IInv, NEW c \in Caller, InTransaction(c), ~dirty[c]
  PROVE  /\ Cooling(hash) => Cooling(snap[c])
         /\ ProbeDue(snap[c]) => ProbeDue(hash) /\ AfterProbe(snap[c]) = AfterProbe(hash)
         /\ AfterFailure(snap[c], lag[c]) = AfterFailure(hash, lag[c])
         /\ lag[c] \in 0..hash.age
<1>1. /\ hash \in Hash /\ snap[c] \in Hash /\ lag[c] \in 0..Cooldown
      /\ idle \in Nat /\ streak \in 0..Threshold
  BY DEF IInv, TypeOK
<1>2. /\ snap[c].state = hash.state /\ snap[c].failures = hash.failures
      /\ snap[c].age <= hash.age /\ lag[c] <= idle
      /\ snap[c].state # "open" => snap[c].age = Cooldown
  BY DEF IInv, ReadsAreCurrent
<1>3. lag[c] \in 0..hash.age
  BY <1>1, <1>2 DEF IInv, StampInv, Hash
<1>4. Cooling(hash) => Cooling(snap[c])
  BY <1>1, <1>2 DEF Cooling, Effective, Hash
<1>5. ProbeDue(snap[c]) => ProbeDue(hash) /\ AfterProbe(snap[c]) = AfterProbe(hash)
  BY <1>1, <1>2 DEF ProbeDue, Cooling, Effective, AfterProbe, Hash
<1>6. AfterFailure(snap[c], lag[c]) = AfterFailure(hash, lag[c])
  BY <1>1, <1>2, FailureOfCurrent DEF IInv, CountsEveryFailure, StampInv
<1>7. QED
  BY <1>3, <1>4, <1>5, <1>6

\* The EXEC of a probe keeps the invariant.
LEMMA ProbeStep ==
  ASSUME IInv, NEW c \in Caller, Probe(c)
  PROVE  IInv'
<1>1. InTransaction(c) /\ ~dirty[c] /\ Commit(c, "admit", "calling")
  BY DEF Probe, Commit, InTransaction
<1>2. /\ ProbeDue(hash) /\ Write(c, AfterProbe(hash)) /\ streak' = streak
      /\ hash \in Hash
  BY <1>1, CommitsOnCurrent DEF Probe, IInv, TypeOK
<1>3. /\ AfterProbe(hash).state = "half_open"
      /\ AfterProbe(hash).failures = hash.failures
      /\ AfterProbe(hash).age = Cooldown
  BY <1>2 DEF AfterProbe, ProbeDue, Cooling, Effective, Hash, CircuitState
<1>4. AfterProbe(hash) \in Hash
  BY <1>2, RulesType DEF Hash
<1>5. /\ hash' = AfterProbe(hash) /\ idle' = 0 /\ ReadsAreCurrent'
      /\ pc' \in [Caller -> Phase] /\ snap' \in [Caller -> Hash]
      /\ lag' \in [Caller -> 0..Cooldown] /\ dirty' \in [Caller -> BOOLEAN]
  BY <1>1, <1>2, <1>4, WriteStep DEF Phase
<1>6. TypeOK' /\ StampInv'
  BY <1>2, <1>3, <1>4, <1>5 DEF IInv, TypeOK, StampInv
<1>7. CountsEveryFailure'
  BY <1>2, <1>3, <1>5 DEF IInv, CountsEveryFailure, ProbeDue, Cooling
<1>8. QED
  BY <1>5, <1>6, <1>7 DEF IInv

\* The EXEC of a success keeps the invariant.
LEMMA SuccessStep ==
  ASSUME IInv, NEW c \in Caller, RecordSuccess(c)
  PROVE  IInv'
<1>1. Clean \in Hash
  BY DEF Clean, Hash, CircuitState
<1>2. /\ hash' = Clean /\ idle' = 0 /\ streak' = 0 /\ ReadsAreCurrent'
      /\ pc' \in [Caller -> Phase] /\ snap' \in [Caller -> Hash]
      /\ lag' \in [Caller -> 0..Cooldown] /\ dirty' \in [Caller -> BOOLEAN]
  BY <1>1, WriteStep DEF RecordSuccess, Phase
<1>3. TypeOK' /\ StampInv' /\ CountsEveryFailure'
  BY <1>1, <1>2 DEF TypeOK, StampInv, CountsEveryFailure, Clean
<1>4. QED
  BY <1>2, <1>3 DEF IInv

\* The EXEC of a failure keeps the invariant.
LEMMA FailureStep ==
  ASSUME IInv, NEW c \in Caller, RecordFailure(c)
  PROVE  IInv'
<1> DEFINE h == AfterFailure(hash, lag[c])
<1>1. InTransaction(c) /\ ~dirty[c] /\ Commit(c, "fail", "idle")
  BY DEF RecordFailure, Commit, InTransaction
<1>2. /\ Write(c, h) /\ streak' = OneMore(streak) /\ lag[c] \in 0..Cooldown
      /\ hash \in Hash
  BY <1>1, CommitsOnCurrent DEF RecordFailure, IInv, TypeOK
<1>3. h \in Hash
  BY <1>2, RulesType
<1>4. /\ hash' = h /\ idle' = 0 /\ ReadsAreCurrent'
      /\ pc' \in [Caller -> Phase] /\ snap' \in [Caller -> Hash]
      /\ lag' \in [Caller -> 0..Cooldown] /\ dirty' \in [Caller -> BOOLEAN]
  BY <1>1, <1>2, <1>3, WriteStep DEF Phase
<1>5. streak' \in 0..Threshold
  BY <1>2 DEF OneMore, IInv, TypeOK
<1>6. TypeOK'
  BY <1>3, <1>4, <1>5 DEF TypeOK
<1>7. StampInv'
  BY <1>2, <1>3, <1>4 DEF StampInv, CountsEveryFailure, IInv, TypeOK,
                          AfterFailure, Effective, Hash, CircuitState
<1>8. CountsEveryFailure'
  BY <1>2, <1>4 DEF CountsEveryFailure, IInv, TypeOK, AfterFailure, OneMore,
                    Effective, Hash, CircuitState
<1>9. QED
  BY <1>4, <1>6, <1>7, <1>8 DEF IInv

\* A second keeps the invariant: snapshots age as the hash does.
LEMMA TickStep ==
  ASSUME IInv, Tick
  PROVE  IInv'
<1>1. /\ hash \in Hash /\ hash' = Aged(hash) /\ idle \in 0..Ttl
      /\ idle' = Older(idle, Ttl)
      /\ UNCHANGED <<pc, snap, dirty, streak>>
      /\ lag' = [c \in Caller |-> Older(lag[c], Cooldown)]
      /\ lag \in [Caller -> 0..Cooldown]
  BY DEF Tick, LagsGrow, IInv, TypeOK
<1>2. /\ hash' \in Hash /\ hash'.state = hash.state
      /\ hash'.failures = hash.failures
      /\ hash'.age = Older(hash.age, Cooldown)
  BY <1>1, AgedKeeps, RulesType DEF Hash
<1>3. TypeOK'
  BY <1>1, <1>2 DEF IInv, TypeOK, Older
<1>4. CountsEveryFailure'
  BY <1>1, <1>2 DEF IInv, CountsEveryFailure
<1>5. StampInv'
  BY <1>1, <1>2 DEF IInv, StampInv, Older, Hash
<1>6. ReadsAreCurrent'
  <2> SUFFICES ASSUME NEW c \in Caller, InTransaction(c), ~dirty[c]
               PROVE  /\ snap[c].state = hash.state
                      /\ snap[c].failures = hash.failures
                      /\ snap[c].age <= hash'.age
                      /\ snap[c].state # "open" => snap[c].age = Cooldown
                      /\ lag'[c] <= idle'
    BY <1>1, <1>2 DEF ReadsAreCurrent, InTransaction
  <2>1. /\ snap[c].state = hash.state /\ snap[c].failures = hash.failures
        /\ snap[c].age <= hash.age /\ lag[c] <= idle
        /\ snap[c].state # "open" => snap[c].age = Cooldown
    BY DEF IInv, ReadsAreCurrent
  <2>2. snap[c] \in Hash /\ lag[c] \in 0..Cooldown
    BY DEF IInv, TypeOK
  <2>3. snap[c].age <= hash'.age
    BY <1>1, <1>2, <2>1, <2>2 DEF Older, Hash
  <2>4. lag'[c] <= idle'
    BY <1>1, <2>1, <2>2 DEF Older
  <2>5. QED
    BY <2>1, <2>3, <2>4
<1>7. QED
  BY <1>3, <1>4, <1>5, <1>6 DEF IInv

\* The key's expiry keeps the invariant.
LEMMA ExpireStep ==
  ASSUME IInv, Expire
  PROVE  IInv'
<1>1. Clean \in Hash
  BY DEF Clean, Hash, CircuitState
<1>2. /\ hash' = Clean /\ idle' = Ttl /\ streak' = 0 /\ pc' = pc /\ snap' = snap
      /\ dirty' = [c \in Caller |-> dirty[c] \/ InTransaction(c)]
      /\ lag' = [c \in Caller |-> Older(lag[c], Cooldown)]
  BY DEF Expire, LagsGrow
<1>3. dirty' \in [Caller -> BOOLEAN]
  <2>1. \A c \in Caller : (dirty[c] \/ InTransaction(c)) \in BOOLEAN
    BY DEF IInv, TypeOK, InTransaction
  <2>2. QED
    BY <1>2, <2>1
<1>4. lag' \in [Caller -> 0..Cooldown]
  BY <1>2 DEF IInv, TypeOK, Older
<1>5. TypeOK'
  BY <1>1, <1>2, <1>3, <1>4 DEF IInv, TypeOK
<1>6. StampInv' /\ CountsEveryFailure'
  BY <1>2 DEF StampInv, CountsEveryFailure, Clean
<1>7. ReadsAreCurrent'
  BY <1>2 DEF ReadsAreCurrent, InTransaction
<1>8. QED
  BY <1>5, <1>6, <1>7 DEF IInv

\* The initial states satisfy the inductive invariant.
LEMMA InitIInv == Init => IInv
<1> SUFFICES ASSUME Init PROVE IInv
  OBVIOUS
<1>1. Clean \in Hash
  BY DEF Clean, Hash, CircuitState
<1>2. TypeOK
  BY <1>1 DEF Init, TypeOK, Phase
<1>3. CountsEveryFailure /\ StampInv /\ ReadsAreCurrent
  BY DEF Init, CountsEveryFailure, StampInv, ReadsAreCurrent, InTransaction,
         Clean
<1>4. QED
  BY <1>2, <1>3 DEF IInv

\* Every step keeps the inductive invariant.
LEMMA NextIInv == IInv /\ [Next]_vars => IInv'
<1> SUFFICES ASSUME IInv, [Next]_vars PROVE IInv'
  OBVIOUS
<1>1. ASSUME NEW c \in Caller, AllowRead(c) PROVE IInv'
  BY <1>1, ReadStep DEF AllowRead, Phase
<1>2. ASSUME NEW c \in Caller, Reject(c) \/ Admit(c) PROVE IInv'
  BY <1>2, SilentStep DEF Reject, Admit, Commit
<1>3. ASSUME NEW c \in Caller, Probe(c) PROVE IInv'
  BY <1>3, ProbeStep
<1>4. ASSUME NEW c \in Caller, Answer(c, "succeed") \/ Answer(c, "fail")
      PROVE  IInv'
  BY <1>4, ReadStep DEF Answer, Phase
<1>5. ASSUME NEW c \in Caller, RecordSuccess(c) PROVE IInv'
  BY <1>5, SuccessStep
<1>6. ASSUME NEW c \in Caller, RecordFailure(c) PROVE IInv'
  BY <1>6, FailureStep
<1>7. ASSUME NEW c \in Caller, Retry(c) PROVE IInv'
  BY <1>7, ReadStep DEF Retry, IInv, TypeOK
<1>8. ASSUME NEW c \in Caller, Abandon(c) PROVE IInv'
  BY <1>8, SilentStep DEF Abandon
<1>9. CASE Tick
  BY <1>9, TickStep
<1>10. CASE Expire
  BY <1>10, ExpireStep
<1>11. CASE UNCHANGED vars
  BY <1>11 DEF vars, IInv, TypeOK, CountsEveryFailure, StampInv,
               ReadsAreCurrent, InTransaction
<1>12. QED
  BY <1>1, <1>2, <1>3, <1>4, <1>5, <1>6, <1>7, <1>8, <1>9, <1>10, <1>11
     DEF Next

\* The inductive invariant of the transactions.
THEOREM Invariance == Spec => []IInv
<1>1. QED
  BY InitIInv, NextIInv, PTL DEF Spec

\* Every variable keeps its type.
THEOREM TypeCorrect == Spec => []TypeOK
<1>1. IInv => TypeOK
  BY DEF IInv
<1>2. QED
  BY <1>1, Invariance, PTL

\* No interleaving of replicas loses or doubles a failure: the breaker is
\* tripped exactly when the consecutive failures reach the threshold.
THEOREM CountingCorrect == Spec => []CountsEveryFailure
<1>1. IInv => CountsEveryFailure
  BY DEF IInv
<1>2. QED
  BY <1>1, Invariance, PTL

-----------------------------------------------------------------------------
(* What a step may never do.                                               *)

\* A call is let through only while the breaker is not cooling.
THEOREM AdmissionCorrect == Spec => NoCallWhileCooling
<1> DEFINE Safe == \A c \in Caller :
                     pc[c] = "admit" /\ pc'[c] = "calling" => ~Cooling(hash)
<1>1. ASSUME IInv, [Next]_vars
      PROVE  [Safe]_vars
  <2> SUFFICES ASSUME NEW c \in Caller, Next, pc[c] = "admit", pc'[c] = "calling"
               PROVE  ~Cooling(hash)
    BY <1>1
  <2>1. pc \in [Caller -> Phase]
    BY <1>1 DEF IInv, TypeOK
  <2>2. PICK d \in Caller : Admit(d) \/ Probe(d)
    BY <2>1 DEF Next, AllowRead, Reject, Answer, RecordSuccess, RecordFailure,
                Retry, Abandon, Tick, Expire, Commit, Read
  <2>3. InTransaction(c) /\ ~dirty[c] /\ ~Cooling(snap[c])
    BY <2>1, <2>2 DEF Admit, Probe, Commit, InTransaction, ProbeDue
  <2>4. QED
    BY <1>1, <2>3, CommitsOnCurrent
<1>2. QED
  BY <1>1, Invariance, PTL DEF Spec, NoCallWhileCooling

\* A failure committed while the breaker cools leaves it cooling.
LEMMA FailureKeepsCooling ==
  ASSUME IInv, NEW c \in Caller, RecordFailure(c), Cooling(hash)
  PROVE  Cooling(hash')
<1>1. InTransaction(c) /\ ~dirty[c]
  BY DEF RecordFailure, Commit, InTransaction
<1>2. hash' = AfterFailure(hash, lag[c]) /\ lag[c] \in 0..hash.age
      /\ hash \in Hash
  BY <1>1, CommitsOnCurrent DEF RecordFailure, Write, IInv, TypeOK
<1>3. hash.state = "open" /\ hash.age < Cooldown /\ hash.failures = Threshold
  BY <1>2 DEF Cooling, Effective, Hash, CircuitState, IInv, TypeOK,
              CountsEveryFailure
<1>4. QED
  BY <1>2, <1>3 DEF AfterFailure, Cooling, Effective, Hash

\* The TTL cannot run out while the breaker cools.
LEMMA ExpiryAfterCooldown ==
  ASSUME IInv, Expire
  PROVE  ~Cooling(hash)
<1>1. hash \in Hash /\ idle \in 0..Ttl /\ idle + 1 = Ttl
      /\ (idle <= hash.age \/ hash.age = Cooldown)
  BY DEF IInv, TypeOK, StampInv, Expire
<1>2. hash.age >= Cooldown
  BY <1>1 DEF Hash
<1>3. QED
  BY <1>2 DEF Cooling, Effective

\* A quarantine ends by its cooldown or by a success, and by nothing else.
THEOREM QuarantineCorrect == Spec => QuarantineEnds
<1> DEFINE Ends == Cooling(hash) /\ ~Cooling(hash') =>
                     \/ hash' = [hash EXCEPT !.age = Cooldown]
                     \/ \E c \in Caller : pc[c] = "succeed" /\ hash' = Clean
<1>1. ASSUME IInv, [Next]_vars
      PROVE  [Ends]_vars
  <2> SUFFICES ASSUME Next, Cooling(hash), ~Cooling(hash')
               PROVE  \/ hash' = [hash EXCEPT !.age = Cooldown]
                      \/ \E c \in Caller : pc[c] = "succeed" /\ hash' = Clean
    BY <1>1
  <2>0. hash \in Hash
    BY <1>1 DEF IInv, TypeOK
  <2>1. hash' # hash
    OBVIOUS
  <2>2. ASSUME NEW c \in Caller, RecordSuccess(c)
        PROVE  pc[c] = "succeed" /\ hash' = Clean
    BY <2>2 DEF RecordSuccess, Commit, Write
  <2>3. ASSUME NEW c \in Caller, RecordFailure(c)
        PROVE  FALSE
    BY <1>1, <2>3, FailureKeepsCooling
  <2>4. ASSUME NEW c \in Caller, Probe(c)
        PROVE  FALSE
    <3>1. InTransaction(c) /\ ~dirty[c] /\ ProbeDue(snap[c])
      BY <2>4 DEF Probe, Commit, InTransaction
    <3>2. QED
      BY <1>1, <3>1, CommitsOnCurrent DEF ProbeDue
  <2>5. CASE Tick
    <3>1. hash' = Aged(hash)
      BY <2>5 DEF Tick
    <3>2. hash.state = "open" /\ Older(hash.age, Cooldown) = Cooldown
      <4>1. hash.state = "open"
        BY <2>0 DEF Cooling, Effective, Hash, CircuitState
      <4>2. hash'.state = "open" /\ hash'.age = Older(hash.age, Cooldown)
        BY <2>0, <3>1, <4>1, AgedKeeps
      <4>3. Older(hash.age, Cooldown) \in 0..Cooldown
        BY <2>0 DEF Hash, Older
      <4>4. QED
        BY <4>1, <4>2, <4>3 DEF Cooling, Effective
    <3>3. QED
      BY <3>1, <3>2 DEF Aged
  <2>6. CASE Expire
    BY <1>1, <2>6, ExpiryAfterCooldown
  <2>7. QED
    BY <2>1, <2>2, <2>3, <2>4, <2>5, <2>6
       DEF Next, AllowRead, Reject, Admit, Answer, Retry, Abandon, Read
<1>2. QED
  BY <1>1, Invariance, PTL DEF Spec, QuarantineEnds

-----------------------------------------------------------------------------
(* The transactions implement the atomic breaker.                          *)

\* Both modules decide by the same rules.
LEMMA SameRules ==
  /\ Atomic!Clean = Clean
  /\ \A h : Atomic!Cooling(h) <=> Cooling(h)
  /\ \A h : Atomic!ProbeDue(h) <=> ProbeDue(h)
  /\ \A h : Atomic!AfterProbe(h) = AfterProbe(h)
  /\ \A h : Atomic!Aged(h) = Aged(h)
  /\ \A h, stamp : Atomic!AfterFailure(h, stamp) = AfterFailure(h, stamp)
BY DEF Clean, Cooling, ProbeDue, AfterProbe, Aged, AfterFailure, Effective,
       OneMore, Older, Atomic!Clean, Atomic!Cooling, Atomic!ProbeDue,
       Atomic!AfterProbe, Atomic!Aged, Atomic!AfterFailure, Atomic!Effective,
       Atomic!OneMore, Atomic!Older

\* Every step is a step of the atomic breaker, or leaves it alone.
LEMMA AtomicStep ==
  ASSUME IInv, [Next]_vars
  PROVE  [Atomic!Next]_(Atomic!vars)
<1> USE DEF Serving, Atomic!vars
<1>0. pc \in [Caller -> Phase] /\ hash \in Hash
  BY DEF IInv, TypeOK
<1>1. ASSUME NEW c \in Caller, AllowRead(c) \/ Retry(c)
             \/ Answer(c, "succeed") \/ Answer(c, "fail")
      PROVE  UNCHANGED <<hash, Serving>>
  BY <1>0, <1>1 DEF AllowRead, Retry, Answer, Read, InTransaction
<1>2. ASSUME NEW c \in Caller, Reject(c)
      PROVE  UNCHANGED <<hash, Serving>>
  BY <1>0, <1>2 DEF Reject, Commit
<1>3. ASSUME NEW c \in Caller, Admit(c)
      PROVE  Atomic!Admit(c)
  <2>1. InTransaction(c) /\ ~dirty[c] /\ ~Cooling(snap[c]) /\ ~ProbeDue(snap[c])
        /\ hash' = hash /\ pc[c] = "admit" /\ pc' = [pc EXCEPT ![c] = "calling"]
    BY <1>3 DEF Admit, Commit, InTransaction
  <2>2. ~Cooling(hash) /\ ~ProbeDue(hash)
    BY <2>1, CommitsOnCurrent DEF ProbeDue, IInv, ReadsAreCurrent
  <2>3. Serving' = Serving \union {c} /\ c \notin Serving
    BY <1>0, <2>1
  <2>4. QED
    BY <2>1, <2>2, <2>3, SameRules DEF Atomic!Admit
<1>4. ASSUME NEW c \in Caller, Probe(c)
      PROVE  Atomic!Admit(c)
  <2>1. InTransaction(c) /\ ~dirty[c] /\ ProbeDue(snap[c])
        /\ hash' = AfterProbe(snap[c])
        /\ pc[c] = "admit" /\ pc' = [pc EXCEPT ![c] = "calling"]
    BY <1>4 DEF Probe, Commit, Write, InTransaction
  <2>2. ~Cooling(hash) /\ ProbeDue(hash) /\ hash' = AfterProbe(hash)
    BY <2>1, CommitsOnCurrent DEF ProbeDue
  <2>3. Serving' = Serving \union {c} /\ c \notin Serving
    BY <1>0, <2>1
  <2>4. QED
    BY <2>2, <2>3, SameRules DEF Atomic!Admit
<1>5. ASSUME NEW c \in Caller, RecordSuccess(c)
      PROVE  Atomic!Succeed(c)
  BY <1>0, <1>5, SameRules DEF RecordSuccess, Commit, Write, Atomic!Succeed
<1>6. ASSUME NEW c \in Caller, RecordFailure(c)
      PROVE  Atomic!Fail(c)
  <2>1. InTransaction(c) /\ ~dirty[c] /\ hash' = AfterFailure(snap[c], lag[c])
        /\ pc[c] = "fail" /\ pc' = [pc EXCEPT ![c] = "idle"]
    BY <1>6 DEF RecordFailure, Commit, Write, InTransaction
  <2>2. hash' = AfterFailure(hash, lag[c]) /\ lag[c] \in 0..hash.age
    BY <2>1, CommitsOnCurrent
  <2>3. Serving' = Serving \ {c} /\ c \in Serving
    BY <1>0, <2>1
  <2>4. QED
    BY <2>2, <2>3, SameRules DEF Atomic!Fail
<1>7. ASSUME NEW c \in Caller, Abandon(c)
      PROVE  Atomic!Abandon(c) \/ UNCHANGED <<hash, Serving>>
  BY <1>0, <1>7 DEF Abandon, Atomic!Abandon
<1>8. ASSUME Tick PROVE Atomic!Tick
  BY <1>8, SameRules DEF Tick, Atomic!Tick
<1>9. ASSUME Expire PROVE Atomic!Forget
  BY <1>9, ExpiryAfterCooldown, SameRules DEF Expire, Atomic!Forget
<1>10. CASE UNCHANGED vars
  BY <1>10 DEF vars
<1>11. QED
  BY <1>1, <1>2, <1>3, <1>4, <1>5, <1>6, <1>7, <1>8, <1>9, <1>10
     DEF Next, Atomic!Next

\* "concurrent replicas never corrupt the counter or race a transition":
\* the WATCH/MULTI/EXEC breaker implements the atomic one.
THEOREM Implementation == Spec => ImplementsAtomicBreaker
<1>1. Init => Atomic!Init
  BY SameRules DEF Init, Atomic!Init, Serving
<1>2. IInv /\ [Next]_vars => [Atomic!Next]_(Atomic!vars)
  BY AtomicStep
<1>3. QED
  BY <1>1, <1>2, Invariance, PTL
     DEF Spec, ImplementsAtomicBreaker, Atomic!Spec
=============================================================================
