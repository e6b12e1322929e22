--------------------------- MODULE FailoverProofs ---------------------------
(***************************************************************************)
(* Proofs about Failover: for any alias rows, registry and requests, a     *)
(* provider whose calls succeed is never quarantined, and what a request   *)
(* does to a breaker is what that breaker's protocol allows.  And about    *)
(* the providers it calls: whatever is asked and however a vendor answers, *)
(* the messages reach it and the client is told what it said, once.        *)
(***************************************************************************)
EXTENDS Failover, Providers, SequencesExt, FiniteSetTheorems, SequenceTheorems,
        WellFoundedInduction, TLAPS

\* A request's key is one of its alias's two, and it calls a model that an
\* adapter serves.
RightKey ==
  \A c \in Caller :
    /\ key[c] \in {ProviderOf[alias[c]], Fallback[alias[c]]}
    /\ pc[c] = "calling" => Vendor(c) # Missing

IInv == TypeOK /\ RightKey /\ HealthyStaysInService

-----------------------------------------------------------------------------
(* The breaker rules.                                                      *)

\* The operations keep the hash's type.
LEMMA RulesType ==
  ASSUME NEW h \in Hash, NEW stamp \in 0..h.age
  PROVE  /\ Clean \in Hash
         /\ AfterProbe(h) \in Hash
         /\ AfterFailure(h, stamp) \in Hash
         /\ Aged(h) \in Hash
<1>1. Clean \in Hash
  BY BreakerAssumption DEF Hash, Clean, CircuitState
<1>2. AfterProbe(h) \in Hash
  BY DEF Hash, AfterProbe, CircuitState
<1>3. AfterFailure(h, stamp) \in Hash
  <2>1. stamp \in 0..Cooldown
    BY BreakerAssumption DEF Hash
  <2>2. OneMore(h.failures) \in 0..Threshold
    BY BreakerAssumption DEF Hash, OneMore
  <2>3. Threshold \in 0..Threshold /\ h.age \in 0..Cooldown
    BY BreakerAssumption DEF Hash
  <2>. QED
    BY <2>1, <2>2, <2>3 DEF Hash, AfterFailure, CircuitState
<1>4. Aged(h) \in Hash
  BY BreakerAssumption DEF Hash, Aged, Older
<1>. QED
  BY <1>1, <1>2, <1>3, <1>4

\* A key that an alias has stands for the vendor that serves the alias under
\* this key.
LEMMA KeyNamesVendor ==
  ASSUME TypeOK, RightKey, NEW c \in Caller, Vendor(c) # Missing
  PROVE  VendorOf(key[c]) = Vendor(c)
<1>1. alias[c] \in Alias
  BY DEF TypeOK
<1>2. CASE key[c] = ProviderOf[alias[c]]
  <2>1. Vendor(c) = Host[Primary[alias[c]]]
    BY <1>2 DEF Vendor, ModelOf
  <2>2. Vendor(c) = key[c] /\ key[c] \in Provider
    BY <1>1, <1>2, <2>1, RouteAssumption
  <2>. QED
    BY <2>2 DEF VendorOf
<1>3. CASE key[c] # ProviderOf[alias[c]]
  <2>1. key[c] = Fallback[alias[c]]
    BY <1>3 DEF RightKey
  <2>2. key[c] \notin Provider
    BY <1>1, <2>1, RouteAssumption
  <2>. QED
    BY <1>3, <2>1, <2>2 DEF VendorOf, Vendor, ModelOf
<1>. QED
  BY <1>2, <1>3

-----------------------------------------------------------------------------
(* The invariant.                                                          *)

\* The initial states satisfy it.
LEMMA InitIInv == Init => IInv
<1>. SUFFICES ASSUME Init PROVE IInv
  OBVIOUS
<1>1. Clean \in Hash
  BY BreakerAssumption DEF Hash, Clean, CircuitState
<1>2. \A c \in Caller : ProviderOf[alias[c]] \in Key
  BY RouteAssumption DEF Init, Key
<1>3. TypeOK
  BY <1>1, <1>2 DEF Init, TypeOK, Phase
<1>4. RightKey
  BY DEF Init, RightKey
<1>5. HealthyStaysInService
  BY DEF Init, HealthyStaysInService, Clean
<1>. QED
  BY <1>3, <1>4, <1>5 DEF IInv

\* A request that only moves, without touching a breaker.
LEMMA MoveIInv ==
  ASSUME IInv, NEW c \in Caller, NEW phase \in Phase, Goto(c, phase),
         UNCHANGED <<hash, alias>>,
         NEW k \in {key[c], Fallback[alias[c]]}, key' = [key EXCEPT ![c] = k],
         phase # "calling"
  PROVE  IInv'
<1>1. alias[c] \in Alias /\ Fallback[alias[c]] \in Key
  BY RouteAssumption DEF IInv, TypeOK, Key
<1>2. k \in Key
  BY <1>1 DEF IInv, TypeOK
<1>3. TypeOK'
  BY <1>2 DEF IInv, TypeOK, Goto
<1>4. RightKey'
  <2>. SUFFICES ASSUME NEW d \in Caller
       PROVE  /\ key'[d] \in {ProviderOf[alias'[d]], Fallback[alias'[d]]}
              /\ pc'[d] = "calling" => Vendor(d)' # Missing
    BY DEF RightKey
  <2>1. CASE d = c
    BY <2>1 DEF IInv, TypeOK, RightKey, Goto
  <2>2. CASE d # c
    BY <2>2 DEF IInv, TypeOK, RightKey, Goto, Vendor, ModelOf
  <2>. QED
    BY <2>1, <2>2
<1>5. HealthyStaysInService'
  BY DEF IInv, HealthyStaysInService
<1>. QED
  BY <1>3, <1>4, <1>5 DEF IInv

\* A breaker changes; requests stay, or one of them ends or starts to call.
LEMMA HashIInv ==
  ASSUME IInv, NEW k \in Key, NEW h \in Hash,
         VendorOf(k) \in Healthy => h.state = "closed",
         hash' = [hash EXCEPT ![k] = h],
         UNCHANGED <<alias, key>>,
         pc' \in [Caller -> Phase],
         \A c \in Caller : pc'[c] = "calling" => Vendor(c) # Missing
  PROVE  IInv'
<1>1. TypeOK'
  BY DEF IInv, TypeOK
<1>2. RightKey'
  BY DEF IInv, RightKey, Vendor, ModelOf
<1>3. HealthyStaysInService'
  BY DEF IInv, TypeOK, HealthyStaysInService, VendorOf
<1>. QED
  BY <1>1, <1>2, <1>3 DEF IInv

\* Every step keeps the invariant.
LEMMA NextIInv == IInv /\ [Next]_vars => IInv'
<1>. SUFFICES ASSUME IInv, [Next]_vars
     PROVE  IInv'
  OBVIOUS
<1>1. ASSUME NEW c \in Caller, NEW a \in Alias, Start(c, a)
      PROVE  IInv'
  <2>1. ProviderOf[a] \in Key
    BY RouteAssumption DEF Key
  <2>2. TypeOK'
    BY <1>1, <2>1 DEF IInv, TypeOK, Start, Goto, Phase
  <2>3. RightKey'
    BY <1>1 DEF IInv, TypeOK, RightKey, Start, Goto, Vendor, ModelOf
  <2>4. HealthyStaysInService'
    BY <1>1 DEF IInv, HealthyStaysInService, Start
  <2>. QED
    BY <2>2, <2>3, <2>4 DEF IInv
<1>2. ASSUME NEW c \in Caller,
             ChoosePrimary(c) \/ ChooseFallback(c) \/ Unknown(c)
               \/ Reject(c) \/ Abandon(c)
      PROVE  IInv'
  <2>1. /\ {"idle", "allow", "fallback"} \subseteq Phase
        /\ "calling" \notin {"idle", "allow", "fallback"}
    BY DEF Phase
  <2>2. key = [key EXCEPT ![c] = key[c]]
    BY DEF IInv, TypeOK
  <2>3. PICK phase \in {"idle", "allow", "fallback"} : Goto(c, phase)
    BY <1>2 DEF ChoosePrimary, ChooseFallback, Unknown, Reject, Abandon
  <2>4. UNCHANGED <<hash, alias>>
    BY <1>2 DEF ChoosePrimary, ChooseFallback, Unknown, Reject, Abandon
  <2>5. \E k \in {key[c], Fallback[alias[c]]} : key' = [key EXCEPT ![c] = k]
    BY <1>2, <2>2 DEF ChoosePrimary, ChooseFallback, Unknown, Reject, Abandon
  <2>. QED
    BY <2>1, <2>3, <2>4, <2>5, MoveIInv
<1>3. ASSUME NEW c \in Caller, Allow(c)
      PROVE  IInv'
  <2>. DEFINE h == IF ProbeDue(hash[key[c]]) THEN AfterProbe(hash[key[c]])
                   ELSE hash[key[c]]
  <2>1. key[c] \in Key /\ hash[key[c]] \in Hash
    BY DEF IInv, TypeOK
  <2>2. h \in Hash
    BY <2>1 DEF Hash, AfterProbe, CircuitState
  <2>3. VendorOf(key[c]) \in Healthy => h.state = "closed"
    BY <2>1 DEF IInv, HealthyStaysInService, ProbeDue
  <2>4. hash' = [hash EXCEPT ![key[c]] = h]
    BY <1>3 DEF Allow
  <2>5. pc' \in [Caller -> Phase]
    BY <1>3 DEF IInv, TypeOK, Allow, Goto, Phase
  <2>6. \A d \in Caller : pc'[d] = "calling" => Vendor(d) # Missing
    BY <1>3 DEF IInv, TypeOK, RightKey, Allow, Goto
  <2>7. UNCHANGED <<alias, key>>
    BY <1>3 DEF Allow
  <2>. HIDE DEF h
  <2>. QED
    BY <2>1, <2>2, <2>3, <2>4, <2>5, <2>6, <2>7, HashIInv
<1>4. ASSUME NEW c \in Caller, Succeed(c)
      PROVE  IInv'
  <2>1. key[c] \in Key
    BY DEF IInv, TypeOK
  <2>2. Clean \in Hash /\ Clean.state = "closed"
    BY BreakerAssumption DEF Hash, Clean, CircuitState
  <2>3. /\ pc' \in [Caller -> Phase]
        /\ \A d \in Caller : pc'[d] = "calling" => Vendor(d) # Missing
    BY <1>4 DEF IInv, TypeOK, RightKey, Succeed, Goto, Phase
  <2>4. hash' = [hash EXCEPT ![key[c]] = Clean] /\ UNCHANGED <<alias, key>>
    BY <1>4 DEF Succeed
  <2>. QED
    BY <2>1, <2>2, <2>3, <2>4, HashIInv
<1>5. ASSUME NEW c \in Caller, Fail(c)
      PROVE  IInv'
  <2>1. key[c] \in Key /\ hash[key[c]] \in Hash
    BY DEF IInv, TypeOK
  <2>2. PICK stamp \in 0..hash[key[c]].age :
          hash' = [hash EXCEPT ![key[c]] = AfterFailure(@, stamp)]
    BY <1>5 DEF Fail
  <2>3. AfterFailure(hash[key[c]], stamp) \in Hash
    BY <2>1, RulesType
  <2>4. VendorOf(key[c]) \notin Healthy
    <3>1. Vendor(c) # Missing /\ Vendor(c) \notin Healthy
      BY <1>5 DEF IInv, RightKey, Fail
    <3>. QED
      BY <3>1, KeyNamesVendor DEF IInv
  <2>5. /\ pc' \in [Caller -> Phase]
        /\ \A d \in Caller : pc'[d] = "calling" => Vendor(d) # Missing
    BY <1>5 DEF IInv, TypeOK, RightKey, Fail, Goto, Phase
  <2>6. /\ hash' = [hash EXCEPT ![key[c]] = AfterFailure(hash[key[c]], stamp)]
        /\ UNCHANGED <<alias, key>>
    BY <1>5, <2>2 DEF Fail
  <2>. QED
    BY <2>1, <2>3, <2>4, <2>5, <2>6, HashIInv
<1>6. ASSUME NEW k \in Key, Forget(k)
      PROVE  IInv'
  <2>1. Clean \in Hash /\ Clean.state = "closed"
    BY BreakerAssumption DEF Hash, Clean, CircuitState
  <2>2. /\ pc' \in [Caller -> Phase]
        /\ \A d \in Caller : pc'[d] = "calling" => Vendor(d) # Missing
    BY <1>6 DEF IInv, TypeOK, RightKey, Forget
  <2>3. hash' = [hash EXCEPT ![k] = Clean] /\ UNCHANGED <<alias, key>>
    BY <1>6 DEF Forget
  <2>. QED
    BY <2>1, <2>2, <2>3, HashIInv
<1>7. ASSUME Tick
      PROVE  IInv'
  <2>1. \A k \in Key : Aged(hash[k]) \in Hash /\ Aged(hash[k]).state = hash[k].state
    BY BreakerAssumption DEF IInv, TypeOK, Hash, Aged, Older
  <2>2. TypeOK'
    BY <1>7, <2>1 DEF IInv, TypeOK, Tick
  <2>3. RightKey'
    BY <1>7 DEF IInv, RightKey, Tick, Vendor, ModelOf
  <2>4. HealthyStaysInService'
    BY <1>7, <2>1 DEF IInv, HealthyStaysInService, VendorOf, Tick
  <2>. QED
    BY <2>2, <2>3, <2>4 DEF IInv
<1>8. CASE UNCHANGED vars
  BY <1>8 DEF IInv, TypeOK, RightKey, HealthyStaysInService, VendorOf, Vendor, ModelOf, vars
<1>. QED
  BY <1>1, <1>2, <1>3, <1>4, <1>5, <1>6, <1>7, <1>8 DEF Next, Serve

\* The invariant holds throughout.
THEOREM Invariance == Spec => []IInv
BY InitIInv, NextIInv, PTL DEF Spec

\* Type correctness.
THEOREM TypeCorrect == Spec => []TypeOK
<1>1. IInv => TypeOK
  BY DEF IInv
<1>. QED
  BY <1>1, Invariance, PTL

\* Isolation: whatever the other providers do, and whoever fails over to it, a
\* provider that answers is never taken out of service.
THEOREM IsolationCorrect == Spec => []HealthyStaysInService
<1>1. IInv => HealthyStaysInService
  BY DEF IInv
<1>. QED
  BY <1>1, Invariance, PTL

-----------------------------------------------------------------------------
(* Each key is a breaker.                                                  *)

\* The requests that a breaker has admitted.
Busy(k) == {c \in Caller : pc[c] = "calling" /\ key[c] = k}

\* The breakers' rules are the same on both sides.
LEMMA SameRules ==
  ASSUME NEW k \in Key
  PROVE  /\ Breaker(k)!Clean = Clean
         /\ \A h : Breaker(k)!Cooling(h) <=> Cooling(h)
         /\ \A h : Breaker(k)!ProbeDue(h) <=> ProbeDue(h)
         /\ \A h : Breaker(k)!AfterProbe(h) = AfterProbe(h)
         /\ \A h : Breaker(k)!Aged(h) = Aged(h)
         /\ \A h, stamp : Breaker(k)!AfterFailure(h, stamp) = AfterFailure(h, stamp)
BY DEF Clean, Cooling, ProbeDue, AfterProbe, Aged, AfterFailure, Effective,
       OneMore, Older, Breaker!Clean, Breaker!Cooling, Breaker!ProbeDue,
       Breaker!AfterProbe, Breaker!Aged, Breaker!AfterFailure,
       Breaker!Effective, Breaker!OneMore, Breaker!Older

\* A step that leaves a key's hash and its admitted requests alone.
LEMMA Untouched ==
  ASSUME NEW k \in Key, hash'[k] = hash[k], Busy(k)' = Busy(k)
  PROVE  [Breaker(k)!Next]_(Breaker(k)!vars)
BY DEF Busy, Breaker!vars

\* Every step is a step of the protocol, or none, at every key.
LEMMA BreakerStep ==
  ASSUME TypeOK, [Next]_vars, NEW k \in Key
  PROVE  [Breaker(k)!Next]_(Breaker(k)!vars)
<1>1. ASSUME NEW c \in Caller, NEW a \in Alias, Start(c, a)
      PROVE  [Breaker(k)!Next]_(Breaker(k)!vars)
  <2>1. Busy(k)' = Busy(k)
    BY <1>1 DEF TypeOK, Start, Goto, Busy
  <2>. QED
    BY <1>1, <2>1, Untouched DEF Start
<1>2. ASSUME NEW c \in Caller,
             ChoosePrimary(c) \/ ChooseFallback(c) \/ Unknown(c) \/ Reject(c)
      PROVE  [Breaker(k)!Next]_(Breaker(k)!vars)
  <2>1. pc[c] # "calling" /\ pc'[c] # "calling"
    BY <1>2 DEF TypeOK, ChoosePrimary, ChooseFallback, Unknown, Reject, Goto
  <2>2. \A d \in Caller \ {c} : pc'[d] = pc[d] /\ key'[d] = key[d]
    BY <1>2 DEF TypeOK, ChoosePrimary, ChooseFallback, Unknown, Reject, Goto
  <2>3. hash' = hash
    BY <1>2 DEF ChoosePrimary, ChooseFallback, Unknown, Reject
  <2>4. Busy(k)' = Busy(k)
    BY <2>1, <2>2 DEF Busy
  <2>. QED
    BY <2>3, <2>4, Untouched
<1>3. ASSUME NEW c \in Caller, Abandon(c)
      PROVE  [Breaker(k)!Next]_(Breaker(k)!vars)
  <2>1. CASE c \in Busy(k)
    <3>1. Busy(k)' = Busy(k) \ {c}
      BY <1>3 DEF TypeOK, Abandon, Goto, Busy
    <3>2. Breaker(k)!Abandon(c)
      BY <1>3, <2>1, <3>1 DEF Abandon, Busy, Breaker!Abandon
    <3>. QED
      BY <3>2 DEF Breaker!Next
  <2>2. CASE c \notin Busy(k)
    <3>1. Busy(k)' = Busy(k)
      BY <1>3, <2>2 DEF TypeOK, Abandon, Goto, Busy
    <3>. QED
      BY <1>3, <3>1, Untouched DEF Abandon
  <2>. QED
    BY <2>1, <2>2
<1>4. ASSUME NEW c \in Caller, Allow(c)
      PROVE  [Breaker(k)!Next]_(Breaker(k)!vars)
  <2>1. CASE key[c] = k
    <3>1. c \notin Busy(k) /\ Busy(k)' = Busy(k) \union {c}
      BY <1>4, <2>1 DEF TypeOK, Allow, Goto, Busy
    <3>2. /\ ~Cooling(hash[k])
          /\ hash'[k] = IF ProbeDue(hash[k]) THEN AfterProbe(hash[k]) ELSE hash[k]
      BY <1>4, <2>1 DEF TypeOK, Allow
    <3>3. Breaker(k)!Admit(c)
      BY <3>1, <3>2, SameRules DEF Busy, Breaker!Admit
    <3>. QED
      BY <3>3 DEF Breaker!Next
  <2>2. CASE key[c] # k
    <3>1. hash'[k] = hash[k] /\ Busy(k)' = Busy(k)
      BY <1>4, <2>2 DEF TypeOK, Allow, Goto, Busy
    <3>. QED
      BY <3>1, Untouched
  <2>. QED
    BY <2>1, <2>2
<1>5. ASSUME NEW c \in Caller, Succeed(c)
      PROVE  [Breaker(k)!Next]_(Breaker(k)!vars)
  <2>1. CASE key[c] = k
    <3>1. c \in Busy(k) /\ Busy(k)' = Busy(k) \ {c}
      BY <1>5, <2>1 DEF TypeOK, Succeed, Goto, Busy
    <3>2. hash'[k] = Clean
      BY <1>5, <2>1 DEF TypeOK, Succeed
    <3>3. Breaker(k)!Succeed(c)
      BY <3>1, <3>2, SameRules DEF Busy, Breaker!Succeed
    <3>. QED
      BY <3>3 DEF Breaker!Next
  <2>2. CASE key[c] # k
    <3>1. hash'[k] = hash[k] /\ Busy(k)' = Busy(k)
      BY <1>5, <2>2 DEF TypeOK, Succeed, Goto, Busy
    <3>. QED
      BY <3>1, Untouched
  <2>. QED
    BY <2>1, <2>2
<1>6. ASSUME NEW c \in Caller, Fail(c)
      PROVE  [Breaker(k)!Next]_(Breaker(k)!vars)
  <2>1. CASE key[c] = k
    <3>1. c \in Busy(k) /\ Busy(k)' = Busy(k) \ {c}
      BY <1>6, <2>1 DEF TypeOK, Fail, Goto, Busy
    <3>2. PICK stamp \in 0..hash[k].age : hash'[k] = AfterFailure(hash[k], stamp)
      BY <1>6, <2>1 DEF TypeOK, Fail
    <3>3. Breaker(k)!Fail(c)
      BY <3>1, <3>2, SameRules DEF Busy, Breaker!Fail
    <3>. QED
      BY <3>3 DEF Breaker!Next
  <2>2. CASE key[c] # k
    <3>1. hash'[k] = hash[k] /\ Busy(k)' = Busy(k)
      BY <1>6, <2>2 DEF TypeOK, Fail, Goto, Busy
    <3>. QED
      BY <3>1, Untouched
  <2>. QED
    BY <2>1, <2>2
<1>7. ASSUME NEW j \in Key, Forget(j)
      PROVE  [Breaker(k)!Next]_(Breaker(k)!vars)
  <2>1. Busy(k)' = Busy(k)
    BY <1>7 DEF Forget, Busy
  <2>2. CASE j = k
    <3>1. hash'[k] = Clean /\ ~Cooling(hash[k])
      BY <1>7, <2>2 DEF TypeOK, Forget
    <3>2. Breaker(k)!Forget
      BY <2>1, <3>1, SameRules DEF Busy, Breaker!Forget
    <3>. QED
      BY <3>2 DEF Breaker!Next
  <2>3. CASE j # k
    <3>1. hash'[k] = hash[k]
      BY <1>7, <2>3 DEF TypeOK, Forget
    <3>. QED
      BY <2>1, <3>1, Untouched
  <2>. QED
    BY <2>2, <2>3
<1>8. ASSUME Tick
      PROVE  [Breaker(k)!Next]_(Breaker(k)!vars)
  <2>1. hash'[k] = Aged(hash[k]) /\ Busy(k)' = Busy(k)
    BY <1>8 DEF Tick, Busy
  <2>2. Breaker(k)!Tick
    BY <2>1, SameRules DEF Busy, Breaker!Tick
  <2>. QED
    BY <2>2 DEF Breaker!Next
<1>9. CASE UNCHANGED vars
  <2>1. hash'[k] = hash[k] /\ Busy(k)' = Busy(k)
    BY <1>9 DEF vars, Busy
  <2>. QED
    BY <2>1, Untouched
<1>. QED
  BY <1>1, <1>2, <1>3, <1>4, <1>5, <1>6, <1>7, <1>8, <1>9 DEF Next, Serve

\* Whatever requests do under a key, that key's breaker sees admissions,
\* outcomes and withdrawals in the order its protocol has them.
THEOREM ProtocolCorrect == Spec => EachKeyIsABreaker
<1>1. TypeOK /\ [Next]_vars => \A k \in Key : [Breaker(k)!Next]_(Breaker(k)!vars)
  BY BreakerStep
<1>2. ASSUME TypeOK, [Next]_vars
      PROVE  [\A k \in Key : [Breaker(k)!Next]_(Breaker(k)!vars)]_vars
  BY <1>1, <1>2
<1>. QED
  BY <1>2, TypeCorrect, PTL DEF Spec, EachKeyIsABreaker

-----------------------------------------------------------------------------
(* Folds and inputs.                                                       *)

\* A set of numbers that is not empty has a least one.
LEMMA Least ==
  ASSUME NEW T \in SUBSET Nat, T # {}
  PROVE  \E x \in T : \A y \in T : x <= y
<1> DEFINE R == StrictSubsetOrdering(Nat)
           U == {1 .. n : n \in T}
<1>1. IsWellFoundedOn(R, FiniteSubsetsOf(Nat))
  BY FS_StrictSubsetOrderingWellFounded
<1>2. U \subseteq FiniteSubsetsOf(Nat) /\ U # {}
  <2>1. ASSUME NEW n \in T PROVE 1 .. n \in SUBSET Nat /\ IsFiniteSet(1 .. n)
    BY FS_Interval
  <2>. QED
    BY <2>1 DEF FiniteSubsetsOf
<1> HIDE DEF R
<1>3. PICK u \in U : \A v \in U : ~ (<<v, u>> \in R)
  BY <1>1, <1>2, WFMin
<1>4. PICK x \in T : u = 1 .. x
  OBVIOUS
<1>5. ASSUME NEW y \in T, ~ (x <= y) PROVE FALSE
  <2>1. 1 .. y \subseteq 1 .. x /\ x \in 1 .. x /\ x \notin 1 .. y
    BY <1>5
  <2>2. <<1 .. y, 1 .. x>> \in R
    BY <2>1 DEF R, StrictSubsetOrdering
  <2>. QED
    BY <1>3, <1>4, <2>2
<1>. QED
  BY <1>5

\* A set with 0 and every successor of its members is all of Nat.
LEMMA SetInduction ==
  ASSUME NEW T \in SUBSET Nat, 0 \in T, \A n \in T : n + 1 \in T
  PROVE  T = Nat
<1>1. ASSUME Nat \ T # {} PROVE FALSE
  <2>1. PICK x \in Nat \ T : \A y \in Nat \ T : x <= y
    BY <1>1, Least
  <2>2. x # 0 /\ x - 1 \in T
    BY <2>1
  <2>. QED
    BY <2>1, <2>2
<1>. QED
  BY <1>1

\* The largest of the first numbers.
LEMMA MaxOfFirst ==
  ASSUME NEW n \in Nat \ {0}, NEW s \in SUBSET (1 .. n), n \in s
  PROVE  Max(s) = n /\ s \ {Max(s)} \in SUBSET (1 .. (n - 1))
<1>1. \E m \in s : \A y \in s : m >= y
  OBVIOUS
<1>2. Max(s) \in s /\ \A y \in s : Max(s) >= y
  BY <1>1, Zenon DEF Max
<1>3. Max(s) \in 1 .. n /\ Max(s) >= n
  BY <1>2
<1>4. \A m \in 1 .. n : m >= n => m = n
  OBVIOUS
<1>5. Max(s) = n
  BY <1>3, <1>4
<1>6. s \ {n} \in SUBSET (1 .. (n - 1))
  OBVIOUS
<1>. QED
  BY <1>5, <1>6

\* The first k of the first numbers.
LEMMA FirstNumbers ==
  ASSUME NEW n \in Nat, NEW k \in 1 .. n
  PROVE  /\ 1 .. k \in SUBSET (1 .. n) /\ 1 .. k # {}
         /\ Max(1 .. k) = k
         /\ (1 .. k) \ {k} = 1 .. (k - 1)
<1>1. k \in Nat \ {0} /\ 1 .. k \in SUBSET (1 .. k) /\ k \in 1 .. k
  OBVIOUS
<1>2. Max(1 .. k) = k
  BY <1>1, MaxOfFirst
<1>. QED
  BY <1>1, <1>2

\* A set of the first numbers has a largest.
LEMMA MaxIsIn ==
  ASSUME NEW n \in Nat, NEW s \in SUBSET (1 .. n), s # {}
  PROVE  Max(s) \in 1 .. n
<1> DEFINE T == {k \in Nat : \A u \in SUBSET (1 .. k) : u # {} => Max(u) \in 1 .. k}
<1>1. 0 \in T
  <2>1. 1 .. 0 = {}
    OBVIOUS
  <2>. QED
    BY <2>1
<1>2. ASSUME NEW k \in T PROVE k + 1 \in T
  <2> SUFFICES ASSUME NEW u \in SUBSET (1 .. k + 1), u # {}
               PROVE  Max(u) \in 1 .. k + 1
    OBVIOUS
  <2>1. CASE k + 1 \in u
    BY <2>1, MaxOfFirst
  <2>2. CASE k + 1 \notin u
    <3>1. u \in SUBSET (1 .. k)
      BY <2>2
    <3>. QED
      BY <3>1
  <2>. QED
    BY <2>1, <2>2
<1> HIDE DEF T
<1>3. T = Nat
  BY <1>1, <1>2, SetInduction DEF T
<1>4. n \in T
  BY <1>3
<1>. QED
  BY <1>4 DEF T

\* f holds what each set of the first n steps makes of x, taken in order.
IsFold(f, step, n, x) ==
  f = [s \in SUBSET (1 .. n) |->
         IF s = {} THEN x ELSE step[Max(s)][f[s \ {Max(s)}]]]

\* ... and stays within Acc.
IsFoldIn(Acc, f, step, n, x) ==
  IsFold(f, step, n, x) /\ \A s \in SUBSET (1 .. n) : f[s] \in Acc

\* Steps within a set can be taken one after the other.
LEMMA FoldExists ==
  ASSUME NEW Acc, NEW x \in Acc, NEW n \in Nat, NEW step \in [1 .. n -> [Acc -> Acc]]
  PROVE  \E f : IsFoldIn(Acc, f, step, n, x)
<1> DEFINE T == {k \in Nat : k <= n => \E f : IsFoldIn(Acc, f, step, k, x)}
<1>1. 0 \in T
  <2> DEFINE f == [s \in SUBSET (1 .. 0) |-> x]
  <2>1. 1 .. 0 = {}
    OBVIOUS
  <2>2. IsFoldIn(Acc, f, step, 0, x)
    BY <2>1 DEF IsFold, IsFoldIn
  <2>. QED
    BY <2>2
<1>2. ASSUME NEW k \in T PROVE k + 1 \in T
  <2> SUFFICES ASSUME k + 1 <= n
               PROVE  \E f : IsFoldIn(Acc, f, step, k + 1, x)
    OBVIOUS
  <2>1. PICK f : IsFoldIn(Acc, f, step, k, x)
    OBVIOUS
  <2> DEFINE g == [s \in SUBSET (1 .. k + 1) |->
                     IF k + 1 \notin s THEN f[s] ELSE step[k + 1][f[s \ {k + 1}]]]
  <2>2. ASSUME NEW s \in SUBSET (1 .. k + 1)
        PROVE  /\ g[s] \in Acc
               /\ g[s] = IF s = {} THEN x ELSE step[Max(s)][g[s \ {Max(s)}]]
    <3>1. CASE k + 1 \in s
      <4>1. Max(s) = k + 1
        BY <3>1, MaxOfFirst
      <4>2. s \ {k + 1} \in SUBSET (1 .. k) /\ s \ {k + 1} \in SUBSET (1 .. k + 1)
        OBVIOUS
      <4>3. g[s \ {k + 1}] = f[s \ {k + 1}] /\ f[s \ {k + 1}] \in Acc
        BY <2>1, <4>2 DEF IsFoldIn
      <4>4. step[k + 1] \in [Acc -> Acc]
        OBVIOUS
      <4>. QED
        BY <3>1, <4>1, <4>3, <4>4
    <3>2. CASE k + 1 \notin s
      <4>1. s \in SUBSET (1 .. k) /\ g[s] = f[s]
        BY <3>2
      <4>2. g[s \ {Max(s)}] = f[s \ {Max(s)}]
        BY <3>2
      <4>. QED
        BY <2>1, <4>1, <4>2 DEF IsFold, IsFoldIn
    <3>. QED
      BY <3>1, <3>2
  <2> DEFINE h == [s \in SUBSET (1 .. k + 1) |->
                     IF s = {} THEN x ELSE step[Max(s)][g[s \ {Max(s)}]]]
  <2>3. \A s \in SUBSET (1 .. k + 1) : g[s] = h[s]
    BY <2>2
  <2>4. /\ g = [s \in SUBSET (1 .. k + 1) |-> g[s]]
        /\ h = [s \in SUBSET (1 .. k + 1) |-> h[s]]
    OBVIOUS
  <2> HIDE DEF g
  <2>5. g = h
    <3> HIDE DEF h
    <3>. QED
      BY <2>3, <2>4
  <2>6. IsFoldIn(Acc, g, step, k + 1, x)
    BY <2>2, <2>5 DEF IsFold, IsFoldIn
  <2>. QED
    BY <2>6
<1> HIDE DEF T
<1>3. T = Nat
  BY <1>1, <1>2, SetInduction DEF T
<1>4. n \in T
  BY <1>3
<1>. QED
  BY <1>4 DEF T

\* The subject stays, and an input is of its letters.
InputInv == subject \in DOMAIN Alphabet /\ input \in Seq(Alphabet[subject])

\* NextLetter adds one.
LEMMA InputIsTyped == SpecInput => []InputInv
<1>1. InitInput => InputInv
  BY DEF InitInput, InputInv
<1>2. InputInv /\ [NextLetter]_inputVars => InputInv'
  <2> SUFFICES ASSUME InputInv, [NextLetter]_inputVars PROVE InputInv'
    OBVIOUS
  <2>1. CASE NextLetter
    <3> DEFINE S == Alphabet[subject]
    <3>1. PICK letter \in S : input' = Append(input, letter)
      BY <2>1 DEF NextLetter
    <3>2. subject' = subject /\ input \in Seq(S)
      BY <2>1 DEF NextLetter, InputInv
    <3> HIDE DEF S
    <3>3. input' \in Seq(S)
      BY <3>1, <3>2
    <3>4. input' \in Seq(Alphabet[subject])
      BY <3>3 DEF S
    <3>. QED
      BY <3>2, <3>4 DEF InputInv
  <2>2. CASE UNCHANGED inputVars
    BY <2>2 DEF inputVars, InputInv
  <2>. QED
    BY <2>1, <2>2
<1>. QED
  BY <1>1, <1>2, PTL DEF SpecInput

-----------------------------------------------------------------------------
(* The adapters.  A fold over a sequence is reached step by step; so is    *)
(* what of a sequence is in a set, and how often a call is tried.          *)

\* g holds what each set of the steps makes, taken in order, of what Acc holds.
Accumulates(Acc, g, step, last) ==
  \A u \in SUBSET (1 .. last) :
    u # {} /\ g[u \ {Max(u)}] \in Acc => g[u] = step[Max(u)][g[u \ {Max(u)}]]

\* ... one after the other.
Runs(Acc, g, step, first, last) ==
  \E run \in [0 .. last -> Acc] :
    /\ run[0] = first /\ run[last] = g[1 .. last]
    /\ \A n \in 1 .. last : run[n] = step[n][run[n - 1]]

\* What is folded step by step is reached step by step.
LEMMA FoldRuns ==
  ASSUME NEW Acc, NEW first \in Acc, NEW last \in Nat,
         NEW step \in [1 .. last -> [Acc -> Acc]], NEW g, g[{}] = first,
         Accumulates(Acc, g, step, last)
  PROVE  Runs(Acc, g, step, first, last)
<1> DEFINE T == {n \in Nat : n <= last => g[1 .. n] \in Acc}
<1>1. 1 .. 0 = {}
  OBVIOUS
<1>2. ASSUME NEW n \in 1 .. last, g[1 .. (n - 1)] \in Acc
      PROVE  g[1 .. n] = step[n][g[1 .. (n - 1)]] /\ g[1 .. n] \in Acc
  <2>1. /\ 1 .. n \in SUBSET (1 .. last) /\ 1 .. n # {}
        /\ Max(1 .. n) = n /\ (1 .. n) \ {n} = 1 .. (n - 1)
    BY FirstNumbers
  <2>2. g[1 .. n] = step[n][g[1 .. (n - 1)]]
    BY <1>2, <2>1 DEF Accumulates
  <2>. QED
    BY <1>2, <2>2
<1>3. 0 \in T
  BY <1>1
<1>4. ASSUME NEW n \in T PROVE n + 1 \in T
  <2> SUFFICES ASSUME n + 1 <= last PROVE g[1 .. (n + 1)] \in Acc
    OBVIOUS
  <2>1. PICK k \in 1 .. last : k = n + 1 /\ k - 1 = n
    OBVIOUS
  <2>2. g[1 .. (k - 1)] \in Acc
    BY <2>1
  <2>. QED
    BY <1>2, <2>1, <2>2
<1>5. \A n \in 0 .. last : g[1 .. n] \in Acc
  <2> HIDE DEF T
  <2>1. T = Nat
    BY <1>3, <1>4, SetInduction DEF T
  <2>. QED
    BY <2>1 DEF T
<1> HIDE DEF T
<1> DEFINE run == [n \in 0 .. last |-> g[1 .. n]]
<1>6. run \in [0 .. last -> Acc] /\ run[0] = first /\ run[last] = g[1 .. last]
  BY <1>1, <1>5
<1>7. ASSUME NEW n \in 1 .. last PROVE run[n] = step[n][run[n - 1]]
  <2>1. n \in 0 .. last /\ n - 1 \in 0 .. last
    OBVIOUS
  <2>. QED
    BY <1>2, <1>5, <2>1
<1>. QED
  BY <1>6, <1>7 DEF Runs

\* kept holds what of each prefix of a sequence is in a set.
IsAmong(kept, E, s, S) ==
  /\ kept \in [0 .. Len(s) -> Seq(E)]
  /\ kept[0] = <<>> /\ kept[Len(s)] = A!Among(s, S)
  /\ \A n \in 1 .. Len(s) :
       kept[n] = IF s[n] \in S THEN Append(kept[n - 1], s[n]) ELSE kept[n - 1]

\* What of a sequence is in a set is picked element by element.
LEMMA AmongIsStepwise ==
  ASSUME NEW E, NEW s \in Seq(E), NEW S
  PROVE  \E kept : IsAmong(kept, E, s, S)
<1> DEFINE Acc == Seq(E)
           first == <<>>
           last == Len(s)
           Pick(k, x) == IF x \in S THEN Append(k, x) ELSE k
           step == [n \in 1 .. last |-> [k \in Acc |-> Pick(k, s[n])]]
           Is(f) == f = [u \in SUBSET (DOMAIN s) |->
                           IF u = {} THEN first ELSE Pick(f[u \ {Max(u)}], s[Max(u)])]
           g == CHOOSE f : Is(f)
<1>1. /\ last \in Nat /\ DOMAIN s = 1 .. last /\ \A n \in 1 .. last : s[n] \in E
      /\ first \in Acc
  OBVIOUS
<1>2. A!Among(s, S) = g[DOMAIN s]
  BY DEF A!Among, A!FoldLeft, A!MapThenFoldSet, A!Max, Max
<1> HIDE DEF last, first
<1>3. ASSUME NEW n \in 1 .. last, NEW k \in Acc PROVE Pick(k, s[n]) \in Acc
  BY <1>1
<1>4. step \in [1 .. last -> [Acc -> Acc]]
  <2> HIDE DEF Acc, Pick
  <2>. QED
    BY <1>3
<1> HIDE DEF Acc, Pick
<1>5. PICK f : IsFoldIn(Acc, f, step, last, first)
  <2> HIDE DEF step
  <2>. QED
    BY <1>1, <1>4, FoldExists
<1>6. Is(f)
  <2>1. f = [u \in SUBSET (1 .. last) |-> IF u = {} THEN first ELSE step[Max(u)][f[u \ {Max(u)}]]]
    BY <1>5 DEF IsFoldIn, IsFold
  <2>2. ASSUME NEW u \in SUBSET (1 .. last), u # {}
        PROVE  step[Max(u)][f[u \ {Max(u)}]] = Pick(f[u \ {Max(u)}], s[Max(u)])
    <3>1. f[u \ {Max(u)}] \in Acc /\ Max(u) \in 1 .. last
      BY <1>1, <1>5, <2>2, MaxIsIn DEF IsFoldIn
    <3>. QED
      BY <3>1
  <2> HIDE DEF step
  <2>. QED
    BY <1>1, <2>1, <2>2
<1>7. Is(g)
  <2> HIDE DEF Is
  <2>. QED
    BY <1>6, Zenon
<1> HIDE DEF g
<1>8. \A u \in SUBSET (1 .. last) : g[u] = IF u = {} THEN first ELSE Pick(g[u \ {Max(u)}], s[Max(u)])
  BY <1>1, <1>7
<1>9. \A n \in 1 .. last, k \in Acc : step[n][k] = Pick(k, s[n])
  OBVIOUS
<1> HIDE DEF Is, step
<1>10. PICK run \in [0 .. last -> Acc] :
         /\ run[0] = first /\ run[last] = g[1 .. last]
         /\ \A n \in 1 .. last : run[n] = step[n][run[n - 1]]
  <2>1. Accumulates(Acc, g, step, last)
    BY <1>1, <1>8, <1>9, MaxIsIn DEF Accumulates
  <2>2. g[{}] = first
    BY <1>8
  <2>3. Runs(Acc, g, step, first, last)
    BY <1>1, <1>4, <2>1, <2>2, FoldRuns
  <2>. QED
    BY <2>3 DEF Runs
<1>11. ASSUME NEW n \in 1 .. last PROVE run[n] = Pick(run[n - 1], s[n])
  <2>1. n - 1 \in 0 .. last
    BY <1>1
  <2>. QED
    BY <1>9, <1>10, <2>1
<1>12. run[last] = A!Among(s, S)
  BY <1>1, <1>2, <1>10
<1>. QED
  BY <1>10, <1>11, <1>12 DEF IsAmong, last, first, Acc, Pick

\* The roles of messages are the vendor's... the outcomes of a call.
Outcomes == {"ok", "TransientProviderError", "APIError"}

\* How a call stands.
Attempts == [made : Nat, last : Outcomes \union {None}, over : BOOLEAN]

\* so holds how a call stands after each attempt.
IsRetrying(so, max, outs) ==
  /\ so \in [0 .. Len(outs) -> Attempts]
  /\ so[0] = [made |-> 0, last |-> None, over |-> FALSE] /\ so[Len(outs)] = A!Retrying(max, outs)
  /\ \A n \in 1 .. Len(outs) :
       so[n] = IF so[n - 1].over THEN so[n - 1]
                      ELSE [made |-> so[n - 1].made + 1, last |-> outs[n],
                            over |-> outs[n] # "TransientProviderError" \/ so[n - 1].made + 1 = max]

\* A call is tried attempt by attempt.
LEMMA RetryingIsStepwise ==
  ASSUME NEW max, NEW outs \in Seq(Outcomes)
  PROVE  \E so : IsRetrying(so, max, outs)
<1> DEFINE Acc == Attempts
           first == [made |-> 0, last |-> None, over |-> FALSE]
           last == Len(outs)
           Pick(k, x) == IF k.over THEN k
                      ELSE [made |-> k.made + 1, last |-> x,
                            over |-> x # "TransientProviderError" \/ k.made + 1 = max]
           step == [n \in 1 .. last |-> [k \in Acc |-> Pick(k, outs[n])]]
           Is(f) == f = [u \in SUBSET (DOMAIN outs) |->
                           IF u = {} THEN first ELSE Pick(f[u \ {Max(u)}], outs[Max(u)])]
           g == CHOOSE f : Is(f)
<1>1. /\ last \in Nat /\ DOMAIN outs = 1 .. last /\ \A n \in 1 .. last : outs[n] \in Outcomes
      /\ first \in Acc
  BY DEF Attempts
<1>2. A!Retrying(max, outs) = g[DOMAIN outs]
  BY DEF A!Retrying, A!FoldLeft, A!MapThenFoldSet, A!Max, Max
<1> HIDE DEF last, first
<1>3. ASSUME NEW n \in 1 .. last, NEW k \in Acc PROVE Pick(k, outs[n]) \in Acc
  BY <1>1 DEF Attempts
<1>4. step \in [1 .. last -> [Acc -> Acc]]
  <2> HIDE DEF Acc, Pick
  <2>. QED
    BY <1>3
<1> HIDE DEF Acc, Pick
<1>5. PICK f : IsFoldIn(Acc, f, step, last, first)
  <2> HIDE DEF step
  <2>. QED
    BY <1>1, <1>4, FoldExists
<1>6. Is(f)
  <2>1. f = [u \in SUBSET (1 .. last) |-> IF u = {} THEN first ELSE step[Max(u)][f[u \ {Max(u)}]]]
    BY <1>5 DEF IsFoldIn, IsFold
  <2>2. ASSUME NEW u \in SUBSET (1 .. last), u # {}
        PROVE  step[Max(u)][f[u \ {Max(u)}]] = Pick(f[u \ {Max(u)}], outs[Max(u)])
    <3>1. f[u \ {Max(u)}] \in Acc /\ Max(u) \in 1 .. last
      BY <1>1, <1>5, <2>2, MaxIsIn DEF IsFoldIn
    <3>. QED
      BY <3>1
  <2> HIDE DEF step
  <2>. QED
    BY <1>1, <2>1, <2>2
<1>7. Is(g)
  <2> HIDE DEF Is
  <2>. QED
    BY <1>6, Zenon
<1> HIDE DEF g
<1>8. \A u \in SUBSET (1 .. last) : g[u] = IF u = {} THEN first ELSE Pick(g[u \ {Max(u)}], outs[Max(u)])
  BY <1>1, <1>7
<1>9. \A n \in 1 .. last, k \in Acc : step[n][k] = Pick(k, outs[n])
  OBVIOUS
<1> HIDE DEF Is, step
<1>10. PICK run \in [0 .. last -> Acc] :
         /\ run[0] = first /\ run[last] = g[1 .. last]
         /\ \A n \in 1 .. last : run[n] = step[n][run[n - 1]]
  <2>1. Accumulates(Acc, g, step, last)
    BY <1>1, <1>8, <1>9, MaxIsIn DEF Accumulates
  <2>2. g[{}] = first
    BY <1>8
  <2>3. Runs(Acc, g, step, first, last)
    BY <1>1, <1>4, <2>1, <2>2, FoldRuns
  <2>. QED
    BY <2>3 DEF Runs
<1>11. ASSUME NEW n \in 1 .. last PROVE run[n] = Pick(run[n - 1], outs[n])
  <2>1. n - 1 \in 0 .. last
    BY <1>1
  <2>. QED
    BY <1>9, <1>10, <2>1
<1>12. run[last] = A!Retrying(max, outs)
  BY <1>1, <1>2, <1>10
<1>. QED
  BY <1>10, <1>11, <1>12 DEF IsRetrying, last, first, Acc, Pick

\* The attempt that is the last.
StopsAt(stop, max, outs) ==
  /\ stop = max \/ (stop \in DOMAIN outs /\ outs[stop] # "TransientProviderError")
  /\ stop <= max
  /\ \A i \in DOMAIN outs : outs[i] # "TransientProviderError" => stop <= i

\* A call is tried until an attempt is final or the attempts are used up.
LEMMA RetryingIs ==
  ASSUME NEW max \in Nat \ {0}, NEW outs \in Seq(Outcomes), NEW stop \in Nat \ {0},
         StopsAt(stop, max, outs)
  PROVE  /\ A!Retrying(max, outs).made = IF Len(outs) < stop THEN Len(outs) ELSE stop
         /\ Len(outs) > 0 =>
              A!Retrying(max, outs).last = outs[IF Len(outs) < stop THEN Len(outs) ELSE stop]
<1> DEFINE size == Len(outs)
           upto(n) == IF n < stop THEN n ELSE stop
<1>1. size \in Nat /\ DOMAIN outs = 1 .. size /\ stop <= max
  BY DEF StopsAt
<1>2. PICK so : IsRetrying(so, max, outs)
  BY RetryingIsStepwise
<1>9. /\ so[0] = [made |-> 0, last |-> None, over |-> FALSE]
      /\ so[size] = A!Retrying(max, outs)
      /\ \A n \in 1 .. size :
           so[n] = IF so[n - 1].over THEN so[n - 1]
                   ELSE [made |-> so[n - 1].made + 1, last |-> outs[n],
                         over |-> outs[n] # "TransientProviderError" \/ so[n - 1].made + 1 = max]
  BY <1>2 DEF IsRetrying
<1> HIDE DEF size
<1> DEFINE Made(n) == so[n].made = upto(n)
           Over(n) == (n < stop => so[n].over = FALSE) /\ (n >= stop => so[n].over = TRUE)
           Told(n) == n > 0 => so[n].last = outs[upto(n)]
           T == {n \in Nat : n <= size => Made(n) /\ Over(n) /\ Told(n)}
<1>3. 0 \in T
  BY <1>9
<1>4. ASSUME NEW n \in Nat, n + 1 <= size, Made(n), Over(n), Told(n)
      PROVE  Made(n + 1) /\ Over(n + 1) /\ Told(n + 1)
  <2>1. PICK k \in 1 .. size : k = n + 1 /\ k - 1 = n
    BY <1>1, <1>4
  <2>2. Made(n) /\ Over(n) /\ Told(n)
    BY <1>4
  <2>3. so[k] = IF so[n].over THEN so[n]
                ELSE [made |-> so[n].made + 1, last |-> outs[k],
                      over |-> outs[k] # "TransientProviderError" \/ so[n].made + 1 = max]
    BY <1>9, <2>1
  <2>4. CASE n >= stop
    <3>1. so[k] = so[n] /\ n > 0 /\ upto(k) = upto(n)
      BY <2>1, <2>2, <2>3, <2>4
    <3>. QED
      BY <2>1, <2>2, <2>4, <3>1
  <2>5. CASE n < stop
    <3>0. so[n].over = FALSE /\ so[n].made + 1 = k /\ upto(k) = k
      BY <2>1, <2>2, <2>5
    <3>. DEFINE halt == outs[k] # "TransientProviderError" \/ so[n].made + 1 = max
    <3>3. so[k] = [made |-> so[n].made + 1, last |-> outs[k], over |-> halt]
      BY <2>3, <3>0, Zenon
    <3>1. /\ so[k].made = k /\ so[k].last = outs[k]
          /\ outs[k] # "TransientProviderError" \/ k = max => so[k].over = TRUE
          /\ ~ (outs[k] # "TransientProviderError" \/ k = max) => so[k].over = FALSE
      <4>. HIDE DEF halt
      <4>1. so[k].made = so[n].made + 1 /\ so[k].last = outs[k] /\ so[k].over = halt
        BY <3>3
      <4>2. /\ outs[k] # "TransientProviderError" \/ k = max => halt = TRUE
            /\ ~ (outs[k] # "TransientProviderError" \/ k = max) => halt = FALSE
        BY <3>0 DEF halt
      <4>. QED
        BY <3>0, <4>1, <4>2
    <3>2. k >= stop <=> outs[k] # "TransientProviderError" \/ k = max
      <4>1. k <= stop
        BY <2>1, <2>5
      <4>2. k = stop => outs[k] # "TransientProviderError" \/ k = max
        BY <1>1 DEF StopsAt
      <4>3. outs[k] # "TransientProviderError" => k >= stop
        BY <1>1 DEF StopsAt
      <4>. QED
        BY <1>1, <4>1, <4>2, <4>3
    <3>. QED
      BY <2>1, <3>0, <3>1, <3>2
  <2>6. n >= stop \/ n < stop
    OBVIOUS
  <2> HIDE DEF Made, Over, Told
  <2>. QED
    BY <2>4, <2>5, <2>6
<1>5. size \in T
  <2> HIDE DEF Made, Over, Told
  <2>2. \A n \in T : n + 1 \in T
    BY <1>1, <1>4
  <2> HIDE DEF T
  <2>1. T = Nat
    BY <1>3, <2>2, SetInduction DEF T
  <2>. QED
    BY <1>1, <2>1
<1>. QED
  BY <1>1, <1>5, <1>9 DEF size

\* What a status of the alphabet raises.
LEMMA RaisedIs ==
  ASSUME NEW a \in A!Injected \union A!Deployed, NEW s \in {200, 400, 429, 503}
  PROVE  /\ A!Raised(a, s) \in Outcomes
         /\ A!Raised(a, s) = "TransientProviderError" <=> ~ (s \in {200, 400} \/ a \notin A!Deployed)
         /\ A!Raised(a, s) = "ok" <=> s = 200
BY DEF A!Raised, A!TransientStatus, A!Injected, A!Deployed, Outcomes

\* However many attempts a call is allowed and however they end.
LEMMA RetriesAreRight ==
  ASSUME NEW max \in Nat \ {0}, NEW a \in A!Injected \union A!Deployed,
         NEW statuses \in Seq({200, 400, 429, 503})
  PROVE  A!RetriesWhatMayPass(max, a, statuses)
<1> DEFINE size == Len(statuses)
           outs == [i \in DOMAIN statuses |-> A!Raised(a, statuses[i])]
           final == {i \in DOMAIN statuses : statuses[i] \in {200, 400} \/ a \notin A!Deployed}
           end == A!Retrying(max, outs)
<1>1. /\ size \in Nat /\ DOMAIN statuses = 1 .. size
      /\ \A i \in 1 .. size : statuses[i] \in {200, 400, 429, 503}
  OBVIOUS
<1>2. \A i \in 1 .. size : /\ outs[i] = A!Raised(a, statuses[i]) /\ outs[i] \in Outcomes
                           /\ outs[i] # "TransientProviderError" <=> i \in final
                           /\ outs[i] = "ok" <=> statuses[i] = 200
  BY <1>1, RaisedIs
<1>3. outs \in Seq(Outcomes) /\ Len(outs) = size /\ DOMAIN outs = 1 .. size
  <2> HIDE DEF size
  <2>1. outs = [i \in 1 .. size |-> outs[i]]
    BY <1>1
  <2> HIDE DEF outs
  <2>. QED
    BY <1>1, <1>2, <2>1
<1>4. final \in SUBSET (1 .. size)
  BY <1>1
<1> HIDE DEF final, outs, size
<1>5. PICK stop \in {max} \union final : \A i \in {max} \union final : stop <= i
  <2>1. {max} \union final \in SUBSET Nat /\ {max} \union final # {}
    BY <1>1, <1>4
  <2>. QED
    BY <2>1, Least
<1>6. stop \in Nat \ {0} /\ stop <= max
  BY <1>1, <1>4, <1>5
<1>7. A!Min({max} \union final) = stop
  <2>1. \A x, y \in {max} \union final : x <= y /\ y <= x => x = y
    BY <1>1, <1>4
  <2>. QED
    BY <1>5, <2>1 DEF A!Min
<1>8. /\ end.made = IF size < stop THEN size ELSE stop
      /\ size > 0 => end.last = outs[IF size < stop THEN size ELSE stop]
  <2>1. stop = max \/ (stop \in DOMAIN outs /\ outs[stop] # "TransientProviderError")
    BY <1>2, <1>3, <1>4, <1>5
  <2>2. \A i \in DOMAIN outs : outs[i] # "TransientProviderError" => stop <= i
    BY <1>2, <1>3, <1>5
  <2>3. StopsAt(stop, max, outs)
    BY <1>6, <2>1, <2>2 DEF StopsAt
  <2>. QED
    BY <1>3, <1>6, <2>3, RetryingIs
<1> HIDE DEF end
<1>9. end.made = IF final = {} THEN A!Min({max, size}) ELSE A!Min({max} \union final)
  <2>1. CASE final = {}
    <3>1. stop = max
      BY <1>5, <2>1
    <3>2. A!Min({max, size}) = IF size < max THEN size ELSE max
      BY <1>1 DEF A!Min
    <3>. QED
      BY <1>8, <2>1, <3>1, <3>2
  <2>2. CASE final # {}
    <3>1. stop <= size
      <4>1. PICK i \in final : stop <= i
        BY <1>5, <2>2
      <4>2. i \in 1 .. size
        BY <1>4
      <4>. QED
        BY <1>1, <1>6, <4>1, <4>2
    <3>. QED
      BY <1>1, <1>6, <1>7, <1>8, <2>2, <3>1
  <2>. QED
    BY <2>1, <2>2
<1>10. end.made <= max
  BY <1>1, <1>6, <1>8
<1>11. end.made > 0 => (end.last = "ok" <=> statuses[end.made] = 200)
  <2> SUFFICES ASSUME end.made > 0 PROVE end.last = "ok" <=> statuses[end.made] = 200
    OBVIOUS
  <2>1. end.made \in 1 .. size /\ end.last = outs[end.made]
    BY <1>1, <1>6, <1>8
  <2>. QED
    BY <1>2, <2>1
<1>. QED
  BY <1>9, <1>10, <1>11 DEF A!RetriesWhatMayPass, end, final, outs, size

\* What is among a sequence, of an empty one and of one element.
LEMMA AmongFew ==
  ASSUME NEW S, NEW x
  PROVE  /\ A!Among(<<>>, S) = <<>>
         /\ A!Among(<<x>>, S) = IF x \in S THEN <<x>> ELSE <<>>
<1> DEFINE E == {x}
<1>1. <<>> \in Seq(E) /\ <<x>> \in Seq(E) /\ Len(<<>>) = 0 /\ Len(<<x>>) = 1 /\ <<x>>[1] = x
  OBVIOUS
<1> HIDE DEF E
<1>2. PICK none : IsAmong(none, E, <<>>, S)
  BY <1>1, AmongIsStepwise
<1>3. PICK one : IsAmong(one, E, <<x>>, S)
  BY <1>1, AmongIsStepwise
<1>4. A!Among(<<>>, S) = <<>>
  BY <1>1, <1>2 DEF IsAmong
<1>5. one[0] = <<>> /\ one[1] = A!Among(<<x>>, S)
      /\ one[1] = IF x \in S THEN Append(one[0], x) ELSE one[0]
  <2>1. 1 \in 1 .. 1 /\ 1 - 1 = 0
    OBVIOUS
  <2>. QED
    BY <1>1, <1>3, <2>1 DEF IsAmong
<1>6. Append(<<>>, x) = <<x>>
  OBVIOUS
<1>. QED
  BY <1>4, <1>5, <1>6

\* It is of the sequence and of the set.
LEMMA AmongTyped ==
  ASSUME NEW E, NEW s \in Seq(E), NEW S
  PROVE  A!Among(s, S) \in Seq(E \intersect S)
<1> DEFINE size == Len(s)
<1>1. size \in Nat /\ \A n \in 1 .. size : s[n] \in E
  OBVIOUS
<1>2. PICK kept : IsAmong(kept, E, s, S)
  BY AmongIsStepwise
<1>3. /\ kept[0] = <<>> /\ kept[size] = A!Among(s, S)
      /\ \A n \in 1 .. size :
           kept[n] = IF s[n] \in S THEN Append(kept[n - 1], s[n]) ELSE kept[n - 1]
  BY <1>2 DEF IsAmong
<1> HIDE DEF size
<1> DEFINE T == {n \in Nat : n <= size => kept[n] \in Seq(E \intersect S)}
<1>4. 0 \in T
  BY <1>3, EmptySeq
<1>5. ASSUME NEW n \in T PROVE n + 1 \in T
  <2> SUFFICES ASSUME n + 1 <= size PROVE kept[n + 1] \in Seq(E \intersect S)
    OBVIOUS
  <2>1. PICK k \in 1 .. size : k = n + 1 /\ k - 1 = n
    BY <1>1
  <2>2. kept[k - 1] \in Seq(E \intersect S)
    BY <1>1, <2>1
  <2>3. s[k] \in S => s[k] \in E \intersect S
    BY <1>1
  <2>4. kept[k] = IF s[k] \in S THEN Append(kept[k - 1], s[k]) ELSE kept[k - 1]
    BY <1>3
  <2> DEFINE F == E \intersect S
  <2> HIDE DEF F
  <2>5. kept[k] \in Seq(F)
    <3>1. s[k] \in S => s[k] \in F
      BY <2>3 DEF F
    <3>2. kept[k - 1] \in Seq(F)
      BY <2>2 DEF F
    <3>. QED
      BY <2>4, <3>1, <3>2
  <2>. QED
    BY <2>1, <2>5 DEF F
<1>6. size \in T
  <2> HIDE DEF T
  <2>1. T = Nat
    BY <1>4, <1>5, SetInduction DEF T
  <2>. QED
    BY <1>1, <2>1
<1>. QED
  BY <1>1, <1>3, <1>6

\* What is among two sequences in a row.
LEMMA AmongAppend ==
  ASSUME NEW E, NEW s \in Seq(E), NEW t \in Seq(E), NEW S
  PROVE  A!Among(s \o t, S) = A!Among(s, S) \o A!Among(t, S)
<1> DEFINE m == Len(s)
           l == Len(t)
           st == s \o t
<1>1. /\ m \in Nat /\ l \in Nat /\ st \in Seq(E) /\ Len(st) = m + l
      /\ \A i \in 1 .. m : st[i] = s[i]
      /\ \A i \in 1 .. l : st[m + i] = t[i]
      /\ \A i \in 1 .. m : s[i] \in E
      /\ \A i \in 1 .. l : t[i] \in E
  OBVIOUS
<1> HIDE DEF st
<1>2. PICK ks : IsAmong(ks, E, s, S)
  BY AmongIsStepwise
<1>3. PICK kt : IsAmong(kt, E, t, S)
  BY AmongIsStepwise
<1>4. PICK k : IsAmong(k, E, st, S)
  BY <1>1, AmongIsStepwise
<1>5. /\ ks[0] = <<>> /\ ks[m] = A!Among(s, S) /\ ks \in [0 .. m -> Seq(E)]
      /\ \A n \in 1 .. m : ks[n] = IF s[n] \in S THEN Append(ks[n - 1], s[n]) ELSE ks[n - 1]
  BY <1>2 DEF IsAmong
<1>6. /\ kt[0] = <<>> /\ kt[l] = A!Among(t, S) /\ kt \in [0 .. l -> Seq(E)]
      /\ \A n \in 1 .. l : kt[n] = IF t[n] \in S THEN Append(kt[n - 1], t[n]) ELSE kt[n - 1]
  BY <1>3 DEF IsAmong
<1>7. /\ k[0] = <<>> /\ k[m + l] = A!Among(st, S)
      /\ \A n \in 1 .. m + l : k[n] = IF st[n] \in S THEN Append(k[n - 1], st[n]) ELSE k[n - 1]
  BY <1>1, <1>4 DEF IsAmong
<1> HIDE DEF m, l
<1> DEFINE T == {n \in Nat : n <= m => k[n] = ks[n]}
<1>8. 0 \in T
  BY <1>5, <1>7
<1>9. ASSUME NEW n \in T PROVE n + 1 \in T
  <2> SUFFICES ASSUME n + 1 <= m PROVE k[n + 1] = ks[n + 1]
    OBVIOUS
  <2>1. PICK j \in 1 .. m : j = n + 1 /\ j - 1 = n
    BY <1>1
  <2>2. j \in 1 .. m + l /\ k[j - 1] = ks[j - 1] /\ st[j] = s[j]
    BY <1>1, <2>1
  <2>3. k[j] = IF st[j] \in S THEN Append(k[j - 1], st[j]) ELSE k[j - 1]
    BY <1>7, <2>2
  <2>4. ks[j] = IF s[j] \in S THEN Append(ks[j - 1], s[j]) ELSE ks[j - 1]
    BY <1>5
  <2>. QED
    BY <2>1, <2>2, <2>3, <2>4
<1>10. k[m] = ks[m]
  <2> HIDE DEF T
  <2>1. T = Nat
    BY <1>8, <1>9, SetInduction DEF T
  <2>2. m \in T
    BY <1>1, <2>1
  <2>. QED
    BY <1>1, <2>2 DEF T
<1> DEFINE Both(n) == k[m + n] = ks[m] \o kt[n]
           U == {n \in Nat : n <= l => Both(n)}
<1>11. Both(0)
  <2>1. ks[m] \in Seq(E) /\ m + 0 = m
    BY <1>1, <1>5
  <2>2. ks[m] \o <<>> = ks[m]
    BY <2>1, ConcatEmptySeq
  <2>. QED
    BY <1>6, <1>10, <2>1, <2>2
<1>12. ASSUME NEW n \in Nat, n + 1 <= l, Both(n) PROVE Both(n + 1)
  <2>1. PICK j \in 1 .. l : j = n + 1 /\ j - 1 = n
    BY <1>1, <1>12
  <2>2. m + j \in 1 .. m + l /\ (m + j) - 1 = m + n /\ st[m + j] = t[j] /\ n \in 0 .. l
    BY <1>1, <2>1
  <2>3. k[m + n] = ks[m] \o kt[n]
    BY <1>12
  <2>4. k[m + j] = IF t[j] \in S THEN Append(k[m + n], t[j]) ELSE k[m + n]
    BY <1>7, <2>2
  <2>5. kt[j] = IF t[j] \in S THEN Append(kt[n], t[j]) ELSE kt[n]
    BY <1>6, <2>1
  <2>6. ks[m] \in Seq(E) /\ kt[n] \in Seq(E) /\ t[j] \in E
    BY <1>1, <1>5, <1>6, <2>2
  <2>7. Append(ks[m] \o kt[n], t[j]) = ks[m] \o Append(kt[n], t[j])
    <3> DEFINE u == ks[m]
               v == kt[n]
               x == t[j]
               one == <<x>>
    <3>1. u \in Seq(E) /\ v \in Seq(E) /\ x \in E
      BY <2>6
    <3>2. one \in Seq(E)
      BY <3>1
    <3> HIDE DEF u, v, x
    <3>3. Append(u \o v, x) = (u \o v) \o one
      BY <3>1, ConcatProperties, AppendIsConcat
    <3>4. Append(v, x) = v \o one
      BY <3>1, AppendIsConcat
    <3> HIDE DEF one
    <3>5. (u \o v) \o one = u \o (v \o one)
      BY <3>1, <3>2, ConcatAssociative
    <3>. QED
      BY <3>3, <3>4, <3>5 DEF u, v, x
  <2>. QED
    BY <2>1, <2>3, <2>4, <2>5, <2>7
<1>13. Both(l)
  <2> HIDE DEF Both
  <2>3. 0 \in U /\ \A n \in U : n + 1 \in U
    BY <1>1, <1>11, <1>12
  <2> HIDE DEF U
  <2>1. U = Nat
    BY <2>3, SetInduction DEF U
  <2>2. l \in U
    BY <1>1, <2>1
  <2>. QED
    BY <1>1, <2>2 DEF U
<1>. QED
  BY <1>5, <1>6, <1>7, <1>13 DEF st

\* What is not among a sequence, and all of it.
LEMMA AmongAllOrNone ==
  ASSUME NEW E, NEW s \in Seq(E), NEW S
  PROVE  /\ (\A i \in 1 .. Len(s) : s[i] \in S) => A!Among(s, S) = s
         /\ (\A i \in 1 .. Len(s) : s[i] \notin S) => A!Among(s, S) = <<>>
<1> DEFINE size == Len(s)
<1>1. size \in Nat /\ s \in Seq(E) /\ \A n \in 1 .. size : s[n] \in E
  OBVIOUS
<1>2. PICK kept : IsAmong(kept, E, s, S)
  BY AmongIsStepwise
<1>3. /\ kept[0] = <<>> /\ kept[size] = A!Among(s, S)
      /\ \A n \in 1 .. size :
           kept[n] = IF s[n] \in S THEN Append(kept[n - 1], s[n]) ELSE kept[n - 1]
  BY <1>2 DEF IsAmong
<1>4. ASSUME NEW n \in Nat, n + 1 <= size
      PROVE  /\ n + 1 \in 1 .. size /\ (n + 1) - 1 = n
             /\ SubSeq(s, 1, n + 1) = Append(SubSeq(s, 1, n), s[n + 1])
  <2>1. n + 1 \in 1 .. size /\ 1 \in 1 .. size /\ n + 1 \in 1 .. Len(s)
    BY <1>1, <1>4
  <2>2. SubSeq(s, 1, n + 1) = SubSeq(s, 1, n) \o <<s[n + 1]>>
    BY <2>1, SubSeqRecursiveSecond
  <2>3. SubSeq(s, 1, n) \in Seq(E)
    BY <1>1, <1>4, SubSeqProperties
  <2>4. s[n + 1] \in E
    BY <1>1, <2>1
  <2>. QED
    BY <2>1, <2>2, <2>3, <2>4, AppendIsConcat
<1> HIDE DEF size
<1>5. ASSUME \A i \in 1 .. size : s[i] \in S
      PROVE  A!Among(s, S) = s
  <2> DEFINE KeptRecords(n) == kept[n] = SubSeq(s, 1, n)
             T == {n \in Nat : n <= size => KeptRecords(n)}
  <2>1. KeptRecords(0)
    BY <1>3, SubSeqEmpty
  <2>2. ASSUME NEW n \in Nat, n + 1 <= size, KeptRecords(n) PROVE KeptRecords(n + 1)
    <3>1. kept[n + 1] = Append(kept[n], s[n + 1])
      BY <1>3, <1>4, <1>5, <2>2
    <3>. QED
      BY <1>4, <2>2, <3>1
  <2>3. KeptRecords(size)
    <3> HIDE DEF KeptRecords
    <3>1. 0 \in T /\ \A n \in T : n + 1 \in T
      BY <1>1, <2>1, <2>2
    <3> HIDE DEF T
    <3>2. T = Nat
      BY <3>1, SetInduction DEF T
    <3>. QED
      BY <1>1, <3>2 DEF T
  <2>. QED
    BY <1>3, <2>3, SubSeqFull DEF size
<1>6. ASSUME \A i \in 1 .. size : s[i] \notin S
      PROVE  A!Among(s, S) = <<>>
  <2> DEFINE T == {n \in Nat : n <= size => kept[n] = <<>>}
  <2>1. 0 \in T
    BY <1>3
  <2>2. ASSUME NEW n \in T PROVE n + 1 \in T
    <3> SUFFICES ASSUME n + 1 <= size PROVE kept[n + 1] = <<>>
      OBVIOUS
    <3>1. PICK k \in 1 .. size : k = n + 1 /\ k - 1 = n
      BY <1>1
    <3>2. kept[k] = kept[k - 1] /\ kept[k - 1] = <<>>
      BY <1>1, <1>3, <1>6, <3>1
    <3>. QED
      BY <3>1, <3>2
  <2>3. size \in T
    <3> HIDE DEF T
    <3>1. T = Nat
      BY <2>1, <2>2, SetInduction DEF T
    <3>. QED
      BY <1>1, <3>1
  <2>. QED
    BY <1>1, <1>3, <2>3
<1>. QED
  BY <1>5, <1>6 DEF size

\* Sequences that are in sets in the same places have as many there.
LEMMA AmongAsMany ==
  ASSUME NEW E, NEW s \in Seq(E), NEW S, NEW F, NEW t \in Seq(F), NEW U,
         Len(s) = Len(t), \A i \in 1 .. Len(s) : s[i] \in S <=> t[i] \in U
  PROVE  Len(A!Among(s, S)) = Len(A!Among(t, U))
<1> DEFINE size == Len(s)
<1>1. size \in Nat /\ \A n \in 1 .. size : s[n] \in E /\ t[n] \in F
  OBVIOUS
<1>2. PICK ks : IsAmong(ks, E, s, S)
  BY AmongIsStepwise
<1>3. PICK kt : IsAmong(kt, F, t, U)
  BY AmongIsStepwise
<1>4. /\ ks[0] = <<>> /\ ks[size] = A!Among(s, S) /\ ks \in [0 .. size -> Seq(E)]
      /\ \A n \in 1 .. size : ks[n] = IF s[n] \in S THEN Append(ks[n - 1], s[n]) ELSE ks[n - 1]
  BY <1>2 DEF IsAmong
<1>5. /\ kt[0] = <<>> /\ kt[size] = A!Among(t, U) /\ kt \in [0 .. size -> Seq(F)]
      /\ \A n \in 1 .. size : kt[n] = IF t[n] \in U THEN Append(kt[n - 1], t[n]) ELSE kt[n - 1]
  BY <1>3 DEF IsAmong
<1>6. \A i \in 1 .. size : s[i] \in S <=> t[i] \in U
  OBVIOUS
<1> HIDE DEF size
<1> DEFINE T == {n \in Nat : n <= size => Len(ks[n]) = Len(kt[n])}
<1>7. 0 \in T
  BY <1>4, <1>5
<1>8. ASSUME NEW n \in T PROVE n + 1 \in T
  <2> SUFFICES ASSUME n + 1 <= size PROVE Len(ks[n + 1]) = Len(kt[n + 1])
    OBVIOUS
  <2>1. PICK k \in 1 .. size : k = n + 1 /\ k - 1 = n /\ n \in 0 .. size
    BY <1>1
  <2>2. ks[n] \in Seq(E) /\ kt[n] \in Seq(F) /\ Len(ks[n]) = Len(kt[n])
    BY <1>1, <1>4, <1>5, <2>1
  <2>3. ks[k] = IF s[k] \in S THEN Append(ks[n], s[k]) ELSE ks[n]
    BY <1>4, <2>1
  <2>4. kt[k] = IF t[k] \in U THEN Append(kt[n], t[k]) ELSE kt[n]
    BY <1>5, <2>1
  <2>5. Len(Append(ks[n], s[k])) = Len(Append(kt[n], t[k]))
    BY <2>2
  <2>. QED
    BY <1>6, <2>1, <2>2, <2>3, <2>4, <2>5
<1>9. size \in T
  <2> HIDE DEF T
  <2>1. T = Nat
    BY <1>7, <1>8, SetInduction DEF T
  <2>. QED
    BY <1>1, <2>1
<1>. QED
  BY <1>1, <1>4, <1>5, <1>9

\* What is in the smaller set is among what is in the larger.
LEMMA AmongAmong ==
  ASSUME NEW E, NEW s \in Seq(E), NEW S, NEW U,
         \A i \in 1 .. Len(s) : s[i] \in U => s[i] \in S
  PROVE  A!Among(A!Among(s, S), U) = A!Among(s, U)
<1> DEFINE size == Len(s)
<1>1. size \in Nat /\ \A n \in 1 .. size : s[n] \in E
  OBVIOUS
<1>2. PICK ks : IsAmong(ks, E, s, S)
  BY AmongIsStepwise
<1>3. PICK ku : IsAmong(ku, E, s, U)
  BY AmongIsStepwise
<1>4. /\ ks[0] = <<>> /\ ks[size] = A!Among(s, S) /\ ks \in [0 .. size -> Seq(E)]
      /\ \A n \in 1 .. size : ks[n] = IF s[n] \in S THEN Append(ks[n - 1], s[n]) ELSE ks[n - 1]
  BY <1>2 DEF IsAmong
<1>5. /\ ku[0] = <<>> /\ ku[size] = A!Among(s, U)
      /\ \A n \in 1 .. size : ku[n] = IF s[n] \in U THEN Append(ku[n - 1], s[n]) ELSE ku[n - 1]
  BY <1>3 DEF IsAmong
<1>6. \A i \in 1 .. size : s[i] \in U => s[i] \in S
  OBVIOUS
<1> HIDE DEF size
<1> DEFINE Narrows(n) == A!Among(ks[n], U) = ku[n]
           T == {n \in Nat : n <= size => Narrows(n)}
<1>7. Narrows(0)
  BY <1>4, <1>5, AmongFew
<1>8. ASSUME NEW n \in Nat, n + 1 <= size, Narrows(n) PROVE Narrows(n + 1)
  <2>1. PICK k \in 1 .. size : k = n + 1 /\ k - 1 = n /\ n \in 0 .. size
    BY <1>1, <1>8
  <2> DEFINE q == ks[n]
             x == s[k]
             one == <<x>>
  <2>2. q \in Seq(E) /\ x \in E
    BY <1>1, <1>4, <2>1
  <2>3. ks[k] = IF x \in S THEN Append(q, x) ELSE q
    BY <1>4, <2>1
  <2>4. ku[k] = IF x \in U THEN Append(ku[n], x) ELSE ku[n]
    BY <1>5, <2>1
  <2>5. x \in U => x \in S
    BY <1>6
  <2>6. A!Among(q, U) = ku[n]
    BY <1>8
  <2> HIDE DEF q, x
  <2>7. Append(q, x) = q \o one
    BY <2>2, AppendIsConcat
  <2>8. one \in Seq(E)
    BY <2>2
  <2>9. A!Among(one, U) = IF x \in U THEN one ELSE <<>>
    BY AmongFew
  <2> HIDE DEF one
  <2>10. A!Among(q \o one, U) = A!Among(q, U) \o A!Among(one, U)
    BY <2>2, <2>8, AmongAppend
  <2>11. A!Among(q, U) \in Seq(E)
    <3>1. A!Among(q, U) \in Seq(E \intersect U)
      BY <2>2, AmongTyped
    <3>. QED
      BY <3>1, SeqMonotonic
  <2>12. A!Among(q, U) \o <<>> = A!Among(q, U)
    BY <2>11, ConcatEmptySeq
  <2>13. Append(A!Among(q, U), x) = A!Among(q, U) \o one
    BY <2>2, <2>11, AppendIsConcat DEF one
  <2>14. A!Among(ks[k], U) = ku[k]
    BY <2>3, <2>4, <2>5, <2>6, <2>7, <2>9, <2>10, <2>12, <2>13
  <2>. QED
    BY <2>1, <2>14
<1>9. Narrows(size)
  <2> HIDE DEF Narrows
  <2>1. 0 \in T /\ \A n \in T : n + 1 \in T
    BY <1>1, <1>7, <1>8
  <2> HIDE DEF T
  <2>2. T = Nat
    BY <2>1, SetInduction DEF T
  <2>. QED
    BY <1>1, <2>2 DEF T
<1>. QED
  BY <1>4, <1>5, <1>9

\* What is in the set is among the sequence.
LEMMA AmongHas ==
  ASSUME NEW E, NEW s \in Seq(E), NEW S, NEW i \in 1 .. Len(s), s[i] \in S
  PROVE  \E j \in 1 .. Len(A!Among(s, S)) : A!Among(s, S)[j] = s[i]
<1> DEFINE size == Len(s)
<1>1. size \in Nat /\ \A n \in 1 .. size : s[n] \in E
  OBVIOUS
<1>2. PICK kept : IsAmong(kept, E, s, S)
  BY AmongIsStepwise
<1>3. /\ kept[size] = A!Among(s, S) /\ kept \in [0 .. size -> Seq(E)]
      /\ \A n \in 1 .. size :
           kept[n] = IF s[n] \in S THEN Append(kept[n - 1], s[n]) ELSE kept[n - 1]
  BY <1>2 DEF IsAmong
<1>4. i \in 1 .. size
  OBVIOUS
<1> HIDE DEF size
<1> DEFINE Has(n) == \E j \in 1 .. Len(kept[n]) : kept[n][j] = s[i]
           T == {n \in Nat : n >= i /\ n <= size => Has(n)}
<1>5. ASSUME NEW n \in Nat, n + 1 >= i, n + 1 <= size, n >= i => Has(n)
      PROVE  Has(n + 1)
  <2>1. PICK k \in 1 .. size : k = n + 1 /\ k - 1 = n /\ n \in 0 .. size
    BY <1>1, <1>5
  <2> DEFINE q == kept[n]
             x == s[k]
  <2>2. q \in Seq(E) /\ x \in E
    BY <1>1, <1>3, <2>1
  <2>3. kept[k] = IF x \in S THEN Append(q, x) ELSE q
    BY <1>3, <2>1
  <2>4. n >= i => \E j \in 1 .. Len(q) : q[j] = s[i]
    BY <1>5
  <2>5. n >= i \/ k = i
    BY <1>4, <1>5, <2>1
  <2> HIDE DEF q
  <2>6. /\ Len(q) \in Nat /\ Len(Append(q, x)) = Len(q) + 1
        /\ Append(q, x)[Len(q) + 1] = x
        /\ \A j \in 1 .. Len(q) : Append(q, x)[j] = q[j]
    <3> HIDE DEF x
    <3>. QED
      BY <2>2
  <2>7. \E j \in 1 .. Len(kept[k]) : kept[k][j] = s[i]
    <3>1. CASE k = i
      <4>1. kept[k] = Append(q, x) /\ x = s[i]
        BY <2>3, <3>1
      <4>2. Len(q) + 1 \in 1 .. Len(kept[k])
        BY <2>6, <4>1
      <4>. QED
        BY <2>6, <4>1, <4>2
    <3>2. CASE n >= i
      <4>1. PICK j \in 1 .. Len(q) : q[j] = s[i]
        BY <2>4, <3>2
      <4> HIDE DEF x
      <4>2. j \in 1 .. Len(kept[k]) /\ kept[k][j] = q[j]
        BY <2>3, <2>6
      <4>. QED
        BY <4>1, <4>2
    <3>. QED
      BY <2>5, <3>1, <3>2
  <2>. QED
    BY <2>1, <2>7
<1>6. Has(size)
  <2> HIDE DEF Has
  <2>1. 0 \in T
    BY <1>4
  <2>2. \A n \in T : n + 1 \in T
    BY <1>1, <1>5
  <2> HIDE DEF T
  <2>3. T = Nat
    BY <2>1, <2>2, SetInduction DEF T
  <2>. QED
    BY <1>1, <1>4, <2>3 DEF T
<1>. QED
  BY <1>3, <1>6

\* It does not matter what else is in the set.
LEMMA AmongSame ==
  ASSUME NEW E, NEW s \in Seq(E), NEW S, NEW U,
         \A i \in 1 .. Len(s) : s[i] \in S <=> s[i] \in U
  PROVE  A!Among(s, S) = A!Among(s, U)
<1> DEFINE size == Len(s)
<1>1. size \in Nat
  OBVIOUS
<1>2. PICK ks : IsAmong(ks, E, s, S)
  BY AmongIsStepwise
<1>3. PICK ku : IsAmong(ku, E, s, U)
  BY AmongIsStepwise
<1>4. /\ ks[0] = <<>> /\ ks[size] = A!Among(s, S)
      /\ \A n \in 1 .. size : ks[n] = IF s[n] \in S THEN Append(ks[n - 1], s[n]) ELSE ks[n - 1]
  BY <1>2 DEF IsAmong
<1>5. /\ ku[0] = <<>> /\ ku[size] = A!Among(s, U)
      /\ \A n \in 1 .. size : ku[n] = IF s[n] \in U THEN Append(ku[n - 1], s[n]) ELSE ku[n - 1]
  BY <1>3 DEF IsAmong
<1>6. \A i \in 1 .. size : s[i] \in S <=> s[i] \in U
  OBVIOUS
<1> HIDE DEF size
<1> DEFINE T == {n \in Nat : n <= size => ks[n] = ku[n]}
<1>7. 0 \in T
  BY <1>4, <1>5
<1>8. ASSUME NEW n \in T PROVE n + 1 \in T
  <2> SUFFICES ASSUME n + 1 <= size PROVE ks[n + 1] = ku[n + 1]
    OBVIOUS
  <2>1. PICK k \in 1 .. size : k = n + 1 /\ k - 1 = n
    BY <1>1
  <2>2. ks[k - 1] = ku[k - 1]
    BY <1>1, <2>1
  <2>3. ks[k] = IF s[k] \in S THEN Append(ks[k - 1], s[k]) ELSE ks[k - 1]
    BY <1>4
  <2>4. ku[k] = IF s[k] \in U THEN Append(ku[k - 1], s[k]) ELSE ku[k - 1]
    BY <1>5
  <2>. QED
    BY <1>6, <2>1, <2>2, <2>3, <2>4
<1>9. size \in T
  <2> HIDE DEF T
  <2>1. T = Nat
    BY <1>7, <1>8, SetInduction DEF T
  <2>. QED
    BY <1>1, <2>1
<1>. QED
  BY <1>1, <1>4, <1>5, <1>9

-----------------------------------------------------------------------------
(* The messages of a conversation at the vendor.                           *)

\* The roles of messages.
Roles == {"system", "user", "assistant", "tool"}

\* Conversations, of whatever content.
MessagesOf(Content) == Seq([role : Roles, content : Content])

\* The parts of a conversation are of it, and are made of what they pick.
LEMMA PartsAre ==
  ASSUME NEW Content, NEW ms \in MessagesOf(Content)
  PROVE  /\ A!Spoken(ms) \in MessagesOf(Content)
         /\ \A j \in 1 .. Len(A!Spoken(ms)) : A!Spoken(ms)[j].role # "system"
         /\ \A i \in 1 .. Len(ms) :
              IF ms[i].role = "system"
              THEN \E j \in 1 .. Len(A!Systems(ms)) : A!Systems(ms)[j] = ms[i]
              ELSE \E j \in 1 .. Len(A!Spoken(ms)) : A!Spoken(ms)[j] = ms[i]
         /\ Len(A!Systems(ms)) \in Nat
         /\ Len(A!Systems(ms)) = 0 => A!Spoken(ms) = ms
<1> DEFINE E == [role : Roles, content : Content]
           S == {m \in A!ToSet(ms) : m.role = "system"}
           U == {m \in A!ToSet(ms) : m.role # "system"}
<1>1. ms \in Seq(E)
  BY DEF MessagesOf
<1>2. \A i \in 1 .. Len(ms) : /\ ms[i] \in S <=> ms[i].role = "system"
                              /\ ms[i] \in U <=> ms[i].role # "system"
  <2>1. DOMAIN ms = 1 .. Len(ms)
    BY <1>1
  <2>. QED
    BY <2>1 DEF A!ToSet
<1>3. A!Systems(ms) = A!Among(ms, S) /\ A!Spoken(ms) = A!Among(ms, U)
  BY DEF A!Systems, A!Spoken
<1>4. \A m \in U : m.role # "system"
  OBVIOUS
<1> HIDE DEF E, S, U
<1>5. A!Systems(ms) \in Seq(E \intersect S) /\ A!Spoken(ms) \in Seq(E \intersect U)
  BY <1>1, <1>3, AmongTyped
<1>6. A!Spoken(ms) \in Seq(E)
  BY <1>5, SeqMonotonic
<1>7. \A j \in 1 .. Len(A!Spoken(ms)) : A!Spoken(ms)[j] \in U
  BY <1>5, ElementOfSeq
<1>8. ASSUME NEW i \in 1 .. Len(ms)
      PROVE  IF ms[i].role = "system"
             THEN \E j \in 1 .. Len(A!Systems(ms)) : A!Systems(ms)[j] = ms[i]
             ELSE \E j \in 1 .. Len(A!Spoken(ms)) : A!Spoken(ms)[j] = ms[i]
  BY <1>1, <1>2, <1>3, AmongHas
<1>9. Len(A!Systems(ms)) \in Nat
  BY <1>5, LenProperties
<1>10. ASSUME Len(A!Systems(ms)) = 0 PROVE A!Spoken(ms) = ms
  <2>1. \A i \in 1 .. Len(ms) : ms[i] \in U
    BY <1>2, <1>8, <1>10
  <2>. QED
    BY <1>1, <1>3, <2>1, AmongAllOrNone
<1>. QED
  BY <1>4, <1>6, <1>7, <1>8, <1>9, <1>10 DEF E, MessagesOf

\* What an adapter makes of what is spoken.
IsTurns(turns, talk, Vendors) ==
  /\ turns = [i \in 1 .. Len(talk) |-> turns[i]]
  /\ \A i \in 1 .. Len(talk) :
       /\ turns[i].content = talk[i].content
       /\ turns[i].role \in Vendors
       /\ turns[i].role \in {"assistant", "model"} <=> talk[i].role = "assistant"

\* As many turns are the model's own.
LEMMA OwnAre ==
  ASSUME NEW Content, NEW talk \in MessagesOf(Content), NEW Vendors, NEW turns,
         IsTurns(turns, talk, Vendors)
  PROVE  /\ Len(turns) = Len(talk)
         /\ Len(A!Among(turns, {t \in A!ToSet(turns) : t.role \in {"assistant", "model"}}))
              = Len(A!Among(talk, {m \in A!ToSet(talk) : m.role = "assistant"}))
<1> DEFINE E == [role : Roles, content : Content]
           F == {turns[i] : i \in 1 .. Len(talk)}
           S == {t \in A!ToSet(turns) : t.role \in {"assistant", "model"}}
           U == {m \in A!ToSet(talk) : m.role = "assistant"}
<1>1. talk \in Seq(E) /\ Len(talk) \in Nat /\ DOMAIN talk = 1 .. Len(talk)
  BY DEF MessagesOf
<1>3. \A i \in 1 .. Len(talk) : talk[i] \in U <=> talk[i].role = "assistant"
  BY <1>1 DEF A!ToSet
<1>4. \A i \in 1 .. Len(talk) : turns[i] \in S <=> turns[i].role \in {"assistant", "model"}
  BY <1>1 DEF A!ToSet, IsTurns
<1>5. \A i \in 1 .. Len(talk) : turns[i] \in S <=> talk[i] \in U
  BY <1>3, <1>4 DEF IsTurns
<1> HIDE DEF E, S, U
<1>2. turns \in Seq(F) /\ Len(turns) = Len(talk)
  <2>1. turns = [i \in 1 .. Len(talk) |-> turns[i]]
    BY DEF IsTurns
  <2>2. \A i \in 1 .. Len(talk) : turns[i] \in F
    OBVIOUS
  <2> HIDE DEF F
  <2>3. turns \in [1 .. Len(talk) -> F]
    BY <2>1, <2>2
  <2>. QED
    BY <1>1, <2>3
<1>6. Len(A!Among(turns, S)) = Len(A!Among(talk, U))
  <2> HIDE DEF F
  <2>. QED
    BY <1>1, <1>2, <1>5, AmongAsMany
<1>. QED
  BY <1>2, <1>6 DEF S, U

\* The conversation is delivered if what is spoken is, beside the system's messages.
LEMMA SplitDelivers ==
  ASSUME NEW Content, NEW ms \in MessagesOf(Content), NEW Vendors, NEW a,
         A!Prompt(a, ms).system = A!Instruction(ms),
         IsTurns(A!Prompt(a, ms).turns, A!Spoken(ms), Vendors)
  PROVE  A!Delivered(a, ms)
<1> DEFINE sys == A!Systems(ms)
           talk == A!Spoken(ms)
           p == A!Prompt(a, ms)
           own(ts) == A!Among(ts, {t \in A!ToSet(ts) : t.role \in {"assistant", "model"}})
           answers(ts) == A!Among(ts, {m \in A!ToSet(ts) : m.role = "assistant"})
<1>1. /\ talk \in MessagesOf(Content) /\ Len(sys) \in Nat
      /\ \A j \in 1 .. Len(talk) : talk[j].role # "system"
      /\ \A i \in 1 .. Len(ms) : IF ms[i].role = "system"
                                 THEN \E j \in 1 .. Len(sys) : sys[j] = ms[i]
                                 ELSE \E j \in 1 .. Len(talk) : talk[j] = ms[i]
      /\ Len(sys) = 0 => talk = ms
  BY PartsAre
<1>2. p.system = [i \in 1 .. Len(sys) |-> sys[i].content]
  BY DEF A!Instruction
<1>3. IsTurns(p.turns, talk, Vendors)
  OBVIOUS
<1>4. (IF p.system = <<>> THEN ms ELSE A!Spoken(ms)) = talk
  <2>1. CASE Len(sys) = 0
    BY <1>1, <2>1
  <2>2. CASE Len(sys) # 0
    <3>1. 1 \in DOMAIN p.system
      BY <1>1, <1>2, <2>2
    <3>. QED
      BY <3>1
  <2>. QED
    BY <2>1, <2>2
<1>5. Len(p.turns) = Len(talk) /\ Len(own(p.turns)) = Len(answers(talk))
  BY <1>1, <1>3, OwnAre
<1>6. answers(talk) = answers(ms)
  <2> DEFINE E == [role : Roles, content : Content]
             S == {m \in A!ToSet(ms) : m.role # "system"}
             U == {m \in A!ToSet(ms) : m.role = "assistant"}
             V == {m \in A!ToSet(talk) : m.role = "assistant"}
  <2>1. ms \in Seq(E) /\ DOMAIN ms = 1 .. Len(ms) /\ talk \in Seq(E)
    BY <1>1 DEF MessagesOf
  <2>2. talk = A!Among(ms, S)
    BY DEF A!Spoken
  <2>3. \A i \in 1 .. Len(ms) : ms[i] \in U => ms[i] \in S
    BY <2>1 DEF A!ToSet
  <2>4. talk \in Seq(E \intersect S)
    <3> HIDE DEF E, S
    <3>. QED
      BY <2>1, <2>2, AmongTyped
  <2>5. \A i \in 1 .. Len(talk) : talk[i] \in S
    <3> HIDE DEF E, S
    <3>. QED
      BY <2>4, ElementOfSeq
  <2>6. \A i \in 1 .. Len(talk) : talk[i] \in A!ToSet(ms) /\ talk[i] \in A!ToSet(talk)
    BY <2>1, <2>5 DEF A!ToSet
  <2>7. \A i \in 1 .. Len(talk) : talk[i] \in U <=> talk[i] \in V
    BY <2>6
  <2> HIDE DEF E, S, U, V, talk
  <2>8. A!Among(talk, U) = A!Among(talk, V)
    BY <2>1, <2>7, AmongSame
  <2>9. A!Among(talk, U) = A!Among(ms, U)
    BY <2>1, <2>2, <2>3, AmongAmong
  <2>. QED
    BY <2>8, <2>9 DEF U, V
<1>7. ASSUME NEW i \in 1 .. Len(ms) PROVE A!Mentions(p, ms[i])
  <2>1. CASE ms[i].role = "system"
    <3>1. PICK j \in 1 .. Len(sys) : sys[j] = ms[i]
      BY <1>1, <2>1
    <3> HIDE DEF p, sys
    <3>2. Len(p.system) = Len(sys) /\ p.system[j] = ms[i].content
      BY <1>1, <1>2, <3>1
    <3>. QED
      BY <3>2 DEF A!Mentions
  <2>2. CASE ms[i].role # "system"
    <3>1. PICK j \in 1 .. Len(talk) : talk[j] = ms[i]
      BY <1>1, <2>2
    <3> HIDE DEF p, sys, talk
    <3>2. Len(p.turns) = Len(talk) /\ p.turns[j].content = ms[i].content
      BY <1>3, <1>5, <3>1 DEF IsTurns
    <3>. QED
      BY <3>2 DEF A!Mentions
  <2>. QED
    BY <2>1, <2>2
<1>8. \A i \in 1 .. Len(talk) : p.turns[i].content = talk[i].content
  BY <1>3 DEF IsTurns
<1> HIDE DEF talk
<1>. QED
  BY <1>4, <1>5, <1>6, <1>7, <1>8 DEF A!Delivered

\* ... or if all of it is.
LEMMA WholeDelivers ==
  ASSUME NEW Content, NEW ms \in MessagesOf(Content), NEW Vendors, NEW a,
         A!Prompt(a, ms).system = <<>>,
         IsTurns(A!Prompt(a, ms).turns, ms, Vendors)
  PROVE  A!Delivered(a, ms)
<1> DEFINE p == A!Prompt(a, ms)
<1>1. /\ Len(p.turns) = Len(ms)
      /\ Len(A!Among(p.turns, {t \in A!ToSet(p.turns) : t.role \in {"assistant", "model"}}))
              = Len(A!Among(ms, {m \in A!ToSet(ms) : m.role = "assistant"}))
  BY OwnAre
<1>2. \A i \in 1 .. Len(ms) : p.turns[i].content = ms[i].content
  BY DEF IsTurns
<1>3. (IF p.system = <<>> THEN ms ELSE A!Spoken(ms)) = ms
  OBVIOUS
<1> HIDE DEF p
<1>4. \A i \in 1 .. Len(ms) : A!Mentions(p, ms[i])
  BY <1>1, <1>2 DEF A!Mentions
<1>. QED
  BY <1>1, <1>2, <1>3, <1>4 DEF A!Delivered, p

\* Every adapter delivers a conversation, in roles its vendor knows.
LEMMA MessagesAgree ==
  ASSUME NEW Content, NEW ms \in MessagesOf(Content),
         NEW a \in A!Injected \union A!Deployed
  PROVE  /\ A!Delivered(a, ms)
         /\ a # "anthropic_provider" => A!Understood(a, ms)
<1> DEFINE talk == A!Spoken(ms)
           Vendors == IF a = "anthropic_provider" THEN Roles ELSE A!Vocabulary(A!Vendor(a))
           p == A!Prompt(a, ms)
<1>1. talk \in MessagesOf(Content) /\ \A j \in 1 .. Len(talk) : talk[j].role # "system"
  BY PartsAre
<1>2. /\ \A i \in 1 .. Len(ms) : ms[i].role \in Roles
      /\ \A i \in 1 .. Len(talk) : talk[i].role \in Roles \ {"system"}
      /\ Len(talk) \in Nat /\ Len(ms) \in Nat
  <2> HIDE DEF talk
  <2>1. \A s \in MessagesOf(Content) : Len(s) \in Nat /\ \A i \in 1 .. Len(s) : s[i].role \in Roles
    <3> DEFINE E == [role : Roles, content : Content]
    <3>1. \A m \in E : m.role \in Roles
      OBVIOUS
    <3> HIDE DEF E
    <3>2. \A s \in Seq(E) : Len(s) \in Nat /\ \A i \in 1 .. Len(s) : s[i] \in E
      OBVIOUS
    <3>. QED
      BY <3>1, <3>2 DEF MessagesOf, E
  <2>. QED
    BY <1>1, <2>1
<1> HIDE DEF talk
<1>3. CASE a = "anthropic"
  <2>1. /\ p.system = A!Instruction(ms)
        /\ p.turns = [i \in 1 .. Len(talk) |->
                        [role |-> IF talk[i].role = "assistant" THEN talk[i].role ELSE "user",
                         content |-> talk[i].content]]
    BY <1>3 DEF A!Prompt, A!ToAnthropicMessages, A!Turns, A!Say, talk
  <2>2. Vendors = {"user", "assistant"}
    BY <1>3 DEF A!Vocabulary, A!Vendor
  <2> HIDE DEF p, Vendors
  <2>3. IsTurns(p.turns, talk, Vendors)
    BY <1>2, <2>1, <2>2 DEF IsTurns, Roles
  <2>4. Len(p.turns) = Len(talk)
    BY <1>2, <2>1
  <2>. QED
    BY <1>3, <2>1, <2>3, <2>4, SplitDelivers DEF p, talk, Vendors, A!Understood, IsTurns
<1>4. CASE a = "google"
  <2>1. /\ p.system = A!Instruction(ms)
        /\ p.turns = [i \in 1 .. Len(talk) |->
                        [role |-> IF talk[i].role = "assistant" THEN "model" ELSE "user",
                         content |-> talk[i].content]]
    BY <1>4 DEF A!Prompt, A!ToContents, A!Turns, A!Say, talk
  <2>2. Vendors = {"user", "model"}
    BY <1>4 DEF A!Vocabulary, A!Vendor
  <2> HIDE DEF p, Vendors
  <2>3. IsTurns(p.turns, talk, Vendors)
    BY <1>2, <2>1, <2>2 DEF IsTurns, Roles
  <2>4. Len(p.turns) = Len(talk)
    BY <1>2, <2>1
  <2>. QED
    BY <1>4, <2>1, <2>3, <2>4, SplitDelivers DEF p, talk, Vendors, A!Understood, IsTurns
<1>5. CASE a = "openai"
  <2>1. /\ p.system = <<>>
        /\ p.turns = [i \in 1 .. Len(ms) |->
                        [role |-> IF ms[i].role \in {"system", "assistant"}
                                  THEN ms[i].role ELSE "user",
                         content |-> ms[i].content]]
    BY <1>5 DEF A!Prompt, A!ToOpenAIMessages, A!Turns, A!Say
  <2>2. Vendors = Roles
    BY <1>5 DEF A!Vocabulary, A!Vendor, Roles
  <2> HIDE DEF p, Vendors
  <2>3. IsTurns(p.turns, ms, Vendors)
    BY <1>2, <2>1, <2>2 DEF IsTurns, Roles
  <2>4. Len(p.turns) = Len(ms)
    BY <1>2, <2>1
  <2>. QED
    BY <1>5, <2>1, <2>3, <2>4, WholeDelivers DEF p, Vendors, A!Understood, IsTurns
<1>6. CASE a \in {"anthropic_provider", "openai_provider"}
  <2>1. /\ p.system = <<>>
        /\ p.turns = [i \in 1 .. Len(ms) |->
                        [role |-> ms[i].role, content |-> ms[i].content]]
    BY <1>6 DEF A!Prompt, A!CastMessages, A!Turns, A!Say
  <2>2. Vendors = Roles
    BY <1>6 DEF A!Vocabulary, A!Vendor, Roles
  <2> HIDE DEF p, Vendors
  <2>3. IsTurns(p.turns, ms, Vendors)
    BY <1>2, <2>1, <2>2 DEF IsTurns, Roles
  <2>4. Len(p.turns) = Len(ms)
    BY <1>2, <2>1
  <2>. QED
    BY <1>6, <2>1, <2>3, <2>4, WholeDelivers DEF p, Vendors, A!Understood, IsTurns
<1>7. CASE a = "google_provider"
  <2>1. /\ p.system = <<>>
        /\ p.turns = [i \in 1 .. Len(ms) |->
                        [role |-> IF ms[i].role = "assistant" THEN "model" ELSE "user",
                         content |-> ms[i].content]]
    BY <1>7 DEF A!Prompt, A!MessagesToContents, A!Turns, A!Say
  <2>2. Vendors = {"user", "model"}
    BY <1>7 DEF A!Vocabulary, A!Vendor
  <2> HIDE DEF p, Vendors
  <2>3. IsTurns(p.turns, ms, Vendors)
    BY <1>2, <2>1, <2>2 DEF IsTurns, Roles
  <2>4. Len(p.turns) = Len(ms)
    BY <1>2, <2>1
  <2>. QED
    BY <1>7, <2>1, <2>3, <2>4, WholeDelivers DEF p, Vendors, A!Understood, IsTurns
<1>8. a \in {"anthropic", "openai", "google",
             "anthropic_provider", "openai_provider", "google_provider"}
  BY DEF A!Injected, A!Deployed
<1>. QED
  BY <1>3, <1>4, <1>5, <1>6, <1>7, <1>8

-----------------------------------------------------------------------------
(* What a client hears of a stream.                                        *)

\* The texts of a sequence in a row.
Spell(cs) == A!FoldLeft(LAMBDA text, f : text \o f.content, <<>>, cs)

\* What carries a text.
Carriers(Word, E) == \A e \in E : e.content \in Seq(Word)

\* so holds the text of each prefix.
IsSpelling(so, Word, cs) ==
  /\ so \in [0 .. Len(cs) -> Seq(Word)]
  /\ so[0] = <<>> /\ so[Len(cs)] = Spell(cs)
  /\ \A n \in 1 .. Len(cs) :
       so[n] = so[n - 1] \o cs[n].content

\* The texts are put in a row one after the other.
LEMMA SpellIsStepwise ==
  ASSUME NEW Word, NEW E, Carriers(Word, E), NEW cs \in Seq(E)
  PROVE  \E so : IsSpelling(so, Word, cs)
<1> DEFINE Acc == Seq(Word)
           first == <<>>
           last == Len(cs)
           Pick(k, x) == k \o x.content
           step == [n \in 1 .. last |-> [k \in Acc |-> Pick(k, cs[n])]]
           Is(f) == f = [u \in SUBSET (DOMAIN cs) |->
                           IF u = {} THEN first ELSE Pick(f[u \ {Max(u)}], cs[Max(u)])]
           g == CHOOSE f : Is(f)
<1>1. /\ last \in Nat /\ DOMAIN cs = 1 .. last /\ \A n \in 1 .. last : cs[n] \in E
      /\ first \in Acc
  OBVIOUS
<1>2. Spell(cs) = g[DOMAIN cs]
  BY DEF Spell, A!FoldLeft, A!MapThenFoldSet, A!Max, Max
<1> HIDE DEF last, first
<1>3. ASSUME NEW n \in 1 .. last, NEW k \in Acc PROVE Pick(k, cs[n]) \in Acc
  <2>1. cs[n] \in E
    BY <1>1
  <2>2. cs[n].content \in Seq(Word)
    BY <2>1 DEF Carriers
  <2>. QED
    BY <2>2, ConcatProperties
<1>4. step \in [1 .. last -> [Acc -> Acc]]
  <2> HIDE DEF Acc, Pick
  <2>. QED
    BY <1>3
<1> HIDE DEF Acc, Pick
<1>5. PICK f : IsFoldIn(Acc, f, step, last, first)
  <2> HIDE DEF step
  <2>. QED
    BY <1>1, <1>4, FoldExists
<1>6. Is(f)
  <2>1. f = [u \in SUBSET (1 .. last) |-> IF u = {} THEN first ELSE step[Max(u)][f[u \ {Max(u)}]]]
    BY <1>5 DEF IsFoldIn, IsFold
  <2>2. ASSUME NEW u \in SUBSET (1 .. last), u # {}
        PROVE  step[Max(u)][f[u \ {Max(u)}]] = Pick(f[u \ {Max(u)}], cs[Max(u)])
    <3>1. f[u \ {Max(u)}] \in Acc /\ Max(u) \in 1 .. last
      BY <1>1, <1>5, <2>2, MaxIsIn DEF IsFoldIn
    <3>. QED
      BY <3>1
  <2> HIDE DEF step
  <2>. QED
    BY <1>1, <2>1, <2>2
<1>7. Is(g)
  <2> HIDE DEF Is
  <2>. QED
    BY <1>6, Zenon
<1> HIDE DEF g
<1>8. \A u \in SUBSET (1 .. last) : g[u] = IF u = {} THEN first ELSE Pick(g[u \ {Max(u)}], cs[Max(u)])
  BY <1>1, <1>7
<1>9. \A n \in 1 .. last, k \in Acc : step[n][k] = Pick(k, cs[n])
  OBVIOUS
<1> HIDE DEF Is, step
<1>10. PICK run \in [0 .. last -> Acc] :
         /\ run[0] = first /\ run[last] = g[1 .. last]
         /\ \A n \in 1 .. last : run[n] = step[n][run[n - 1]]
  <2>1. Accumulates(Acc, g, step, last)
    BY <1>1, <1>8, <1>9, MaxIsIn DEF Accumulates
  <2>2. g[{}] = first
    BY <1>8
  <2>3. Runs(Acc, g, step, first, last)
    BY <1>1, <1>4, <2>1, <2>2, FoldRuns
  <2>. QED
    BY <2>3 DEF Runs
<1>11. ASSUME NEW n \in 1 .. last PROVE run[n] = Pick(run[n - 1], cs[n])
  <2>1. n - 1 \in 0 .. last
    BY <1>1
  <2>. QED
    BY <1>9, <1>10, <2>1
<1>12. run[last] = Spell(cs)
  BY <1>1, <1>2, <1>10
<1>. QED
  BY <1>10, <1>11, <1>12 DEF IsSpelling, last, first, Acc, Pick

\* One more text.
LEMMA SpellOneMore ==
  ASSUME NEW Word, NEW E, Carriers(Word, E), NEW cs \in Seq(E), NEW c \in E
  PROVE  /\ Spell(cs) \in Seq(Word)
         /\ Spell(cs \o <<c>>) = Spell(cs) \o c.content
<1> DEFINE size == Len(cs)
           all == cs \o <<c>>
<1>1. /\ size \in Nat /\ all \in Seq(E) /\ Len(all) = size + 1 /\ all[size + 1] = c
      /\ \A i \in 1 .. size : all[i] = cs[i]
  OBVIOUS
<1> HIDE DEF all
<1>2. PICK so : IsSpelling(so, Word, cs)
  BY SpellIsStepwise
<1>3. PICK to : IsSpelling(to, Word, all)
  BY <1>1, SpellIsStepwise
<1>4. /\ so \in [0 .. size -> Seq(Word)] /\ so[0] = <<>> /\ so[size] = Spell(cs)
      /\ \A n \in 1 .. size : so[n] = so[n - 1] \o cs[n].content
  BY <1>2 DEF IsSpelling
<1>5. /\ to[0] = <<>> /\ to[size + 1] = Spell(all)
      /\ \A n \in 1 .. size + 1 : to[n] = to[n - 1] \o all[n].content
  BY <1>1, <1>3 DEF IsSpelling
<1> HIDE DEF size
<1> DEFINE T == {n \in Nat : n <= size => to[n] = so[n]}
<1>6. 0 \in T
  BY <1>4, <1>5
<1>7. ASSUME NEW n \in T PROVE n + 1 \in T
  <2> SUFFICES ASSUME n + 1 <= size PROVE to[n + 1] = so[n + 1]
    OBVIOUS
  <2>1. PICK k \in 1 .. size : k = n + 1 /\ k - 1 = n
    BY <1>1
  <2>2. k \in 1 .. size + 1 /\ to[k - 1] = so[k - 1] /\ all[k] = cs[k]
    BY <1>1, <2>1
  <2>3. so[k] = so[k - 1] \o cs[k].content /\ to[k] = to[k - 1] \o all[k].content
    BY <1>4, <1>5, <2>2
  <2>. QED
    BY <2>1, <2>2, <2>3
<1>8. to[size] = so[size]
  <2> HIDE DEF T
  <2>1. T = Nat
    BY <1>6, <1>7, SetInduction DEF T
  <2>2. size \in T
    BY <1>1, <2>1
  <2>. QED
    BY <1>1, <2>2 DEF T
<1>9. to[size + 1] = to[size] \o c.content
  <2>1. size + 1 \in 1 .. size + 1 /\ (size + 1) - 1 = size
    BY <1>1
  <2>. QED
    BY <1>1, <1>5, <2>1
<1>10. Spell(cs) \in Seq(Word)
  BY <1>1, <1>4
<1>. QED
  BY <1>4, <1>5, <1>8, <1>9, <1>10 DEF all

\* What a stream may end with.
Reasons == {"stop", "max_tokens", "none", "finishreason.stop", "finishreason.max_tokens"}

\* A count of tokens, or none.
Tokens == Nat \union {None}

\* What a vendor counts.
Counts == [input : Tokens, output : Tokens, created : Tokens, read : Tokens]

\* What an adapter yields.
Deltas(Word) == [content : Seq(Word), finish : Reasons \union {None}, usage : Counts \union {None}]

\* The frames made of deltas.
Shown(deltas) == [i \in 1 .. Len(deltas) |-> A!Frame(deltas[i])]

\* The frames of a stream.
FramesOf(Word) == {A!Frame(d) : d \in Deltas(Word)} \union {A!RoleFrame, A!DoneFrame}

\* Those of one type.
Kind(Word, type) == {f \in FramesOf(Word) : f.type = type}

\* A delta that ends nothing becomes its text, and one that does an end.
LEMMA FrameIs ==
  ASSUME NEW Word, NEW d \in Deltas(Word)
  PROVE  /\ A!Frame(d) \in FramesOf(Word)
         /\ A!Frame(d).type = IF d.finish # None \/ d.usage # None THEN "final" ELSE "content"
         /\ A!Frame(d).type = "content" => A!Frame(d).content = d.content
<1>1. A!Frame(d) \in FramesOf(Word)
  BY DEF FramesOf
<1>2. CASE d.finish # None \/ d.usage # None
  <2>1. A!Frame(d).type = "final"
    BY <1>2 DEF A!Frame
  <2>. QED
    BY <1>1, <1>2, <2>1
<1>3. CASE ~ (d.finish # None \/ d.usage # None)
  <2>1. A!Frame(d) = [type |-> "content", content |-> d.content]
    BY <1>3 DEF A!Frame
  <2>. QED
    BY <1>1, <1>3, <2>1
<1>. QED
  BY <1>2, <1>3

\* The kinds of the other frames.
LEMMA EndsAre ==
  ASSUME NEW Word
  PROVE  /\ A!RoleFrame \in FramesOf(Word) /\ A!RoleFrame.type = "role"
         /\ A!DoneFrame \in FramesOf(Word) /\ A!DoneFrame.type = "done"
         /\ \A type : \A f \in FramesOf(Word) : f \in Kind(Word, type) <=> f.type = type
         /\ Carriers(Word, Kind(Word, "content"))
<1>1. /\ A!RoleFrame \in FramesOf(Word) /\ A!RoleFrame.type = "role"
      /\ A!DoneFrame \in FramesOf(Word) /\ A!DoneFrame.type = "done"
  BY DEF FramesOf, A!RoleFrame, A!DoneFrame
<1>2. \A type : \A f \in FramesOf(Word) : f \in Kind(Word, type) <=> f.type = type
  BY DEF Kind
<1>3. ASSUME NEW f \in Kind(Word, "content") PROVE f.content \in Seq(Word)
  <2>1. f \in FramesOf(Word) /\ f.type = "content"
    BY <1>3 DEF Kind
  <2>2. PICK d \in Deltas(Word) : f = A!Frame(d)
    BY <1>1, <2>1 DEF FramesOf
  <2>3. f.content = d.content
    BY <2>1, <2>2, FrameIs
  <2>. QED
    BY <2>3 DEF Deltas
<1>. QED
  BY <1>1, <1>2, <1>3 DEF Carriers

\* What is of one type among frames.
LEMMA TypedIs ==
  ASSUME NEW Word, NEW fs \in Seq(FramesOf(Word)), NEW type
  PROVE  A!Typed(fs, type) = A!Among(fs, Kind(Word, type))
<1> DEFINE S == {f \in A!ToSet(fs) : f.type = type}
           F == FramesOf(Word)
<1>1. DOMAIN fs = 1 .. Len(fs) /\ \A i \in 1 .. Len(fs) : fs[i] \in F
  OBVIOUS
<1>2. \A i \in 1 .. Len(fs) : fs[i] \in S <=> fs[i].type = type
  BY <1>1 DEF A!ToSet
<1>3. \A i \in 1 .. Len(fs) : fs[i] \in S <=> fs[i] \in Kind(Word, type)
  BY <1>1, <1>2 DEF Kind
<1>4. A!Typed(fs, type) = A!Among(fs, S)
  BY DEF A!Typed
<1> HIDE DEF S, F
<1>5. fs \in Seq(F)
  BY DEF F
<1>. QED
  BY <1>3, <1>4, <1>5, AmongSame

\* Two sequences in a row.
InTwo(E, r, s, t) ==
  /\ r \in Seq(E) /\ Len(r) = Len(s) + Len(t) /\ Len(s) \in Nat /\ Len(t) \in Nat
  /\ \A i \in 1 .. Len(s) : r[i] = s[i]
  /\ \A i \in 1 .. Len(t) : r[Len(s) + i] = t[i]
  /\ \A S : A!Among(r, S) = A!Among(s, S) \o A!Among(t, S)

\* That is what putting one behind the other makes.
LEMMA InARow ==
  ASSUME NEW E, NEW s \in Seq(E), NEW t \in Seq(E)
  PROVE  InTwo(E, s \o t, s, t)
<1> DEFINE r == s \o t
<1>1. \A S : A!Among(r, S) = A!Among(s, S) \o A!Among(t, S)
  BY AmongAppend
<1>2. /\ r \in Seq(E) /\ Len(r) = Len(s) + Len(t) /\ Len(s) \in Nat /\ Len(t) \in Nat
      /\ \A i \in 1 .. Len(s) : r[i] = s[i]
      /\ \A i \in 1 .. Len(t) : r[Len(s) + i] = t[i]
  OBVIOUS
<1>. QED
  BY <1>1, <1>2 DEF InTwo

\* The frames of deltas, between the first and the last.
LEMMA FramesAre ==
  ASSUME NEW Word, NEW deltas \in Seq(Deltas(Word)), NEW ended \in BOOLEAN,
         NEW fs, fs = A!Frames(deltas, ended)
  PROVE  /\ Shown(deltas) \in Seq(FramesOf(Word)) /\ fs \in Seq(FramesOf(Word))
         /\ fs[1] = A!RoleFrame /\ A!Typed(fs, "role") = <<A!RoleFrame>>
         /\ A!Typed(fs, "done") = IF ended THEN <<A!DoneFrame>> ELSE <<>>
         /\ ended => A!Last(fs) = A!DoneFrame
         /\ \A type \in {"content", "final"} :
              A!Typed(fs, type) = A!Among(Shown(deltas), Kind(Word, type))
         /\ Len(fs) = 1 + Len(deltas) + (IF ended THEN 1 ELSE 0)
         /\ \A i \in 1 .. Len(deltas) : fs[1 + i] = A!Frame(deltas[i])
<1> DEFINE F == FramesOf(Word)
           size == Len(deltas)
           mid == Shown(deltas)
           one == <<A!RoleFrame>>
           end == IF ended THEN <<A!DoneFrame>> ELSE <<>>
           In(s, type) == A!Among(s, Kind(Word, type))
<1>1. size \in Nat /\ \A i \in 1 .. size : deltas[i] \in Deltas(Word)
  OBVIOUS
<1>2. \A i \in 1 .. size : /\ A!Frame(deltas[i]) \in F
                           /\ A!Frame(deltas[i]).type \in {"content", "final"}
  BY <1>1, FrameIs
<1>3. fs = (one \o mid) \o end
  BY DEF A!Frames, Shown
<1>4. \A i \in 1 .. size : mid[i] = A!Frame(deltas[i])
  BY DEF Shown
<1>5. mid \in Seq(F) /\ Len(mid) = size
  <2>1. mid = [i \in 1 .. size |-> mid[i]]
    BY DEF Shown
  <2> HIDE DEF F, mid, size
  <2>2. mid \in [1 .. size -> F]
    BY <1>2, <1>4, <2>1
  <2>. QED
    BY <1>1, <2>2
<1>6. one \in Seq(F) /\ end \in Seq(F)
  <2>1. A!RoleFrame \in F /\ A!DoneFrame \in F
    BY EndsAre
  <2> HIDE DEF F
  <2>. QED
    BY <2>1
<1>7. Len(one) = 1 /\ one[1] = A!RoleFrame /\ Len(end) = IF ended THEN 1 ELSE 0
  OBVIOUS
<1>8. ended => end[1] = A!DoneFrame
  OBVIOUS
<1>9. /\ In(one, "role") = one /\ In(end, "done") = end /\ In(end, "role") = <<>>
      /\ \A type \in {"content", "final", "done"} : In(one, type) = <<>>
      /\ \A type \in {"content", "final"} : In(end, type) = <<>>
  <2> DEFINE role == A!RoleFrame
             done == A!DoneFrame
  <2>1. /\ role \in FramesOf(Word) /\ role.type = "role"
        /\ done \in FramesOf(Word) /\ done.type = "done"
    BY EndsAre
  <2>2. /\ role \in Kind(Word, "role") /\ done \in Kind(Word, "done") /\ done \notin Kind(Word, "role")
        /\ \A type \in {"content", "final", "done"} : role \notin Kind(Word, type)
        /\ \A type \in {"content", "final"} : done \notin Kind(Word, type)
    BY <2>1 DEF Kind
  <2>3. one = <<role>> /\ end = IF ended THEN <<done>> ELSE <<>>
    OBVIOUS
  <2> HIDE DEF role, done, one, end
  <2>4. \A S : /\ A!Among(one, S) = IF role \in S THEN one ELSE <<>>
               /\ A!Among(end, S) = IF ended /\ done \in S THEN end ELSE <<>>
    BY <2>3, AmongFew
  <2>. QED
    BY <2>2, <2>3, <2>4
<1> HIDE DEF F, size, mid, one, end
<1> DEFINE om == one \o mid
<1>20. fs = om \o end
  BY <1>3
<1>21. /\ om \in Seq(F) /\ Len(om) = 1 + size
       /\ \A i \in 1 .. 1 : om[i] = one[i]
       /\ \A i \in 1 .. size : om[1 + i] = mid[i]
       /\ \A S : A!Among(om, S) = A!Among(one, S) \o A!Among(mid, S)
  <2>1. InTwo(F, om, one, mid)
    BY <1>5, <1>6, InARow
  <2> HIDE DEF om
  <2>. QED
    BY <1>5, <1>7, <2>1 DEF InTwo
<1> HIDE DEF om
<1>22. /\ fs \in Seq(F) /\ Len(fs) = (1 + size) + Len(end)
       /\ \A i \in 1 .. (1 + size) : fs[i] = om[i]
       /\ \A i \in 1 .. Len(end) : fs[(1 + size) + i] = end[i]
       /\ \A S : A!Among(fs, S) = A!Among(om, S) \o A!Among(end, S)
  <2>1. InTwo(F, om \o end, om, end)
    BY <1>6, <1>21, InARow
  <2>. QED
    BY <1>20, <1>21, <2>1 DEF InTwo
<1>10. /\ fs \in Seq(F) /\ Len(fs) = 1 + size + Len(end)
       /\ fs[1] = A!RoleFrame /\ \A i \in 1 .. size : fs[1 + i] = mid[i]
       /\ \A i \in 1 .. Len(end) : fs[1 + size + i] = end[i]
       /\ \A S : A!Among(fs, S) = (A!Among(one, S) \o A!Among(mid, S)) \o A!Among(end, S)
  <2>1. 1 \in 1 .. 1 /\ 1 \in 1 .. (1 + size) /\ \A i \in 1 .. size : 1 + i \in 1 .. (1 + size)
    BY <1>1 DEF size
  <2>2. fs[1] = A!RoleFrame /\ \A i \in 1 .. size : fs[1 + i] = mid[i]
    BY <1>7, <1>21, <1>22, <2>1
  <2>. QED
    BY <1>21, <1>22, <2>2
<1>11. \A i \in 1 .. size : fs[1 + i] = A!Frame(deltas[i])
  BY <1>4, <1>10
<1>12. ended => A!Last(fs) = A!DoneFrame
  <2> SUFFICES ASSUME ended PROVE A!Last(fs) = A!DoneFrame
    OBVIOUS
  <2>1. Len(end) = 1 /\ Len(fs) = 1 + size + 1 /\ end[1] = A!DoneFrame
    BY <1>7, <1>8, <1>10
  <2>2. fs[1 + size + 1] = end[1]
    <3>1. 1 \in 1 .. Len(end)
      BY <2>1
    <3>. QED
      BY <1>10, <3>1
  <2>. QED
    BY <2>1, <2>2 DEF A!Last
<1>13. \A type : In(fs, type) = (In(one, type) \o In(mid, type)) \o In(end, type)
  BY <1>10
<1>14. ASSUME NEW type PROVE In(mid, type) \in Seq(F)
  <2>1. In(mid, type) \in Seq(F \intersect Kind(Word, type))
    BY <1>5, AmongTyped
  <2>. QED
    BY <2>1, SeqMonotonic
<1>15. In(mid, "role") = <<>> /\ In(mid, "done") = <<>>
  <2>1. \A i \in 1 .. Len(mid) : mid[i] \notin Kind(Word, "role") /\ mid[i] \notin Kind(Word, "done")
    BY <1>2, <1>4, <1>5 DEF Kind
  <2>. QED
    BY <1>5, <2>1, AmongAllOrNone
<1>16. \A type : A!Typed(fs, type) = In(fs, type)
  BY <1>10, TypedIs DEF F
<1>17. A!Typed(fs, "role") = one
  <2>1. A!Typed(fs, "role") = (one \o <<>>) \o <<>>
    BY <1>9, <1>13, <1>15, <1>16
  <2>. QED
    BY <1>6, <2>1, ConcatEmptySeq
<1>18. A!Typed(fs, "done") = end
  <2>1. A!Typed(fs, "done") = (<<>> \o <<>>) \o end
    BY <1>9, <1>13, <1>15, <1>16
  <2>2. <<>> \o <<>> = <<>>
    OBVIOUS
  <2>. QED
    BY <1>6, <2>1, <2>2, ConcatEmptySeq
<1>19. ASSUME NEW type \in {"content", "final"} PROVE A!Typed(fs, type) = In(mid, type)
  <2>1. A!Typed(fs, type) = (<<>> \o In(mid, type)) \o <<>>
    BY <1>9, <1>13, <1>16
  <2>. QED
    BY <1>14, <2>1, ConcatEmptySeq
<1>. QED
  BY <1>5, <1>7, <1>10, <1>11, <1>12, <1>17, <1>18, <1>19 DEF F, size, mid, one, end

\* What is heard of deltas.
Heard(Word, deltas) == Spell(A!Among(Shown(deltas), Kind(Word, "content")))

\* It is what the frames tell, whether the stream has ended or not.
LEMMA HeardIsTold ==
  ASSUME NEW Word, NEW deltas \in Seq(Deltas(Word)), NEW ended \in BOOLEAN
  PROVE  A!Told(A!Frames(deltas, ended)) = Heard(Word, deltas)
<1> DEFINE fs == A!Frames(deltas, ended)
<1>1. A!Typed(fs, "content") = A!Among(Shown(deltas), Kind(Word, "content"))
  BY FramesAre
<1>2. A!Told(fs) = Spell(A!Typed(fs, "content"))
  BY DEF A!Told, Spell
<1> HIDE DEF fs
<1>. QED
  BY <1>1, <1>2 DEF Heard, fs

\* One more delta is shown behind the others.
LEMMA ShownOneMore ==
  ASSUME NEW Word, NEW deltas \in Seq(Deltas(Word)), NEW d \in Deltas(Word)
  PROVE  /\ Shown(deltas) \in Seq(FramesOf(Word))
         /\ A!Frame(d) \in FramesOf(Word)
         /\ Shown(deltas \o <<d>>) = Shown(deltas) \o <<A!Frame(d)>>
         /\ deltas \o <<d>> \in Seq(Deltas(Word))
<1> DEFINE F == FramesOf(Word)
           all == deltas \o <<d>>
           size == Len(deltas)
           f == A!Frame(d)
           mid == Shown(deltas)
<1>1. /\ size \in Nat /\ all \in Seq(Deltas(Word)) /\ Len(all) = size + 1 /\ all[size + 1] = d
      /\ \A i \in 1 .. size : all[i] = deltas[i]
  OBVIOUS
<1>2. mid \in Seq(F) /\ f \in F
  <2>1. mid \in Seq(F)
    BY FramesAre
  <2>. QED
    BY <2>1, FrameIs
<1>3. Len(mid) = size /\ \A i \in 1 .. size : mid[i] = A!Frame(deltas[i])
  BY <1>1 DEF Shown
<1> HIDE DEF F, all, f, mid, size
<1>4. Shown(all) \in Seq(F) /\ Len(Shown(all)) = size + 1
      /\ \A i \in 1 .. (size + 1) : Shown(all)[i] = A!Frame(all[i])
  <2>1. Shown(all) \in Seq(F)
    BY <1>1, FramesAre DEF F
  <2>. QED
    BY <1>1, <2>1 DEF Shown
<1> DEFINE sh == Shown(all)
           now == mid \o <<f>>
<1>5. /\ now \in Seq(F) /\ Len(now) = size + 1 /\ now[size + 1] = f
      /\ \A i \in 1 .. size : now[i] = mid[i]
  BY <1>1, <1>2, <1>3
<1> HIDE DEF sh, now
<1>6. ASSUME NEW i \in 1 .. (size + 1) PROVE sh[i] = now[i]
  <2>1. i = size + 1 \/ i \in 1 .. size
    BY <1>1
  <2>. QED
    BY <1>1, <1>3, <1>4, <1>5, <2>1 DEF sh, f
<1>7. sh = now
  BY <1>4, <1>5, <1>6, SeqEqual DEF sh
<1>. QED
  BY <1>1, <1>2, <1>7 DEF sh, now, F, all, f, mid

\* A delta is heard if it is a text.
LEMMA HeardOneMore ==
  ASSUME NEW Word, NEW deltas \in Seq(Deltas(Word)), NEW d \in Deltas(Word)
  PROVE  /\ Heard(Word, deltas) \in Seq(Word)
         /\ Heard(Word, deltas \o <<d>>) =
              IF d.finish = None /\ d.usage = None THEN Heard(Word, deltas) \o d.content
              ELSE Heard(Word, deltas)
<1> DEFINE E == FramesOf(Word) \intersect Kind(Word, "content")
           K == Kind(Word, "content")
           mid == Shown(deltas)
           f == A!Frame(d)
           one == <<f>>
           cs == A!Among(mid, K)
<1>1. mid \in Seq(FramesOf(Word)) /\ f \in FramesOf(Word) /\ one \in Seq(FramesOf(Word))
      /\ Shown(deltas \o <<d>>) = mid \o one
  <2>1. mid \in Seq(FramesOf(Word)) /\ f \in FramesOf(Word) /\ Shown(deltas \o <<d>>) = mid \o one
    BY ShownOneMore, Zenon
  <2> DEFINE F == FramesOf(Word)
  <2>2. one \in Seq(F)
    <3>1. f \in F
      BY <2>1
    <3> HIDE DEF f, F
    <3>. QED
      BY <3>1
  <2> HIDE DEF one, mid, f
  <2>. QED
    BY <2>1, <2>2
<1>2. Carriers(Word, E)
  BY EndsAre DEF Carriers
<1>3. f \in K <=> d.finish = None /\ d.usage = None
  BY <1>1, FrameIs DEF Kind
<1>4. f \in K => f.content = d.content
  BY FrameIs DEF Kind
<1> HIDE DEF E, K, mid, f
<1>5. A!Among(one, K) = IF f \in K THEN one ELSE <<>>
  BY AmongFew
<1> HIDE DEF one
<1>6. cs \in Seq(E)
  BY <1>1, AmongTyped DEF E, K
<1>7. A!Among(mid \o one, K) = cs \o A!Among(one, K)
  BY <1>1, AmongAppend
<1> HIDE DEF cs
<1>8. Spell(cs) \in Seq(Word) /\ Heard(Word, deltas) = Spell(cs)
  <2>1. PICK so : IsSpelling(so, Word, cs)
    BY <1>2, <1>6, SpellIsStepwise
  <2>2. Spell(cs) \in Seq(Word)
    <3>1. Len(cs) \in 0 .. Len(cs)
      BY <1>6, LenProperties
    <3>. QED
      BY <2>1, <3>1 DEF IsSpelling
  <2>. QED
    BY <2>2 DEF Heard, cs, mid, K
<1>9. Heard(Word, deltas \o <<d>>) = Spell(cs \o A!Among(one, K))
  BY <1>1, <1>7 DEF Heard, K
<1>10. CASE f \in K
  <2>1. f \in E
    BY <1>1, <1>10 DEF E, K
  <2>2. Spell(cs \o one) = Spell(cs) \o f.content
    BY <1>2, <1>6, <2>1, SpellOneMore DEF one
  <2>. QED
    BY <1>3, <1>4, <1>5, <1>8, <1>9, <1>10, <2>2
<1>11. CASE f \notin K
  <2>1. cs \o <<>> = cs
    BY <1>6, ConcatEmptySeq
  <2>. QED
    BY <1>3, <1>5, <1>8, <1>9, <1>11, <2>1
<1>. QED
  BY <1>10, <1>11

\* Of no delta nothing is heard.
LEMMA HeardOfNone ==
  ASSUME NEW Word
  PROVE  Heard(Word, <<>>) = <<>>
<1>1. Shown(<<>>) = <<>>
  BY DEF Shown
<1>2. A!Among(<<>>, Kind(Word, "content")) = <<>>
  BY AmongFew
<1>3. Carriers(Word, {}) /\ <<>> \in Seq({})
  BY DEF Carriers
<1>4. PICK so : IsSpelling(so, Word, <<>>)
  BY <1>3, SpellIsStepwise
<1>5. Spell(<<>>) = <<>>
  <2>1. Len(<<>>) = 0
    OBVIOUS
  <2>. QED
    BY <1>4, <2>1 DEF IsSpelling
<1>. QED
  BY <1>1, <1>2, <1>5 DEF Heard

\* The chunk's text is heard.
LEMMA HeardSaid ==
  ASSUME NEW Word, NEW deltas \in Seq(Deltas(Word)), NEW c, c.text \in Seq(Word)
  PROVE  /\ A!Said(c) \in Seq(Deltas(Word))
         /\ deltas \o A!Said(c) \in Seq(Deltas(Word))
         /\ Heard(Word, deltas \o A!Said(c)) = Heard(Word, deltas) \o c.text
<1>1. CASE c.text = <<>>
  <2>1. A!Said(c) = <<>>
    BY <1>1 DEF A!Said
  <2>2. deltas \o <<>> = deltas /\ <<>> \in Seq(Deltas(Word))
    BY ConcatEmptySeq, EmptySeq
  <2>3. Heard(Word, deltas) \in Seq(Word)
    <3>1. PICK d : d = A!Content(<<>>)
      OBVIOUS
    <3>2. d \in Deltas(Word)
      BY <3>1 DEF A!Content, Deltas
    <3>. QED
      BY <3>2, HeardOneMore
  <2>4. Heard(Word, deltas) \o <<>> = Heard(Word, deltas)
    BY <2>3, ConcatEmptySeq
  <2>. QED
    BY <1>1, <2>1, <2>2, <2>4
<1>2. CASE c.text # <<>>
  <2>1. A!Said(c) = <<A!Content(c.text)>>
    BY <1>2 DEF A!Said
  <2> DEFINE d == A!Content(c.text)
  <2>2. d \in Deltas(Word) /\ d.finish = None /\ d.usage = None /\ d.content = c.text
    BY DEF A!Content, Deltas
  <2> HIDE DEF d
  <2>3. <<d>> \in Seq(Deltas(Word)) /\ deltas \o <<d>> \in Seq(Deltas(Word))
    BY <2>2, ShownOneMore
  <2>4. Heard(Word, deltas \o <<d>>) = Heard(Word, deltas) \o c.text
    BY <2>2, HeardOneMore
  <2>. QED
    BY <2>1, <2>3, <2>4 DEF d
<1>. QED
  BY <1>1, <1>2

\* An end is not heard.
LEMMA HeardTerminal ==
  ASSUME NEW Word, NEW deltas \in Seq(Deltas(Word)),
         NEW finish \in Reasons \union {None}, NEW usage \in Counts \union {None},
         finish # None \/ usage # None
  PROVE  /\ A!Terminal(finish, usage) \in Deltas(Word)
         /\ deltas \o <<A!Terminal(finish, usage)>> \in Seq(Deltas(Word))
         /\ Heard(Word, deltas \o <<A!Terminal(finish, usage)>>) = Heard(Word, deltas)
<1> DEFINE d == A!Terminal(finish, usage)
<1>1. d \in Deltas(Word) /\ d.finish = finish /\ d.usage = usage
  BY DEF A!Terminal, Deltas
<1> HIDE DEF d
<1>2. deltas \o <<d>> \in Seq(Deltas(Word))
  BY <1>1, ShownOneMore
<1>3. Heard(Word, deltas \o <<d>>) = Heard(Word, deltas)
  BY <1>1, HeardOneMore
<1>. QED
  BY <1>1, <1>2, <1>3 DEF d

-----------------------------------------------------------------------------
(* The streams of the adapters.                                            *)

\* The events of a vendor's stream.
Chunks(Word) == [text : Seq(Word), finish : {"stop", "max_tokens", None}, usage : Counts \union {None}]

\* What an adapter may have kept of them.
KeptRecords(Word) == [deltas : Seq(Deltas(Word)), finish : Reasons, usage : Counts]

\* What the counts become are counts.
LEMMA MapUsageTyped ==
  ASSUME NEW a, NEW u \in Counts \union {None}
  PROVE  A!MapUsage(a, u) \in Counts
<1>1. CASE u = None
  BY <1>1 DEF A!MapUsage, A!NoUsage, A!Usage, Counts, Tokens
<1>2. CASE u \in Counts /\ u # None
  <2>1. u.input \in Tokens /\ u.output \in Tokens /\ u.created \in Tokens /\ u.read \in Tokens
    BY <1>2 DEF Counts
  <2>2. 0 \in Tokens /\ A!OrElse(u.created, 0) \in Tokens /\ A!OrElse(u.read, 0) \in Tokens
    BY <2>1 DEF A!OrElse, Tokens
  <2>3. \A i, o, c, r \in Tokens : A!Usage(i, o, c, r) \in Counts
    BY DEF A!Usage, Counts
  <2>4. \/ A!MapUsage(a, u) = A!Usage(u.input, u.output, A!OrElse(u.created, 0), A!OrElse(u.read, 0))
        \/ A!MapUsage(a, u) = A!Usage(u.input, u.output, 0, A!OrElse(u.read, 0))
        \/ A!MapUsage(a, u) = A!Usage(u.input, u.output, 0, 0)
    BY <1>2 DEF A!MapUsage
  <2>. QED
    BY <2>1, <2>2, <2>3, <2>4
<1>. QED
  BY <1>1, <1>2

\* What is kept of a stream.
LEMMA KeepTyped ==
  ASSUME NEW Word, NEW a, NEW k \in KeptRecords(Word), NEW c \in Chunks(Word)
  PROVE  /\ A!Kept \in KeptRecords(Word)
         /\ A!Keep(a, k, c) \in KeptRecords(Word)
         /\ A!KeepAnthropic(k, c) \in KeptRecords(Word)
         /\ A!Keep(a, k, c).deltas = k.deltas \o A!Said(c)
         /\ A!KeepAnthropic(k, c).deltas = k.deltas \o A!Said(c)
<1> DEFINE said == k.deltas \o A!Said(c)
           finish == A!OrElse(c.finish, k.finish)
           usage == IF c.usage = None THEN k.usage ELSE A!MapUsage(a, c.usage)
           other == IF c.usage = None THEN k.usage
                    ELSE IF c.usage.output = None
                         THEN A!Usage(c.usage.input, k.usage.output,
                                      A!OrElse(c.usage.created, 0), A!OrElse(c.usage.read, 0))
                         ELSE [k.usage EXCEPT !.output = c.usage.output]
<1>1. /\ k.deltas \in Seq(Deltas(Word)) /\ k.finish \in Reasons /\ k.usage \in Counts
      /\ c.text \in Seq(Word) /\ c.finish \in {"stop", "max_tokens", None}
      /\ c.usage \in Counts \union {None}
  BY DEF KeptRecords, Chunks
<1>2. said \in Seq(Deltas(Word))
  BY <1>1, HeardSaid
<1>3. finish \in Reasons
  BY <1>1 DEF A!OrElse, Reasons
<1>4. usage \in Counts
  BY <1>1, MapUsageTyped
<1>5. other \in Counts
  <2>1. CASE c.usage \in Counts
    <3>1. /\ c.usage.input \in Tokens /\ c.usage.output \in Tokens
          /\ c.usage.created \in Tokens /\ c.usage.read \in Tokens
          /\ k.usage.output \in Tokens
      BY <1>1, <2>1 DEF Counts
    <3>2. A!OrElse(c.usage.created, 0) \in Tokens /\ A!OrElse(c.usage.read, 0) \in Tokens
      BY <3>1 DEF A!OrElse, Tokens
    <3>3. A!Usage(c.usage.input, k.usage.output,
                  A!OrElse(c.usage.created, 0), A!OrElse(c.usage.read, 0)) \in Counts
      BY <3>1, <3>2 DEF A!Usage, Counts
    <3>4. [k.usage EXCEPT !.output = c.usage.output] \in Counts
      BY <1>1, <3>1 DEF Counts
    <3>. QED
      BY <1>1, <3>3, <3>4
  <2>2. CASE c.usage = None
    BY <1>1, <2>2
  <2>. QED
    BY <1>1, <2>1, <2>2
<1>6. A!Keep(a, k, c) = [deltas |-> said, finish |-> finish, usage |-> usage]
  BY DEF A!Keep
<1>7. A!KeepAnthropic(k, c) = [deltas |-> said, finish |-> finish, usage |-> other]
  <2> DEFINE d == [c EXCEPT !.usage = None]
  <2>1. d.text = c.text /\ d.finish = c.finish /\ d.usage = None
    BY DEF Chunks
  <2>2. A!Said(d) = A!Said(c)
    BY <2>1 DEF A!Said
  <2> HIDE DEF d
  <2>3. A!Keep("anthropic", k, d) = [deltas |-> said, finish |-> finish, usage |-> k.usage]
    BY <2>1, <2>2 DEF A!Keep
  <2>4. A!KeepAnthropic(k, c) = [A!Keep("anthropic", k, d) EXCEPT !.usage = other]
    BY <2>3 DEF A!KeepAnthropic, d
  <2> HIDE DEF said, finish, other
  <2>5. [A!Keep("anthropic", k, d) EXCEPT !.usage = other]
          = [deltas |-> said, finish |-> finish, usage |-> other]
    BY <2>3
  <2>. QED
    BY <2>4, <2>5
<1>8. A!Kept \in KeptRecords(Word)
  BY DEF A!Kept, A!NoUsage, A!Usage, KeptRecords, Counts, Tokens, Reasons
<1> HIDE DEF said, finish, usage, other
<1>9. A!Keep(a, k, c) \in KeptRecords(Word) /\ A!KeepAnthropic(k, c) \in KeptRecords(Word)
  BY <1>2, <1>3, <1>4, <1>5, <1>6, <1>7 DEF KeptRecords
<1>. QED
  BY <1>6, <1>7, <1>8, <1>9 DEF said

\* The folds of the adapters that keep what they read.
Keeping(a, cs) == A!FoldLeft(LAMBDA k, c : A!Keep(a, k, c), A!Kept, cs)

\* ... and what the adapters of Anthropic keep.
KeepingAnthropic(cs) == A!FoldLeft(A!KeepAnthropic, A!Kept, cs)

\* k holds what is kept of each prefix.
IsKeeping(kept, Word, a, cs) ==
  /\ kept \in [0 .. Len(cs) -> KeptRecords(Word)]
  /\ kept[0] = A!Kept /\ kept[Len(cs)] = Keeping(a, cs)
  /\ \A n \in 1 .. Len(cs) :
       kept[n] = A!Keep(a, kept[n - 1], cs[n])

\* A stream is kept chunk by chunk.
LEMMA KeepingIsStepwise ==
  ASSUME NEW Word, NEW a, NEW cs \in Seq(Chunks(Word))
  PROVE  \E kept : IsKeeping(kept, Word, a, cs)
<1> DEFINE Acc == KeptRecords(Word)
           first == A!Kept
           last == Len(cs)
           Pick(k, x) == A!Keep(a, k, x)
           step == [n \in 1 .. last |-> [k \in Acc |-> Pick(k, cs[n])]]
           Is(f) == f = [u \in SUBSET (DOMAIN cs) |->
                           IF u = {} THEN first ELSE Pick(f[u \ {Max(u)}], cs[Max(u)])]
           g == CHOOSE f : Is(f)
<1>1. /\ last \in Nat /\ DOMAIN cs = 1 .. last /\ \A n \in 1 .. last : cs[n] \in Chunks(Word)
      /\ first \in Acc
  <2>1. A!Kept \in KeptRecords(Word)
    BY DEF A!Kept, A!NoUsage, A!Usage, KeptRecords, Counts, Tokens, Reasons
  <2>. QED
    BY <2>1
<1>2. Keeping(a, cs) = g[DOMAIN cs]
  BY DEF Keeping, A!FoldLeft, A!MapThenFoldSet, A!Max, Max
<1> HIDE DEF last, first
<1>3. ASSUME NEW n \in 1 .. last, NEW k \in Acc PROVE Pick(k, cs[n]) \in Acc
  BY <1>1, KeepTyped
<1>4. step \in [1 .. last -> [Acc -> Acc]]
  <2> HIDE DEF Acc, Pick
  <2>. QED
    BY <1>3
<1> HIDE DEF Acc, Pick
<1>5. PICK f : IsFoldIn(Acc, f, step, last, first)
  <2> HIDE DEF step
  <2>. QED
    BY <1>1, <1>4, FoldExists
<1>6. Is(f)
  <2>1. f = [u \in SUBSET (1 .. last) |-> IF u = {} THEN first ELSE step[Max(u)][f[u \ {Max(u)}]]]
    BY <1>5 DEF IsFoldIn, IsFold
  <2>2. ASSUME NEW u \in SUBSET (1 .. last), u # {}
        PROVE  step[Max(u)][f[u \ {Max(u)}]] = Pick(f[u \ {Max(u)}], cs[Max(u)])
    <3>1. f[u \ {Max(u)}] \in Acc /\ Max(u) \in 1 .. last
      BY <1>1, <1>5, <2>2, MaxIsIn DEF IsFoldIn
    <3>. QED
      BY <3>1
  <2> HIDE DEF step
  <2>. QED
    BY <1>1, <2>1, <2>2
<1>7. Is(g)
  <2> HIDE DEF Is
  <2>. QED
    BY <1>6, Zenon
<1> HIDE DEF g
<1>8. \A u \in SUBSET (1 .. last) : g[u] = IF u = {} THEN first ELSE Pick(g[u \ {Max(u)}], cs[Max(u)])
  BY <1>1, <1>7
<1>9. \A n \in 1 .. last, k \in Acc : step[n][k] = Pick(k, cs[n])
  OBVIOUS
<1> HIDE DEF Is, step
<1>10. PICK run \in [0 .. last -> Acc] :
         /\ run[0] = first /\ run[last] = g[1 .. last]
         /\ \A n \in 1 .. last : run[n] = step[n][run[n - 1]]
  <2>1. Accumulates(Acc, g, step, last)
    BY <1>1, <1>8, <1>9, MaxIsIn DEF Accumulates
  <2>2. g[{}] = first
    BY <1>8
  <2>3. Runs(Acc, g, step, first, last)
    BY <1>1, <1>4, <2>1, <2>2, FoldRuns
  <2>. QED
    BY <2>3 DEF Runs
<1>11. ASSUME NEW n \in 1 .. last PROVE run[n] = Pick(run[n - 1], cs[n])
  <2>1. n - 1 \in 0 .. last
    BY <1>1
  <2>. QED
    BY <1>9, <1>10, <2>1
<1>12. run[last] = Keeping(a, cs)
  BY <1>1, <1>2, <1>10
<1>. QED
  BY <1>10, <1>11, <1>12 DEF IsKeeping, last, first, Acc, Pick

\* ... by Anthropic's adapters.
IsKeepingAnthropic(kept, Word, cs) ==
  /\ kept \in [0 .. Len(cs) -> KeptRecords(Word)]
  /\ kept[0] = A!Kept /\ kept[Len(cs)] = KeepingAnthropic(cs)
  /\ \A n \in 1 .. Len(cs) :
       kept[n] = A!KeepAnthropic(kept[n - 1], cs[n])

\* ... by the adapters of Anthropic as well.
LEMMA KeepingAnthropicIsStepwise ==
  ASSUME NEW Word, NEW cs \in Seq(Chunks(Word))
  PROVE  \E kept : IsKeepingAnthropic(kept, Word, cs)
<1> DEFINE Acc == KeptRecords(Word)
           first == A!Kept
           last == Len(cs)
           Pick(k, x) == A!KeepAnthropic(k, x)
           step == [n \in 1 .. last |-> [k \in Acc |-> Pick(k, cs[n])]]
           Is(f) == f = [u \in SUBSET (DOMAIN cs) |->
                           IF u = {} THEN first ELSE Pick(f[u \ {Max(u)}], cs[Max(u)])]
           g == CHOOSE f : Is(f)
<1>1. /\ last \in Nat /\ DOMAIN cs = 1 .. last /\ \A n \in 1 .. last : cs[n] \in Chunks(Word)
      /\ first \in Acc
  <2>1. A!Kept \in KeptRecords(Word)
    BY DEF A!Kept, A!NoUsage, A!Usage, KeptRecords, Counts, Tokens, Reasons
  <2>. QED
    BY <2>1
<1>2. KeepingAnthropic(cs) = g[DOMAIN cs]
  BY DEF KeepingAnthropic, A!FoldLeft, A!MapThenFoldSet, A!Max, Max
<1> HIDE DEF last, first
<1>3. ASSUME NEW n \in 1 .. last, NEW k \in Acc PROVE Pick(k, cs[n]) \in Acc
  BY <1>1, KeepTyped
<1>4. step \in [1 .. last -> [Acc -> Acc]]
  <2> HIDE DEF Acc, Pick
  <2>. QED
    BY <1>3
<1> HIDE DEF Acc, Pick
<1>5. PICK f : IsFoldIn(Acc, f, step, last, first)
  <2> HIDE DEF step
  <2>. QED
    BY <1>1, <1>4, FoldExists
<1>6. Is(f)
  <2>1. f = [u \in SUBSET (1 .. last) |-> IF u = {} THEN first ELSE step[Max(u)][f[u \ {Max(u)}]]]
    BY <1>5 DEF IsFoldIn, IsFold
  <2>2. ASSUME NEW u \in SUBSET (1 .. last), u # {}
        PROVE  step[Max(u)][f[u \ {Max(u)}]] = Pick(f[u \ {Max(u)}], cs[Max(u)])
    <3>1. f[u \ {Max(u)}] \in Acc /\ Max(u) \in 1 .. last
      BY <1>1, <1>5, <2>2, MaxIsIn DEF IsFoldIn
    <3>. QED
      BY <3>1
  <2> HIDE DEF step
  <2>. QED
    BY <1>1, <2>1, <2>2
<1>7. Is(g)
  <2> HIDE DEF Is
  <2>. QED
    BY <1>6, Zenon
<1> HIDE DEF g
<1>8. \A u \in SUBSET (1 .. last) : g[u] = IF u = {} THEN first ELSE Pick(g[u \ {Max(u)}], cs[Max(u)])
  BY <1>1, <1>7
<1>9. \A n \in 1 .. last, k \in Acc : step[n][k] = Pick(k, cs[n])
  OBVIOUS
<1> HIDE DEF Is, step
<1>10. PICK run \in [0 .. last -> Acc] :
         /\ run[0] = first /\ run[last] = g[1 .. last]
         /\ \A n \in 1 .. last : run[n] = step[n][run[n - 1]]
  <2>1. Accumulates(Acc, g, step, last)
    BY <1>1, <1>8, <1>9, MaxIsIn DEF Accumulates
  <2>2. g[{}] = first
    BY <1>8
  <2>3. Runs(Acc, g, step, first, last)
    BY <1>1, <1>4, <2>1, <2>2, FoldRuns
  <2>. QED
    BY <2>3 DEF Runs
<1>11. ASSUME NEW n \in 1 .. last PROVE run[n] = Pick(run[n - 1], cs[n])
  <2>1. n - 1 \in 0 .. last
    BY <1>1
  <2>. QED
    BY <1>9, <1>10, <2>1
<1>12. run[last] = KeepingAnthropic(cs)
  BY <1>1, <1>2, <1>10
<1>. QED
  BY <1>10, <1>11, <1>12 DEF IsKeepingAnthropic, last, first, Acc, Pick

\* What the deployed adapters of OpenAI and Gemini yield at a chunk.
OpenAIYields(out, c) ==
  out \o A!Said(c) \o
    (IF c.finish = None THEN <<>>
     ELSE <<A!Terminal(c.finish, A!MapUsage("openai_provider", c.usage))>>)

\* ... and that of Gemini.
GoogleYields(out, c) ==
  out \o A!Said(c) \o
    (IF c.usage = None \/ c.usage.output = 0 THEN <<>>
     ELSE <<A!Terminal(A!Stringified(c.finish), A!MapUsage("google_provider", c.usage))>>)

\* A step of a stream: the chunk's text and perhaps an end.
Yields(out, now, c) ==
  \/ now = out \o A!Said(c)
  \/ \E finish \in Reasons \union {None}, usage \in Counts \union {None} :
       /\ finish # None \/ usage # None
       /\ now = (out \o A!Said(c)) \o <<A!Terminal(finish, usage)>>

\* They yield that.
LEMMA YieldsAre ==
  ASSUME NEW Word, NEW out \in Seq(Deltas(Word)), NEW c \in Chunks(Word)
  PROVE  /\ Yields(out, OpenAIYields(out, c), c) /\ Yields(out, GoogleYields(out, c), c)
         /\ OpenAIYields(out, c) \in Seq(Deltas(Word)) /\ GoogleYields(out, c) \in Seq(Deltas(Word))
<1> DEFINE said == out \o A!Said(c)
<1>1. /\ c.text \in Seq(Word) /\ c.finish \in {"stop", "max_tokens", None}
      /\ c.usage \in Counts \union {None}
  BY DEF Chunks
<1>2. said \in Seq(Deltas(Word))
  BY <1>1, HeardSaid
<1>3. /\ OpenAIYields(out, c) =
           said \o (IF c.finish = None THEN <<>>
                    ELSE <<A!Terminal(c.finish, A!MapUsage("openai_provider", c.usage))>>)
      /\ GoogleYields(out, c) =
           said \o (IF c.usage = None \/ c.usage.output = 0 THEN <<>>
                    ELSE <<A!Terminal(A!Stringified(c.finish),
                                      A!MapUsage("google_provider", c.usage))>>)
  BY DEF OpenAIYields, GoogleYields
<1>4. said \o <<>> = said
  BY <1>2, ConcatEmptySeq
<1> HIDE DEF said
<1>5. \A a : A!MapUsage(a, c.usage) \in Counts
  BY <1>1, MapUsageTyped
<1>6. A!Stringified(c.finish) \in Reasons /\ A!Stringified(c.finish) # None
  BY <1>1, ReplyAssumption DEF A!Stringified, Reasons
<1>7. c.finish # None => c.finish \in Reasons
  BY <1>1 DEF Reasons
<1>8. \A finish \in Reasons, usage \in Counts :
        finish # None => said \o <<A!Terminal(finish, usage)>> \in Seq(Deltas(Word))
  BY <1>2, HeardTerminal
<1>9. Yields(out, OpenAIYields(out, c), c) /\ OpenAIYields(out, c) \in Seq(Deltas(Word))
  <2>1. CASE c.finish = None
    <3>1. OpenAIYields(out, c) = said
      BY <1>3, <1>4, <2>1
    <3>. QED
      BY <1>2, <3>1 DEF Yields, said
  <2>2. CASE c.finish # None
    <3> DEFINE u == A!MapUsage("openai_provider", c.usage)
    <3>1. OpenAIYields(out, c) = said \o <<A!Terminal(c.finish, u)>>
      BY <1>3, <2>2
    <3>2. u \in Counts
      BY <1>5
    <3> HIDE DEF u
    <3>. QED
      BY <1>7, <1>8, <2>2, <3>1, <3>2 DEF Yields, said
  <2>. QED
    BY <2>1, <2>2
<1>10. Yields(out, GoogleYields(out, c), c) /\ GoogleYields(out, c) \in Seq(Deltas(Word))
  <2>1. CASE c.usage = None \/ c.usage.output = 0
    <3>1. GoogleYields(out, c) = said
      BY <1>3, <1>4, <2>1
    <3>. QED
      BY <1>2, <3>1 DEF Yields, said
  <2>2. CASE ~ (c.usage = None \/ c.usage.output = 0)
    <3> DEFINE u == A!MapUsage("google_provider", c.usage)
               f == A!Stringified(c.finish)
    <3>1. GoogleYields(out, c) = said \o <<A!Terminal(f, u)>>
      BY <1>3, <2>2
    <3>2. u \in Counts /\ f \in Reasons /\ f # None
      BY <1>5, <1>6
    <3> HIDE DEF u, f
    <3>. QED
      BY <1>8, <3>1, <3>2 DEF Yields, said
  <2>. QED
    BY <2>1, <2>2
<1>. QED
  BY <1>9, <1>10

\* so holds the deltas of each prefix.
IsOpenAIStream(so, Word, cs) ==
  /\ so \in [0 .. Len(cs) -> Seq(Deltas(Word))]
  /\ so[0] = <<>> /\ so[Len(cs)] = A!OpenAIProviderStream(cs)
  /\ \A n \in 1 .. Len(cs) :
       so[n] = OpenAIYields(so[n - 1], cs[n])

\* The deployed adapter of OpenAI yields at every chunk.
LEMMA OpenAIStreamIsStepwise ==
  ASSUME NEW Word, NEW cs \in Seq(Chunks(Word))
  PROVE  \E so : IsOpenAIStream(so, Word, cs)
<1> DEFINE Acc == Seq(Deltas(Word))
           first == <<>>
           last == Len(cs)
           Pick(k, x) == OpenAIYields(k, x)
           step == [n \in 1 .. last |-> [k \in Acc |-> Pick(k, cs[n])]]
           Is(f) == f = [u \in SUBSET (DOMAIN cs) |->
                           IF u = {} THEN first ELSE Pick(f[u \ {Max(u)}], cs[Max(u)])]
           g == CHOOSE f : Is(f)
<1>1. /\ last \in Nat /\ DOMAIN cs = 1 .. last /\ \A n \in 1 .. last : cs[n] \in Chunks(Word)
      /\ first \in Acc
  OBVIOUS
<1>2. A!OpenAIProviderStream(cs) = g[DOMAIN cs]
  BY DEF A!OpenAIProviderStream, OpenAIYields, A!FoldLeft, A!MapThenFoldSet, A!Max, Max
<1> HIDE DEF last, first
<1>3. ASSUME NEW n \in 1 .. last, NEW k \in Acc PROVE Pick(k, cs[n]) \in Acc
  BY <1>1, YieldsAre
<1>4. step \in [1 .. last -> [Acc -> Acc]]
  <2> HIDE DEF Acc, Pick
  <2>. QED
    BY <1>3
<1> HIDE DEF Acc, Pick
<1>5. PICK f : IsFoldIn(Acc, f, step, last, first)
  <2> HIDE DEF step
  <2>. QED
    BY <1>1, <1>4, FoldExists
<1>6. Is(f)
  <2>1. f = [u \in SUBSET (1 .. last) |-> IF u = {} THEN first ELSE step[Max(u)][f[u \ {Max(u)}]]]
    BY <1>5 DEF IsFoldIn, IsFold
  <2>2. ASSUME NEW u \in SUBSET (1 .. last), u # {}
        PROVE  step[Max(u)][f[u \ {Max(u)}]] = Pick(f[u \ {Max(u)}], cs[Max(u)])
    <3>1. f[u \ {Max(u)}] \in Acc /\ Max(u) \in 1 .. last
      BY <1>1, <1>5, <2>2, MaxIsIn DEF IsFoldIn
    <3>. QED
      BY <3>1
  <2> HIDE DEF step
  <2>. QED
    BY <1>1, <2>1, <2>2
<1>7. Is(g)
  <2> HIDE DEF Is
  <2>. QED
    BY <1>6, Zenon
<1> HIDE DEF g
<1>8. \A u \in SUBSET (1 .. last) : g[u] = IF u = {} THEN first ELSE Pick(g[u \ {Max(u)}], cs[Max(u)])
  BY <1>1, <1>7
<1>9. \A n \in 1 .. last, k \in Acc : step[n][k] = Pick(k, cs[n])
  OBVIOUS
<1> HIDE DEF Is, step
<1>10. PICK run \in [0 .. last -> Acc] :
         /\ run[0] = first /\ run[last] = g[1 .. last]
         /\ \A n \in 1 .. last : run[n] = step[n][run[n - 1]]
  <2>1. Accumulates(Acc, g, step, last)
    BY <1>1, <1>8, <1>9, MaxIsIn DEF Accumulates
  <2>2. g[{}] = first
    BY <1>8
  <2>3. Runs(Acc, g, step, first, last)
    BY <1>1, <1>4, <2>1, <2>2, FoldRuns
  <2>. QED
    BY <2>3 DEF Runs
<1>11. ASSUME NEW n \in 1 .. last PROVE run[n] = Pick(run[n - 1], cs[n])
  <2>1. n - 1 \in 0 .. last
    BY <1>1
  <2>. QED
    BY <1>9, <1>10, <2>1
<1>12. run[last] = A!OpenAIProviderStream(cs)
  BY <1>1, <1>2, <1>10
<1>. QED
  BY <1>10, <1>11, <1>12 DEF IsOpenAIStream, last, first, Acc, Pick

\* ... of Gemini.
IsGoogleStream(so, Word, cs) ==
  /\ so \in [0 .. Len(cs) -> Seq(Deltas(Word))]
  /\ so[0] = <<>> /\ so[Len(cs)] = A!GoogleProviderStream(cs)
  /\ \A n \in 1 .. Len(cs) :
       so[n] = GoogleYields(so[n - 1], cs[n])

\* ... and that of Gemini.
LEMMA GoogleStreamIsStepwise ==
  ASSUME NEW Word, NEW cs \in Seq(Chunks(Word))
  PROVE  \E so : IsGoogleStream(so, Word, cs)
<1> DEFINE Acc == Seq(Deltas(Word))
           first == <<>>
           last == Len(cs)
           Pick(k, x) == GoogleYields(k, x)
           step == [n \in 1 .. last |-> [k \in Acc |-> Pick(k, cs[n])]]
           Is(f) == f = [u \in SUBSET (DOMAIN cs) |->
                           IF u = {} THEN first ELSE Pick(f[u \ {Max(u)}], cs[Max(u)])]
           g == CHOOSE f : Is(f)
<1>1. /\ last \in Nat /\ DOMAIN cs = 1 .. last /\ \A n \in 1 .. last : cs[n] \in Chunks(Word)
      /\ first \in Acc
  OBVIOUS
<1>2. A!GoogleProviderStream(cs) = g[DOMAIN cs]
  BY DEF A!GoogleProviderStream, GoogleYields, A!FoldLeft, A!MapThenFoldSet, A!Max, Max
<1> HIDE DEF last, first
<1>3. ASSUME NEW n \in 1 .. last, NEW k \in Acc PROVE Pick(k, cs[n]) \in Acc
  BY <1>1, YieldsAre
<1>4. step \in [1 .. last -> [Acc -> Acc]]
  <2> HIDE DEF Acc, Pick
  <2>. QED
    BY <1>3
<1> HIDE DEF Acc, Pick
<1>5. PICK f : IsFoldIn(Acc, f, step, last, first)
  <2> HIDE DEF step
  <2>. QED
    BY <1>1, <1>4, FoldExists
<1>6. Is(f)
  <2>1. f = [u \in SUBSET (1 .. last) |-> IF u = {} THEN first ELSE step[Max(u)][f[u \ {Max(u)}]]]
    BY <1>5 DEF IsFoldIn, IsFold
  <2>2. ASSUME NEW u \in SUBSET (1 .. last), u # {}
        PROVE  step[Max(u)][f[u \ {Max(u)}]] = Pick(f[u \ {Max(u)}], cs[Max(u)])
    <3>1. f[u \ {Max(u)}] \in Acc /\ Max(u) \in 1 .. last
      BY <1>1, <1>5, <2>2, MaxIsIn DEF IsFoldIn
    <3>. QED
      BY <3>1
  <2> HIDE DEF step
  <2>. QED
    BY <1>1, <2>1, <2>2
<1>7. Is(g)
  <2> HIDE DEF Is
  <2>. QED
    BY <1>6, Zenon
<1> HIDE DEF g
<1>8. \A u \in SUBSET (1 .. last) : g[u] = IF u = {} THEN first ELSE Pick(g[u \ {Max(u)}], cs[Max(u)])
  BY <1>1, <1>7
<1>9. \A n \in 1 .. last, k \in Acc : step[n][k] = Pick(k, cs[n])
  OBVIOUS
<1> HIDE DEF Is, step
<1>10. PICK run \in [0 .. last -> Acc] :
         /\ run[0] = first /\ run[last] = g[1 .. last]
         /\ \A n \in 1 .. last : run[n] = step[n][run[n - 1]]
  <2>1. Accumulates(Acc, g, step, last)
    BY <1>1, <1>8, <1>9, MaxIsIn DEF Accumulates
  <2>2. g[{}] = first
    BY <1>8
  <2>3. Runs(Acc, g, step, first, last)
    BY <1>1, <1>4, <2>1, <2>2, FoldRuns
  <2>. QED
    BY <2>3 DEF Runs
<1>11. ASSUME NEW n \in 1 .. last PROVE run[n] = Pick(run[n - 1], cs[n])
  <2>1. n - 1 \in 0 .. last
    BY <1>1
  <2>. QED
    BY <1>9, <1>10, <2>1
<1>12. run[last] = A!GoogleProviderStream(cs)
  BY <1>1, <1>2, <1>10
<1>. QED
  BY <1>10, <1>11, <1>12 DEF IsGoogleStream, last, first, Acc, Pick

\* The first n - off words of a text.
FirstWords(text, off, n) ==
  SubSeq(text, 1, IF n <= off THEN 0 ELSE IF n - off > Len(text) THEN Len(text) ELSE n - off)

\* What the n-th chunk says of it.
Piece(text, off, n) ==
  IF n > off /\ n - off <= Len(text) THEN <<text[n - off]>> ELSE <<>>

\* A chunk says the next word.
LEMMA FirstWordsMore ==
  ASSUME NEW Word, NEW text \in Seq(Word), NEW off \in Nat, NEW n \in Nat, NEW k, k = n + 1
  PROVE  /\ FirstWords(text, off, 0) = <<>>
         /\ FirstWords(text, off, k) = FirstWords(text, off, n) \o Piece(text, off, k)
<1>1. Len(text) \in Nat
  OBVIOUS
<1>2. \A m \in Nat : m <= off => FirstWords(text, off, m) = <<>>
  BY SubSeqEmpty DEF FirstWords
<1>8. FirstWords(text, off, 0) = <<>>
  <2>1. 0 \in Nat /\ 0 <= off
    OBVIOUS
  <2>. QED
    BY <1>2, <2>1
<1>3. FirstWords(text, off, n) \in Seq(Word)
  <2> DEFINE m == IF n <= off THEN 0 ELSE IF n - off > Len(text) THEN Len(text) ELSE n - off
  <2>1. m \in 0 .. Len(text)
    BY <1>1
  <2> HIDE DEF m
  <2>2. \A i \in 1 .. m : text[i] \in Word
    BY <1>1, <2>1
  <2>3. SubSeq(text, 1, m) \in Seq(Word)
    BY <1>1, <2>1, <2>2, SubSeqProperties
  <2>. QED
    BY <2>3 DEF FirstWords, m
<1>4. FirstWords(text, off, n) \o <<>> = FirstWords(text, off, n)
  BY <1>3, ConcatEmptySeq
<1>5. CASE k <= off
  <2>1. Piece(text, off, k) = <<>>
    BY <1>5 DEF Piece
  <2>2. FirstWords(text, off, k) = <<>>
    BY <1>2, <1>5
  <2>3. FirstWords(text, off, n) = <<>>
    BY <1>2, <1>5
  <2>. QED
    BY <1>8, <1>4, <1>5, <2>1, <2>2, <2>3
<1>6. CASE k > off /\ k - off > Len(text)
  <2>1. Piece(text, off, k) = <<>>
    BY <1>1, <1>6 DEF Piece
  <2>2. FirstWords(text, off, k) = SubSeq(text, 1, Len(text))
    BY <1>1, <1>6 DEF FirstWords
  <2>3. FirstWords(text, off, n) = SubSeq(text, 1, Len(text))
    <3>1. CASE n > off
      <4>1. n - off > Len(text) \/ n - off = Len(text)
        BY <1>1, <1>6
      <4>. QED
        BY <1>1, <3>1, <4>1 DEF FirstWords
    <3>2. CASE n <= off
      <4>1. Len(text) = 0
        BY <1>1, <1>6, <3>2
      <4>. QED
        BY <3>2, <4>1 DEF FirstWords
    <3>. QED
      BY <3>1, <3>2
  <2>. QED
    BY <1>8, <1>4, <2>1, <2>2, <2>3
<1>7. CASE k > off /\ k - off <= Len(text)
  <2>1. PICK j \in 1 .. Len(text) : j = k - off
    BY <1>1, <1>7
  <2>2. Piece(text, off, k) = <<text[j]>>
    BY <1>1, <1>7, <2>1 DEF Piece
  <2>3. FirstWords(text, off, k) = SubSeq(text, 1, j)
    BY <1>1, <1>7, <2>1 DEF FirstWords
  <2>4. FirstWords(text, off, n) = SubSeq(text, 1, j - 1)
    <3>1. CASE n <= off
      <4>1. j - 1 = 0
        BY <1>7, <2>1, <3>1
      <4>. QED
        BY <3>1, <4>1 DEF FirstWords
    <3>2. CASE n > off
      <4>1. j - 1 = n - off /\ ~ (n - off > Len(text))
        BY <1>1, <1>7, <2>1, <3>2
      <4>. QED
        BY <3>2, <4>1 DEF FirstWords
    <3>. QED
      BY <3>1, <3>2
  <2>5. SubSeq(text, 1, j) = SubSeq(text, 1, j - 1) \o <<text[j]>>
    <3>1. 1 \in 1 .. Len(text)
      BY <1>1, <2>1
    <3>. QED
      BY <2>1, <3>1, SubSeqRecursiveSecond
  <2>. QED
    BY <1>8, <2>2, <2>3, <2>4, <2>5
<1>. QED
  BY <1>1, <1>5, <1>6, <1>7

\* The chunks that say a text word by word.
Pieces(text, off, cs) == \A i \in 1 .. Len(cs) : cs[i].text = Piece(text, off, i)

\* The deltas that carry a text and end nothing.
Texts(Word) == {d \in Deltas(Word) : d.finish = None /\ d.usage = None}

\* What yields the chunks' texts tells the text so far; what yields nothing else
\* yields texts only.
LEMMA YieldsTell ==
  ASSUME NEW Word, NEW text \in Seq(Word), NEW off \in Nat,
         NEW cs \in Seq(Chunks(Word)), Pieces(text, off, cs),
         NEW yield, yield[0] = <<>>,
         \A n \in 1 .. Len(cs) : Yields(yield[n - 1], yield[n], cs[n])
  PROVE  /\ yield[Len(cs)] \in Seq(Deltas(Word))
         /\ Heard(Word, yield[Len(cs)]) = FirstWords(text, off, Len(cs))
<1> DEFINE size == Len(cs)
           Tells(n) == /\ yield[n] \in Seq(Deltas(Word))
                       /\ Heard(Word, yield[n]) = FirstWords(text, off, n)
           T == {n \in Nat : n <= size => Tells(n)}
<1>1. size \in Nat /\ \A n \in 1 .. size : cs[n] \in Chunks(Word)
  OBVIOUS
<1>2. Tells(0)
  <2>1. <<>> \in Seq(Deltas(Word))
    BY EmptySeq
  <2>. QED
    BY <2>1, HeardOfNone, FirstWordsMore
<1>3. \A n \in 1 .. size : /\ Yields(yield[n - 1], yield[n], cs[n])
                           /\ cs[n].text = Piece(text, off, n)
  BY DEF Pieces
<1> HIDE DEF size
<1>4. ASSUME NEW n \in Nat, n + 1 <= size, Tells(n) PROVE Tells(n + 1)
  <2>1. PICK k \in 1 .. size : k = n + 1 /\ k - 1 = n
    BY <1>1, <1>4
  <2> DEFINE out == yield[n]
             now == yield[k]
             c == cs[k]
             said == out \o A!Said(c)
  <2>2. out \in Seq(Deltas(Word)) /\ Heard(Word, out) = FirstWords(text, off, n)
    BY <1>4
  <2>3. Yields(out, now, c) /\ c.text = Piece(text, off, k)
    BY <1>3, <2>1
  <2>4. c.text \in Seq(Word)
    BY <1>1 DEF Chunks
  <2>5. FirstWords(text, off, k) = FirstWords(text, off, n) \o Piece(text, off, k)
    BY <2>1, FirstWordsMore
  <2> HIDE DEF out, now, c
  <2>6. said \in Seq(Deltas(Word)) /\ Heard(Word, said) = FirstWords(text, off, k)
    <3>1. /\ out \o A!Said(c) \in Seq(Deltas(Word))
          /\ Heard(Word, out \o A!Said(c)) = Heard(Word, out) \o c.text
      <4>1. out \in Seq(Deltas(Word)) /\ c.text \in Seq(Word)
        BY <2>2, <2>4
      <4>. QED
        BY <4>1, HeardSaid
    <3>. QED
      BY <2>2, <2>3, <2>5, <3>1
  <2>7. now \in Seq(Deltas(Word)) /\ Heard(Word, now) = Heard(Word, said)
    <3>1. CASE now = said
      BY <2>6, <3>1
    <3>2. CASE now # said
      <4>1. PICK finish \in Reasons \union {None}, usage \in Counts \union {None} :
              /\ finish # None \/ usage # None
              /\ now = said \o <<A!Terminal(finish, usage)>>
        BY <2>3, <3>2 DEF Yields
      <4> HIDE DEF said
      <4>. QED
        BY <2>6, <4>1, HeardTerminal
    <3>. QED
      BY <3>1, <3>2
  <2>8. Tells(k)
    BY <2>6, <2>7 DEF now
  <2>. QED
    BY <2>1, <2>8
<1>5. Tells(size)
  <2> HIDE DEF Tells
  <2>1. 0 \in T /\ \A n \in T : n + 1 \in T
    BY <1>1, <1>2, <1>4
  <2> HIDE DEF T
  <2>2. T = Nat
    BY <2>1, SetInduction DEF T
  <2>. QED
    BY <1>1, <2>2 DEF T
<1>. QED
  BY <1>5 DEF size

\* What yields nothing but the chunks' texts yields texts.
LEMMA YieldsTexts ==
  ASSUME NEW Word, NEW cs \in Seq(Chunks(Word)),
         NEW yield, yield[0] = <<>>,
         \A n \in 1 .. Len(cs) : yield[n] = yield[n - 1] \o A!Said(cs[n])
  PROVE  yield[Len(cs)] \in Seq(Texts(Word))
<1> DEFINE size == Len(cs)
           X == Texts(Word)
           T == {n \in Nat : n <= size => yield[n] \in Seq(X)}
<1>1. size \in Nat /\ \A n \in 1 .. size : cs[n].text \in Seq(Word)
  <2> DEFINE C == Chunks(Word)
  <2>1. \A c \in C : c.text \in Seq(Word)
    BY DEF Chunks
  <2>2. cs \in Seq(C)
    OBVIOUS
  <2> HIDE DEF C
  <2>. QED
    BY <2>1, <2>2
<1>2. 0 \in T
  BY EmptySeq
<1>3. \A n \in 1 .. size : yield[n] = yield[n - 1] \o A!Said(cs[n])
  OBVIOUS
<1> HIDE DEF size
<1>4. ASSUME NEW n \in T PROVE n + 1 \in T
  <2> SUFFICES ASSUME n + 1 <= size PROVE yield[n + 1] \in Seq(X)
    OBVIOUS
  <2>1. PICK k \in 1 .. size : k = n + 1 /\ k - 1 = n
    BY <1>1
  <2>2. yield[n] \in Seq(X)
    BY <1>1
  <2>3. A!Said(cs[k]) \in Seq(X)
    <3> DEFINE d == A!Content(cs[k].text)
    <3>1. d \in X
      BY <1>1 DEF A!Content, Texts, Deltas
    <3>2. A!Said(cs[k]) = IF cs[k].text = <<>> THEN <<>> ELSE <<d>>
      BY DEF A!Said
    <3> HIDE DEF d, X
    <3>. QED
      BY <3>1, <3>2, EmptySeq
  <2> DEFINE out == yield[n]
             said == A!Said(cs[k])
  <2>4. yield[k] = out \o said
    BY <1>3, <2>1
  <2> HIDE DEF X, out, said
  <2>5. out \o said \in Seq(X)
    BY <2>2, <2>3, ConcatProperties DEF out, said
  <2>. QED
    BY <2>1, <2>4, <2>5
<1>5. size \in T
  <2> HIDE DEF T
  <2>1. T = Nat
    BY <1>2, <1>4, SetInduction DEF T
  <2>. QED
    BY <1>1, <2>1
<1>. QED
  BY <1>1, <1>5 DEF size

\* The adapters that keep what they read, to end their stream with it.
Keepers == {"anthropic", "openai", "google", "anthropic_provider"}

\* What each of them keeps of the events.
KeptBy(a, cs) ==
  IF a \in {"anthropic", "anthropic_provider"} THEN KeepingAnthropic(cs) ELSE Keeping(a, cs)

\* The counts it ends its stream with.
EndCounts(a, k) == IF a = "anthropic_provider" THEN A!MapUsage(a, k.usage) ELSE k.usage

\* What they keep.
LEMMA KeptIs ==
  ASSUME NEW Word, NEW text \in Seq(Word), NEW off \in Nat,
         NEW cs \in Seq(Chunks(Word)), Pieces(text, off, cs), NEW a \in Keepers
  PROVE  /\ KeptBy(a, cs) \in KeptRecords(Word)
         /\ KeptBy(a, cs).deltas \in Seq(Texts(Word))
         /\ KeptBy(a, cs).deltas \in Seq(Deltas(Word))
         /\ Heard(Word, KeptBy(a, cs).deltas) = FirstWords(text, off, Len(cs))
<1>1. Len(cs) \in Nat /\ \A n \in 1 .. Len(cs) : cs[n] \in Chunks(Word)
  OBVIOUS
<1>2. A!Kept.deltas = <<>>
  BY DEF A!Kept
<1>3. ASSUME NEW kept \in [0 .. Len(cs) -> KeptRecords(Word)], kept[0] = A!Kept,
             kept[Len(cs)] = KeptBy(a, cs),
             \A n \in 1 .. Len(cs) :
               \/ kept[n] = A!Keep(a, kept[n - 1], cs[n])
               \/ kept[n] = A!KeepAnthropic(kept[n - 1], cs[n])
      PROVE  /\ KeptBy(a, cs) \in KeptRecords(Word)
             /\ KeptBy(a, cs).deltas \in Seq(Texts(Word))
             /\ KeptBy(a, cs).deltas \in Seq(Deltas(Word))
             /\ Heard(Word, KeptBy(a, cs).deltas) = FirstWords(text, off, Len(cs))
  <2> DEFINE yield == [n \in 0 .. Len(cs) |-> kept[n].deltas]
  <2>1. yield[0] = <<>> /\ yield[Len(cs)] = KeptBy(a, cs).deltas
    BY <1>1, <1>2, <1>3
  <2>2. ASSUME NEW n \in 1 .. Len(cs) PROVE yield[n] = yield[n - 1] \o A!Said(cs[n])
    <3>1. n \in 0 .. Len(cs) /\ n - 1 \in 0 .. Len(cs)
      BY <1>1
    <3>2. kept[n - 1] \in KeptRecords(Word) /\ cs[n] \in Chunks(Word)
      BY <1>1, <1>3, <3>1
    <3> DEFINE k == kept[n - 1]
               c == cs[n]
    <3>5. k \in KeptRecords(Word) /\ c \in Chunks(Word)
      BY <3>2
    <3> HIDE DEF k, c
    <3>3. A!Keep(a, k, c).deltas = k.deltas \o A!Said(c)
          /\ A!KeepAnthropic(k, c).deltas = k.deltas \o A!Said(c)
      <4>1. A!Keep(a, k, c).deltas = k.deltas \o A!Said(c)
        BY DEF A!Keep
      <4>2. A!KeepAnthropic(k, c).deltas = k.deltas \o A!Said(c)
        BY <3>5, KeepTyped, Zenon
      <4>. QED
        BY <4>1, <4>2
    <3>4. kept[n].deltas = k.deltas \o A!Said(c)
      BY <1>3, <3>3 DEF k, c
    <3>. QED
      BY <3>1, <3>4 DEF k, c
  <2> HIDE DEF yield
  <2>3. \A n \in 1 .. Len(cs) : Yields(yield[n - 1], yield[n], cs[n])
    BY <2>2 DEF Yields
  <2>4. /\ yield[Len(cs)] \in Seq(Deltas(Word))
        /\ Heard(Word, yield[Len(cs)]) = FirstWords(text, off, Len(cs))
    BY <2>1, <2>3, YieldsTell
  <2>5. yield[Len(cs)] \in Seq(Texts(Word))
    BY <2>1, <2>2, YieldsTexts
  <2>6. KeptBy(a, cs) \in KeptRecords(Word)
    BY <1>1, <1>3
  <2>. QED
    BY <2>1, <2>4, <2>5, <2>6
<1>4. CASE a \in {"anthropic", "anthropic_provider"}
  <2>1. PICK kept : IsKeepingAnthropic(kept, Word, cs)
    BY KeepingAnthropicIsStepwise
  <2>2. KeptBy(a, cs) = KeepingAnthropic(cs)
    BY <1>4 DEF KeptBy
  <2>. QED
    BY <1>3, <2>1, <2>2 DEF IsKeepingAnthropic
<1>5. CASE a \notin {"anthropic", "anthropic_provider"}
  <2>1. PICK kept : IsKeeping(kept, Word, a, cs)
    BY KeepingIsStepwise
  <2>2. KeptBy(a, cs) = Keeping(a, cs)
    BY <1>5 DEF KeptBy
  <2>. QED
    BY <1>3, <2>1, <2>2 DEF IsKeeping
<1>. QED
  BY <1>4, <1>5

\* Their stream.
LEMMA KeepersStream ==
  ASSUME NEW a \in Keepers, NEW cs, NEW ended \in BOOLEAN
  PROVE  A!Stream(a, cs, ended) =
           KeptBy(a, cs).deltas \o
             (IF ended THEN <<A!Terminal(KeptBy(a, cs).finish, EndCounts(a, KeptBy(a, cs)))>>
              ELSE <<>>)
<1>1. CASE a = "anthropic_provider"
  <2>1. KeptBy(a, cs) = KeepingAnthropic(cs)
    BY <1>1 DEF KeptBy
  <2>2. A!Stream(a, cs, ended) = A!AnthropicProviderStream(cs, ended)
    BY <1>1, Zenon DEF A!Stream, A!Injected
  <2>. QED
    BY <1>1, <2>1, <2>2 DEF A!AnthropicProviderStream, KeepingAnthropic, EndCounts
<1>2. CASE a = "anthropic"
  <2>1. KeptBy(a, cs) = KeepingAnthropic(cs)
    BY <1>2 DEF KeptBy
  <2>2. A!Stream(a, cs, ended) = A!InjectedStream(a, cs, ended)
    BY <1>2, Zenon DEF A!Stream, A!Injected
  <2>. QED
    BY <1>2, <2>1, <2>2 DEF A!InjectedStream, KeepingAnthropic, EndCounts
<1>3. CASE a \in {"openai", "google"}
  <2>1. KeptBy(a, cs) = Keeping(a, cs)
    BY <1>3 DEF KeptBy
  <2>2. A!Stream(a, cs, ended) = A!InjectedStream(a, cs, ended)
    BY <1>3, Zenon DEF A!Stream, A!Injected
  <2>. QED
    BY <1>3, <2>1, <2>2 DEF A!InjectedStream, Keeping, EndCounts
<1>. QED
  BY <1>1, <1>2, <1>3 DEF Keepers

\* Every stream tells the text so far.
LEMMA StreamTells ==
  ASSUME NEW Word, NEW text \in Seq(Word), NEW off \in Nat,
         NEW cs \in Seq(Chunks(Word)), Pieces(text, off, cs),
         NEW a \in A!Injected \union A!Deployed, NEW ended \in BOOLEAN
  PROVE  /\ A!Stream(a, cs, ended) \in Seq(Deltas(Word))
         /\ Heard(Word, A!Stream(a, cs, ended)) = FirstWords(text, off, Len(cs))
<1>1. Len(cs) \in Nat /\ \A n \in 1 .. Len(cs) : cs[n] \in Chunks(Word)
  OBVIOUS
<1>2. CASE a = "openai_provider"
  <2>1. PICK so : IsOpenAIStream(so, Word, cs)
    BY OpenAIStreamIsStepwise
  <2>2. /\ so \in [0 .. Len(cs) -> Seq(Deltas(Word))]
        /\ so[0] = <<>> /\ so[Len(cs)] = A!OpenAIProviderStream(cs)
        /\ \A n \in 1 .. Len(cs) : so[n] = OpenAIYields(so[n - 1], cs[n])
    BY <2>1 DEF IsOpenAIStream
  <2>3. ASSUME NEW n \in 1 .. Len(cs) PROVE Yields(so[n - 1], so[n], cs[n])
    <3>1. so[n - 1] \in Seq(Deltas(Word)) /\ cs[n] \in Chunks(Word)
      <4>1. n - 1 \in 0 .. Len(cs)
        BY <1>1
      <4>2. cs[n] \in Chunks(Word)
        BY <1>1
      <4>. QED
        BY <2>2, <4>1, <4>2
    <3>2. Yields(so[n - 1], OpenAIYields(so[n - 1], cs[n]), cs[n])
      BY <3>1, YieldsAre
    <3>. QED
      BY <2>2, <3>2
  <2>4. A!Stream(a, cs, ended) = A!OpenAIProviderStream(cs)
    BY <1>2, Zenon DEF A!Stream, A!Injected
  <2>5. so[0] = <<>> /\ \A n \in 1 .. Len(cs) : Yields(so[n - 1], so[n], cs[n])
    BY <2>2, <2>3
  <2>6. /\ so[Len(cs)] \in Seq(Deltas(Word))
        /\ Heard(Word, so[Len(cs)]) = FirstWords(text, off, Len(cs))
    BY <2>5, YieldsTell
  <2>. QED
    BY <2>2, <2>4, <2>6
<1>3. CASE a = "google_provider"
  <2>1. PICK so : IsGoogleStream(so, Word, cs)
    BY GoogleStreamIsStepwise
  <2>2. /\ so \in [0 .. Len(cs) -> Seq(Deltas(Word))]
        /\ so[0] = <<>> /\ so[Len(cs)] = A!GoogleProviderStream(cs)
        /\ \A n \in 1 .. Len(cs) : so[n] = GoogleYields(so[n - 1], cs[n])
    BY <2>1 DEF IsGoogleStream
  <2>3. ASSUME NEW n \in 1 .. Len(cs) PROVE Yields(so[n - 1], so[n], cs[n])
    <3>1. so[n - 1] \in Seq(Deltas(Word)) /\ cs[n] \in Chunks(Word)
      <4>1. n - 1 \in 0 .. Len(cs)
        BY <1>1
      <4>2. cs[n] \in Chunks(Word)
        BY <1>1
      <4>. QED
        BY <2>2, <4>1, <4>2
    <3>2. Yields(so[n - 1], GoogleYields(so[n - 1], cs[n]), cs[n])
      BY <3>1, YieldsAre
    <3>. QED
      BY <2>2, <3>2
  <2>4. A!Stream(a, cs, ended) = A!GoogleProviderStream(cs)
    BY <1>3, Zenon DEF A!Stream, A!Injected
  <2>5. so[0] = <<>> /\ \A n \in 1 .. Len(cs) : Yields(so[n - 1], so[n], cs[n])
    BY <2>2, <2>3
  <2>6. /\ so[Len(cs)] \in Seq(Deltas(Word))
        /\ Heard(Word, so[Len(cs)]) = FirstWords(text, off, Len(cs))
    BY <2>5, YieldsTell
  <2>. QED
    BY <2>2, <2>4, <2>6
<1>4. CASE a \in Keepers
  <2> DEFINE k == KeptBy(a, cs)
             counts == EndCounts(a, k)
  <2>1. /\ k \in KeptRecords(Word) /\ k.deltas \in Seq(Deltas(Word))
        /\ Heard(Word, k.deltas) = FirstWords(text, off, Len(cs))
    BY <1>4, KeptIs
  <2>2. A!Stream(a, cs, ended) =
          k.deltas \o (IF ended THEN <<A!Terminal(k.finish, counts)>> ELSE <<>>)
    BY <1>4, KeepersStream
  <2> HIDE DEF k
  <2>3. k.finish \in Reasons /\ k.usage \in Counts
    BY <2>1 DEF KeptRecords
  <2>4. counts \in Counts
    BY <2>3, MapUsageTyped DEF EndCounts
  <2> HIDE DEF counts
  <2>5. k.finish # None
    BY <2>3, ReplyAssumption DEF Reasons
  <2>6. CASE ended
    <3>1. A!Stream(a, cs, ended) = k.deltas \o <<A!Terminal(k.finish, counts)>>
      BY <2>2, <2>6
    <3>. QED
      BY <2>1, <2>3, <2>4, <2>5, <3>1, HeardTerminal
  <2>7. CASE ~ended
    <3>1. A!Stream(a, cs, ended) = k.deltas \o <<>>
      BY <2>2, <2>7
    <3>2. k.deltas \o <<>> = k.deltas
      BY <2>1, ConcatEmptySeq
    <3>. QED
      BY <2>1, <3>1, <3>2
  <2>. QED
    BY <2>6, <2>7
<1>. QED
  BY <1>2, <1>3, <1>4 DEF A!Injected, A!Deployed, Keepers

-----------------------------------------------------------------------------
(* What a vendor streams.                                                  *)

\* A reply's content blocks.
Blocks(Word) == [type : {"text"}, text : Seq(Word)] \union [type : {"tool_use"}]

\* The counts of a whole reply.
FullCounts == [input : Nat, output : Nat, created : Tokens, read : Tokens]

\* The replies of an adapter's vendor: only Anthropic always counts.
Answers(Word, a) ==
  [blocks : Seq(Blocks(Word)), finish : {"stop", "max_tokens"},
   usage : FullCounts \union (IF A!Vendor(a) = "Anthropic" THEN {} ELSE {None})]

\* so holds the text of the first blocks.
IsText(so, Word, bs) ==
  /\ so \in [0 .. Len(bs) -> Seq(Word)]
  /\ so[0] = <<>> /\ so[Len(bs)] = A!TextOf(bs)
  /\ \A n \in 1 .. Len(bs) :
       so[n] = IF bs[n].type = "text" THEN so[n - 1] \o bs[n].text ELSE so[n - 1]

\* The text of a reply is read block by block.
LEMMA TextIsStepwise ==
  ASSUME NEW Word, NEW bs \in Seq(Blocks(Word))
  PROVE  \E so : IsText(so, Word, bs)
<1> DEFINE Acc == Seq(Word)
           first == <<>>
           last == Len(bs)
           Pick(k, x) == IF x.type = "text" THEN k \o x.text ELSE k
           step == [n \in 1 .. last |-> [k \in Acc |-> Pick(k, bs[n])]]
           Is(f) == f = [u \in SUBSET (DOMAIN bs) |->
                           IF u = {} THEN first ELSE Pick(f[u \ {Max(u)}], bs[Max(u)])]
           g == CHOOSE f : Is(f)
<1>1. /\ last \in Nat /\ DOMAIN bs = 1 .. last /\ \A n \in 1 .. last : bs[n] \in Blocks(Word)
      /\ first \in Acc
  OBVIOUS
<1>2. A!TextOf(bs) = g[DOMAIN bs]
  BY DEF A!TextOf, A!FoldLeft, A!MapThenFoldSet, A!Max, Max
<1> HIDE DEF last, first
<1>3. ASSUME NEW n \in 1 .. last, NEW k \in Acc PROVE Pick(k, bs[n]) \in Acc
  <2>1. bs[n] \in Blocks(Word)
    BY <1>1
  <2>2. bs[n].type = "text" => bs[n].text \in Seq(Word)
    BY <2>1 DEF Blocks
  <2>. QED
    BY <2>2, ConcatProperties
<1>4. step \in [1 .. last -> [Acc -> Acc]]
  <2> HIDE DEF Acc, Pick
  <2>. QED
    BY <1>3
<1> HIDE DEF Acc, Pick
<1>5. PICK f : IsFoldIn(Acc, f, step, last, first)
  <2> HIDE DEF step
  <2>. QED
    BY <1>1, <1>4, FoldExists
<1>6. Is(f)
  <2>1. f = [u \in SUBSET (1 .. last) |-> IF u = {} THEN first ELSE step[Max(u)][f[u \ {Max(u)}]]]
    BY <1>5 DEF IsFoldIn, IsFold
  <2>2. ASSUME NEW u \in SUBSET (1 .. last), u # {}
        PROVE  step[Max(u)][f[u \ {Max(u)}]] = Pick(f[u \ {Max(u)}], bs[Max(u)])
    <3>1. f[u \ {Max(u)}] \in Acc /\ Max(u) \in 1 .. last
      BY <1>1, <1>5, <2>2, MaxIsIn DEF IsFoldIn
    <3>. QED
      BY <3>1
  <2> HIDE DEF step
  <2>. QED
    BY <1>1, <2>1, <2>2
<1>7. Is(g)
  <2> HIDE DEF Is
  <2>. QED
    BY <1>6, Zenon
<1> HIDE DEF g
<1>8. \A u \in SUBSET (1 .. last) : g[u] = IF u = {} THEN first ELSE Pick(g[u \ {Max(u)}], bs[Max(u)])
  BY <1>1, <1>7
<1>9. \A n \in 1 .. last, k \in Acc : step[n][k] = Pick(k, bs[n])
  OBVIOUS
<1> HIDE DEF Is, step
<1>10. PICK run \in [0 .. last -> Acc] :
         /\ run[0] = first /\ run[last] = g[1 .. last]
         /\ \A n \in 1 .. last : run[n] = step[n][run[n - 1]]
  <2>1. Accumulates(Acc, g, step, last)
    BY <1>1, <1>8, <1>9, MaxIsIn DEF Accumulates
  <2>2. g[{}] = first
    BY <1>8
  <2>3. Runs(Acc, g, step, first, last)
    BY <1>1, <1>4, <2>1, <2>2, FoldRuns
  <2>. QED
    BY <2>3 DEF Runs
<1>11. ASSUME NEW n \in 1 .. last PROVE run[n] = Pick(run[n - 1], bs[n])
  <2>1. n - 1 \in 0 .. last
    BY <1>1
  <2>. QED
    BY <1>9, <1>10, <2>1
<1>12. run[last] = A!TextOf(bs)
  BY <1>1, <1>2, <1>10
<1>. QED
  BY <1>10, <1>11, <1>12 DEF IsText, last, first, Acc, Pick

\* Three sequences in a row.
InThree(E, s, h, m, t) ==
  /\ s \in Seq(E) /\ Len(s) = Len(h) + Len(m) + Len(t)
  /\ \A i \in 1 .. Len(h) : s[i] = h[i]
  /\ \A i \in 1 .. Len(m) : s[Len(h) + i] = m[i]
  /\ \A i \in 1 .. Len(t) : s[Len(h) + Len(m) + i] = t[i]

\* That is what putting them in a row makes.
LEMMA ThreeInARow ==
  ASSUME NEW E, NEW h \in Seq(E), NEW m \in Seq(E), NEW t \in Seq(E)
  PROVE  InThree(E, (h \o m) \o t, h, m, t)
<1> DEFINE hm == h \o m
           s == hm \o t
<1>1. InTwo(E, hm, h, m)
  BY InARow
<1>5. hm \in Seq(E)
  BY <1>1 DEF InTwo
<1> HIDE DEF hm
<1>2. InTwo(E, s, hm, t)
  BY <1>5, InARow
<1> HIDE DEF s
<1>6. /\ Len(hm) = Len(h) + Len(m) /\ Len(h) \in Nat /\ Len(m) \in Nat
      /\ \A i \in 1 .. Len(h) : hm[i] = h[i]
      /\ \A i \in 1 .. Len(m) : hm[Len(h) + i] = m[i]
  BY <1>1 DEF InTwo
<1>7. /\ s \in Seq(E) /\ Len(s) = Len(hm) + Len(t) /\ Len(t) \in Nat
      /\ \A i \in 1 .. Len(hm) : s[i] = hm[i]
      /\ \A i \in 1 .. Len(t) : s[Len(hm) + i] = t[i]
  BY <1>2 DEF InTwo
<1>3. \A i \in 1 .. Len(h) : i \in 1 .. Len(hm)
  BY <1>6
<1>4. \A i \in 1 .. Len(m) : Len(h) + i \in 1 .. Len(hm)
  BY <1>6
<1>. QED
  BY <1>3, <1>4, <1>6, <1>7 DEF InThree, s, hm

\* The words, each in a chunk of its own that carries nothing but perhaps counts.
WordByWord(Word, text, ws) ==
  /\ ws \in Seq(Chunks(Word)) /\ Len(ws) = Len(text)
  /\ \A i \in 1 .. Len(ws) : ws[i].text = <<text[i]>> /\ ws[i].finish = None

\* A script: what a vendor streams of a text, and how it ends.
IsScript(Word, text, off, tail, cs) ==
  /\ cs \in Seq(Chunks(Word)) /\ Len(cs) = off + Len(text) + tail
  /\ Pieces(text, off, cs)

\* Chunks that say nothing.
Silent(h, off) == Len(h) = off /\ \A i \in 1 .. off : h[i].text = <<>>

\* Chunks around the words are a script if they say nothing.
LEMMA AroundIsScript ==
  ASSUME NEW Word, NEW text \in Seq(Word), NEW cs, NEW h, NEW ws, NEW t,
         WordByWord(Word, text, ws), InThree(Chunks(Word), cs, h, ws, t),
         NEW off \in Nat, NEW tail \in Nat, Silent(h, off), Silent(t, tail)
  PROVE  IsScript(Word, text, off, tail, cs)
<1> DEFINE size == Len(text)
<1>4. size \in Nat /\ Len(ws) = size
  BY DEF WordByWord
<1>5. \A i \in 1 .. Len(ws) : ws[i].text = <<text[i]>>
  BY DEF WordByWord
<1>6. /\ cs \in Seq(Chunks(Word)) /\ Len(cs) = off + Len(ws) + tail
      /\ \A i \in 1 .. off : cs[i] = h[i]
      /\ \A i \in 1 .. Len(ws) : cs[off + i] = ws[i]
      /\ \A i \in 1 .. tail : cs[off + Len(ws) + i] = t[i]
  BY DEF InThree, Silent
<1>1. /\ cs \in Seq(Chunks(Word)) /\ Len(cs) = off + size + tail
      /\ \A i \in 1 .. off : cs[i].text = <<>>
      /\ \A i \in 1 .. size : cs[off + i].text = <<text[i]>>
      /\ \A i \in 1 .. tail : cs[off + size + i].text = <<>>
      /\ size \in Nat
  BY <1>4, <1>5, <1>6 DEF Silent
<1> HIDE DEF size
<1>3. ASSUME NEW i \in 1 .. Len(cs) PROVE cs[i].text = Piece(text, off, i)
  <2>1. CASE i <= off
    <3>1. i \in 1 .. off
      BY <1>1, <2>1
    <3>. QED
      BY <1>1, <2>1, <3>1 DEF Piece
  <2>2. CASE i > off /\ i - off <= size
    <3>1. PICK j \in 1 .. size : j = i - off /\ i = off + j
      BY <1>1, <2>2
    <3>. QED
      BY <1>1, <2>2, <3>1 DEF Piece, size
  <2>3. CASE i > off /\ i - off > size
    <3>1. PICK j \in 1 .. tail : i = off + size + j
      BY <1>1, <2>3
    <3>2. Piece(text, off, i) = <<>>
      BY <1>1, <2>3 DEF Piece, size
    <3>. QED
      BY <1>1, <3>1, <3>2
  <2>. QED
    BY <1>1, <2>1, <2>2, <2>3
<1>. QED
  BY <1>1, <1>3 DEF IsScript, Pieces, size

\* The words of a reply.
LEMMA WordsAre ==
  ASSUME NEW Word, NEW a, NEW r \in Answers(Word, a)
  PROVE  /\ A!TextOf(r.blocks) \in Seq(Word)
         /\ WordByWord(Word, A!TextOf(r.blocks), A!Words(r))
         /\ \A i \in 1 .. Len(A!TextOf(r.blocks)) : A!Words(r)[i].usage = None
<1> DEFINE text == A!TextOf(r.blocks)
           ws == A!Words(r)
           chunk(i) == A!Chunk(<<text[i]>>, None, None)
<1>1. r.blocks \in Seq(Blocks(Word))
  BY DEF Answers
<1>2. PICK so : IsText(so, Word, r.blocks)
  BY <1>1, TextIsStepwise
<1>3. text \in Seq(Word)
  <2>1. Len(r.blocks) \in Nat
    BY <1>1
  <2>. QED
    BY <1>2, <2>1 DEF IsText
<1>4. ws = [i \in 1 .. Len(text) |-> chunk(i)]
  BY DEF A!Words
<1> HIDE DEF text, ws
<1>5. Len(text) \in Nat /\ \A i \in 1 .. Len(text) : text[i] \in Word
  BY <1>3
<1>6. ASSUME NEW i \in 1 .. Len(text)
      PROVE  /\ chunk(i) \in Chunks(Word) /\ chunk(i).text = <<text[i]>>
             /\ chunk(i).finish = None /\ chunk(i).usage = None
  BY <1>5 DEF A!Chunk, Chunks
<1> HIDE DEF chunk
<1>7. ws \in Seq(Chunks(Word)) /\ Len(ws) = Len(text) /\ \A i \in 1 .. Len(text) : ws[i] = chunk(i)
  <2> DEFINE C == Chunks(Word)
  <2>1. \A i \in 1 .. Len(text) : chunk(i) \in C
    BY <1>6
  <2> HIDE DEF C
  <2>2. ws \in [1 .. Len(text) -> C]
    BY <1>4, <2>1
  <2>3. ws \in Seq(C) /\ Len(ws) = Len(text)
    BY <1>5, <2>2
  <2>. QED
    BY <1>4, <2>3 DEF C
<1>. QED
  BY <1>3, <1>6, <1>7 DEF WordByWord, text, ws

\* How the stream of a reply ends, by vendor.
EndsAsOpenAI(r, cs) ==
  /\ cs[Len(cs)].finish = None /\ cs[Len(cs)].usage = r.usage
  /\ cs[Len(cs) - 1].finish = r.finish
  /\ \A i \in 1 .. Len(cs) - 1 : cs[i].usage = None

\* ... Anthropic's: the input is counted at the start, the output at the end.
EndsAsAnthropic(r, cs) ==
  /\ cs[Len(cs)].finish = r.finish
  /\ cs[Len(cs)].usage = A!Usage(None, r.usage.output, None, None)
  /\ cs[1].usage = A!Usage(r.usage.input, None, r.usage.created, r.usage.read)
  /\ \A i \in 2 .. Len(cs) - 1 : cs[i].usage = None

\* ... Gemini's: the last chunk has both the reason and the counts.
EndsAsGoogle(r, cs) ==
  /\ cs[Len(cs)].finish = r.finish /\ cs[Len(cs)].usage = r.usage
  /\ r.usage = None => \A i \in 1 .. Len(cs) : cs[i].usage = None

\* What a reply and a chunk are made of.
LEMMA AnswerIs ==
  ASSUME NEW Word, NEW a, NEW r \in Answers(Word, a)
  PROVE  /\ r.finish \in {"stop", "max_tokens"} /\ r.finish # None
         /\ A!OrElse(r.finish, "stop") = r.finish
         /\ r.usage \in FullCounts \union {None} /\ r.usage \in Counts \union {None}
         /\ A!Vendor(a) = "Anthropic" => r.usage \in FullCounts /\ r.usage # None
         /\ r.usage # None =>
              \A n \in Nat : /\ A!Usage(r.usage.input, n, r.usage.created, r.usage.read) \in Counts
                             /\ A!Usage(r.usage.input, None, r.usage.created, r.usage.read) \in Counts
                             /\ A!Usage(None, r.usage.output, None, None) \in Counts
<1>1. /\ r.finish \in {"stop", "max_tokens"}
      /\ r.usage \in FullCounts \union (IF A!Vendor(a) = "Anthropic" THEN {} ELSE {None})
  BY DEF Answers
<1>2. r.finish # None
  BY <1>1, ReplyAssumption
<1>3. FullCounts \subseteq Counts
  BY DEF FullCounts, Counts, Tokens
<1>4. None \notin Counts
  BY ReplyAssumption DEF Counts, Tokens
<1>5. ASSUME r.usage # None, NEW n \in Nat
      PROVE  /\ A!Usage(r.usage.input, n, r.usage.created, r.usage.read) \in Counts
             /\ A!Usage(r.usage.input, None, r.usage.created, r.usage.read) \in Counts
             /\ A!Usage(None, r.usage.output, None, None) \in Counts
  <2>1. r.usage \in FullCounts
    BY <1>1, <1>5
  <2>2. /\ r.usage.input \in Tokens /\ r.usage.output \in Tokens
        /\ r.usage.created \in Tokens /\ r.usage.read \in Tokens
    BY <2>1 DEF FullCounts, Tokens
  <2>3. n \in Tokens /\ None \in Tokens
    BY DEF Tokens
  <2>4. \A i, o, c, d \in Tokens : A!Usage(i, o, c, d) \in Counts
    BY DEF A!Usage, Counts
  <2>. QED
    BY <2>2, <2>3, <2>4
<1>6. A!OrElse(r.finish, "stop") = r.finish
  BY <1>2 DEF A!OrElse
<1>7. A!Vendor(a) = "Anthropic" => r.usage \in FullCounts
  BY <1>1
<1>. QED
  BY <1>1, <1>2, <1>3, <1>4, <1>5, <1>6, <1>7

\* A chunk of these parts.
IsChunk(Word, c, text, finish, usage) ==
  c \in Chunks(Word) /\ c.text = text /\ c.finish = finish /\ c.usage = usage

\* That is what Chunk makes of them.
LEMMA ChunkIs ==
  ASSUME NEW Word, NEW text \in Seq(Word),
         NEW finish \in {"stop", "max_tokens", None}, NEW usage \in Counts \union {None}
  PROVE  IsChunk(Word, A!Chunk(text, finish, usage), text, finish, usage)
BY DEF A!Chunk, Chunks, IsChunk

\* OpenAI's stream.
LEMMA OpenAIScript ==
  ASSUME NEW Word, NEW a, NEW r \in Answers(Word, a)
  PROVE  /\ IsScript(Word, A!TextOf(r.blocks), 1, 2, A!Script("OpenAI", r))
         /\ EndsAsOpenAI(r, A!Script("OpenAI", r))
<1> DEFINE C == Chunks(Word)
           text == A!TextOf(r.blocks)
           ws == A!Words(r)
           c1 == A!Chunk(<<>>, None, None)
           c2 == A!Chunk(<<>>, r.finish, None)
           c3 == A!Chunk(<<>>, None, r.usage)
           h == <<c1>>
           t == <<c2, c3>>
           cs == A!Script("OpenAI", r)
<1>1. /\ r.finish \in {"stop", "max_tokens", None} /\ A!OrElse(r.finish, "stop") = r.finish
      /\ r.usage \in Counts \union {None}
  BY AnswerIs
<1>2. /\ text \in Seq(Word) /\ WordByWord(Word, text, ws)
      /\ \A i \in 1 .. Len(text) : ws[i].usage = None
  BY WordsAre
<1>3. cs = (h \o ws) \o t
  BY <1>1, Zenon DEF A!Script
<1>4. <<>> \in Seq(Word)
  BY EmptySeq
<1>5. /\ c1 \in C /\ c1.text = <<>> /\ c1.finish = None /\ c1.usage = None
      /\ c2 \in C /\ c2.text = <<>> /\ c2.finish = r.finish /\ c2.usage = None
      /\ c3 \in C /\ c3.text = <<>> /\ c3.finish = None /\ c3.usage = r.usage
  <2>1. IsChunk(Word, c1, <<>>, None, None)
    BY <1>4, ChunkIs
  <2>2. IsChunk(Word, c2, <<>>, r.finish, None)
    BY <1>1, <1>4, ChunkIs
  <2>3. IsChunk(Word, c3, <<>>, None, r.usage)
    BY <1>1, <1>4, ChunkIs
  <2> HIDE DEF c1, c2, c3
  <2>. QED
    BY <2>1, <2>2, <2>3 DEF IsChunk
<1> HIDE DEF text, ws, c1, c2, c3, C, cs
<1>6. /\ h \in Seq(C) /\ Len(h) = 1 /\ h[1] = c1
      /\ t \in Seq(C) /\ Len(t) = 2 /\ t[1] = c2 /\ t[2] = c3
  BY <1>5
<1> HIDE DEF h, t
<1>7. ws \in Seq(C) /\ Len(ws) = Len(text) /\ Len(text) \in Nat
  BY <1>2 DEF WordByWord, C
<1>8. InThree(C, cs, h, ws, t)
  BY <1>3, <1>6, <1>7, ThreeInARow
<1>9. Silent(h, 1)
  BY <1>5, <1>6 DEF Silent
<1>10. Silent(t, 2)
  <2>1. \A i \in 1 .. 2 : i = 1 \/ i = 2
    OBVIOUS
  <2>. QED
    BY <1>5, <1>6, <2>1 DEF Silent
<1>11. IsScript(Word, text, 1, 2, cs)
  BY <1>2, <1>8, <1>9, <1>10, AroundIsScript DEF C
<1>12. EndsAsOpenAI(r, cs)
  <2>1. /\ Len(cs) = 1 + Len(text) + 2 /\ cs[1] = c1
        /\ \A i \in 1 .. Len(text) : cs[1 + i] = ws[i]
        /\ cs[1 + Len(text) + 1] = c2 /\ cs[1 + Len(text) + 2] = c3
    <3>1. 1 \in 1 .. 1 /\ 1 \in 1 .. 2 /\ 2 \in 1 .. 2
      OBVIOUS
    <3>. QED
      BY <1>6, <1>7, <1>8, <3>1 DEF InThree
  <2>2. cs[Len(cs)] = c3 /\ cs[Len(cs) - 1] = c2
    BY <1>7, <2>1
  <2>3. ASSUME NEW i \in 1 .. Len(cs) - 1 PROVE cs[i].usage = None
    <3>1. CASE i = 1
      BY <1>5, <2>1, <3>1
    <3>2. CASE i > 1 /\ i <= Len(text) + 1
      <4>1. PICK j \in 1 .. Len(text) : i = 1 + j
        BY <1>7, <3>2
      <4>. QED
        BY <1>2, <2>1, <4>1
    <3>3. CASE i > Len(text) + 1
      <4>1. i = 1 + Len(text) + 1
        BY <1>7, <2>1, <3>3
      <4>. QED
        BY <1>5, <2>1, <4>1
    <3>. QED
      BY <1>7, <2>1, <3>1, <3>2, <3>3
  <2>. QED
    BY <1>5, <2>2, <2>3 DEF EndsAsOpenAI
<1>. QED
  BY <1>11, <1>12 DEF text, cs

\* Anthropic's.
LEMMA AnthropicScript ==
  ASSUME NEW Word, NEW a, NEW r \in Answers(Word, a), A!Vendor(a) = "Anthropic"
  PROVE  /\ IsScript(Word, A!TextOf(r.blocks), 1, 1, A!Script("Anthropic", r))
         /\ EndsAsAnthropic(r, A!Script("Anthropic", r))
<1> DEFINE C == Chunks(Word)
           text == A!TextOf(r.blocks)
           ws == A!Words(r)
           u1 == A!Usage(r.usage.input, None, r.usage.created, r.usage.read)
           u2 == A!Usage(None, r.usage.output, None, None)
           c1 == A!Chunk(<<>>, None, u1)
           c2 == A!Chunk(<<>>, r.finish, u2)
           h == <<c1>>
           t == <<c2>>
           cs == A!Script("Anthropic", r)
<1>1. r.finish \in {"stop", "max_tokens", None} /\ u1 \in Counts /\ u2 \in Counts
  <2>1. 0 \in Nat
    OBVIOUS
  <2> HIDE DEF u1, u2
  <2>. QED
    BY <2>1, AnswerIs DEF u1, u2
<1>2. /\ text \in Seq(Word) /\ WordByWord(Word, text, ws)
      /\ \A i \in 1 .. Len(text) : ws[i].usage = None
  BY WordsAre
<1>3. cs = (h \o ws) \o t
  BY <1>1, Zenon DEF A!Script
<1>4. <<>> \in Seq(Word)
  BY EmptySeq
<1> HIDE DEF u1, u2
<1>5. /\ c1 \in C /\ c1.text = <<>> /\ c1.finish = None /\ c1.usage = u1
      /\ c2 \in C /\ c2.text = <<>> /\ c2.finish = r.finish /\ c2.usage = u2
  <2>1. IsChunk(Word, c1, <<>>, None, u1)
    BY <1>1, <1>4, ChunkIs
  <2>2. IsChunk(Word, c2, <<>>, r.finish, u2)
    BY <1>1, <1>4, ChunkIs
  <2> HIDE DEF c1, c2
  <2>. QED
    BY <2>1, <2>2 DEF IsChunk
<1> HIDE DEF text, ws, c1, c2, C, cs
<1>6. /\ h \in Seq(C) /\ Len(h) = 1 /\ h[1] = c1
      /\ t \in Seq(C) /\ Len(t) = 1 /\ t[1] = c2
  BY <1>5
<1> HIDE DEF h, t
<1>7. ws \in Seq(C) /\ Len(ws) = Len(text) /\ Len(text) \in Nat
  BY <1>2 DEF WordByWord, C
<1>8. InThree(C, cs, h, ws, t)
  BY <1>3, <1>6, <1>7, ThreeInARow
<1>9. Silent(h, 1) /\ Silent(t, 1)
  BY <1>5, <1>6 DEF Silent
<1>11. IsScript(Word, text, 1, 1, cs)
  BY <1>2, <1>8, <1>9, AroundIsScript DEF C
<1>12. EndsAsAnthropic(r, cs)
  <2>1. /\ Len(cs) = 1 + Len(text) + 1 /\ cs[1] = c1
        /\ \A i \in 1 .. Len(text) : cs[1 + i] = ws[i]
        /\ cs[1 + Len(text) + 1] = c2
    <3>1. 1 \in 1 .. 1
      OBVIOUS
    <3>. QED
      BY <1>6, <1>7, <1>8, <3>1 DEF InThree
  <2>2. cs[Len(cs)] = c2
    BY <1>7, <2>1
  <2>3. ASSUME NEW i \in 2 .. Len(cs) - 1 PROVE cs[i].usage = None
    <3>1. PICK j \in 1 .. Len(text) : i = 1 + j
      BY <1>7, <2>1
    <3>. QED
      BY <1>2, <2>1, <3>1
  <2>. QED
    BY <1>5, <2>1, <2>2, <2>3 DEF EndsAsAnthropic, u1, u2
<1>. QED
  BY <1>11, <1>12 DEF text, cs

\* Gemini's.
LEMMA GoogleScript ==
  ASSUME NEW Word, NEW a, NEW r \in Answers(Word, a)
  PROVE  /\ IsScript(Word, A!TextOf(r.blocks), 0, 1, A!Script("Google", r))
         /\ EndsAsGoogle(r, A!Script("Google", r))
<1> DEFINE C == Chunks(Word)
           text == A!TextOf(r.blocks)
           size == Len(text)
           sofar(n) == IF r.usage = None THEN None
                       ELSE A!Usage(r.usage.input, n, r.usage.created, r.usage.read)
           chunk(i) == A!Chunk(A!Words(r)[i].text, None, sofar(i))
           m == [i \in 1 .. Len(A!Words(r)) |-> chunk(i)]
           c1 == A!Chunk(<<>>, r.finish, r.usage)
           t == <<c1>>
           cs == A!Script("Google", r)
<1>1. /\ r.finish \in {"stop", "max_tokens", None} /\ r.usage \in Counts \union {None}
      /\ \A n \in Nat : sofar(n) \in Counts \union {None}
  BY AnswerIs
<1>2. text \in Seq(Word) /\ WordByWord(Word, text, A!Words(r))
  BY WordsAre
<1>3. cs = m \o t
  BY Zenon DEF A!Script
<1>4. c1 \in C /\ c1.text = <<>> /\ c1.finish = r.finish /\ c1.usage = r.usage
  <2>1. IsChunk(Word, c1, <<>>, r.finish, r.usage)
    BY <1>1, EmptySeq, ChunkIs
  <2> HIDE DEF c1
  <2>. QED
    BY <2>1 DEF IsChunk
<1>5. /\ size \in Nat /\ Len(A!Words(r)) = size
      /\ \A i \in 1 .. size : A!Words(r)[i].text = <<text[i]>> /\ <<text[i]>> \in Seq(Word)
  <2>1. size \in Nat /\ \A i \in 1 .. size : text[i] \in Word
    BY <1>2
  <2>2. \A w \in Word : <<w>> \in Seq(Word)
    OBVIOUS
  <2> HIDE DEF text
  <2>. QED
    BY <1>2, <2>1, <2>2 DEF WordByWord
<1>6. ASSUME NEW i \in 1 .. size
      PROVE  /\ chunk(i) \in C /\ chunk(i).text = <<text[i]>> /\ chunk(i).finish = None
             /\ r.usage = None => chunk(i).usage = None
  <2>1. sofar(i) \in Counts \union {None} /\ (r.usage = None => sofar(i) = None)
    BY <1>1, <1>5
  <2> HIDE DEF sofar, text, size
  <2>2. A!Words(r)[i].text = <<text[i]>> /\ <<text[i]>> \in Seq(Word)
    BY <1>5
  <2> DEFINE one == <<text[i]>>
  <2>3. chunk(i) = A!Chunk(one, None, sofar(i))
    BY <2>2
  <2> HIDE DEF one, chunk
  <2>4. IsChunk(Word, chunk(i), one, None, sofar(i))
    BY <2>1, <2>2, <2>3, ChunkIs DEF one
  <2>. QED
    BY <2>1, <2>4 DEF IsChunk, one
<1> HIDE DEF chunk, c1, text, size, C, cs, sofar
<1>7. m \in Seq(C) /\ Len(m) = size /\ \A i \in 1 .. size : m[i] = chunk(i)
  <2>1. m \in [1 .. size -> C]
    BY <1>5, <1>6
  <2>. QED
    BY <1>5, <2>1
<1> HIDE DEF m
<1>8. t \in Seq(C) /\ Len(t) = 1 /\ t[1] = c1
  BY <1>4
<1> HIDE DEF t
<1>9. InThree(C, cs, <<>>, m, t)
  <2>1. <<>> \in Seq(C) /\ <<>> \o m = m
    BY <1>7, EmptySeq, ConcatEmptySeq
  <2>2. InThree(C, (<<>> \o m) \o t, <<>>, m, t)
    BY <1>7, <1>8, <2>1, ThreeInARow
  <2>. QED
    BY <1>3, <2>1, <2>2
<1>10. WordByWord(Word, text, m)
  BY <1>6, <1>7 DEF WordByWord, C, size
<1>11. IsScript(Word, text, 0, 1, cs)
  <2>1. Silent(<<>>, 0)
    BY DEF Silent
  <2>2. Silent(t, 1)
    BY <1>4, <1>8 DEF Silent
  <2>. QED
    BY <1>2, <1>9, <1>10, <2>1, <2>2, AroundIsScript DEF C
<1>12. EndsAsGoogle(r, cs)
  <2>1. /\ Len(cs) = 0 + size + 1
        /\ \A i \in 1 .. size : cs[0 + i] = m[i]
        /\ cs[0 + size + 1] = c1
    <3>1. 1 \in 1 .. 1 /\ Len(<<>>) = 0
      OBVIOUS
    <3>. QED
      BY <1>7, <1>8, <1>9, <3>1 DEF InThree
  <2>2. cs[Len(cs)] = c1
    BY <1>5, <2>1
  <2>3. ASSUME r.usage = None, NEW i \in 1 .. Len(cs) PROVE cs[i].usage = None
    <3>1. CASE i = size + 1
      BY <1>4, <1>5, <2>1, <2>2, <2>3, <3>1
    <3>2. CASE i # size + 1
      <4>1. i \in 1 .. size /\ cs[i] = cs[0 + i]
        BY <1>5, <2>1, <3>2
      <4>. QED
        BY <1>6, <1>7, <2>1, <2>3, <4>1
    <3>. QED
      BY <3>1, <3>2
  <2>. QED
    BY <1>4, <2>2, <2>3 DEF EndsAsGoogle
<1>. QED
  BY <1>11, <1>12 DEF text, cs

-----------------------------------------------------------------------------
(* The promises of the port.                                               *)

\* The first n chunks of a script say the first of the text.
LEMMA ScriptPrefix ==
  ASSUME NEW Word, NEW text \in Seq(Word), NEW off \in Nat, NEW tail \in Nat \ {0},
         NEW cs, IsScript(Word, text, off, tail, cs), NEW n \in 0 .. Len(cs)
  PROVE  /\ SubSeq(cs, 1, n) \in Seq(Chunks(Word)) /\ Len(SubSeq(cs, 1, n)) = n
         /\ Pieces(text, off, SubSeq(cs, 1, n))
         /\ A!IsPrefix(FirstWords(text, off, n), text)
         /\ n = Len(cs) => FirstWords(text, off, n) = text /\ SubSeq(cs, 1, n) = cs
<1> DEFINE part == SubSeq(cs, 1, n)
           size == Len(text)
           m == IF n <= off THEN 0 ELSE IF n - off > size THEN size ELSE n - off
<1>1. cs \in Seq(Chunks(Word)) /\ Len(cs) = off + size + tail /\ Pieces(text, off, cs)
  BY DEF IsScript
<1>2. size \in Nat /\ Len(cs) \in Nat
  BY <1>1
<1>3. part \in Seq(Chunks(Word)) /\ Len(part) = n /\ \A i \in 1 .. n : part[i] = cs[i]
  <2> DEFINE C == Chunks(Word)
  <2>1. cs \in Seq(C)
    BY <1>1
  <2> HIDE DEF C
  <2>2. \A i \in 1 .. n : cs[i] \in C
    BY <1>2, <2>1
  <2>3. /\ SubSeq(cs, 1, n) \in Seq(C)
        /\ Len(SubSeq(cs, 1, n)) = IF 1 <= n THEN n - 1 + 1 ELSE 0
        /\ \A i \in 1 .. n - 1 + 1 : SubSeq(cs, 1, n)[i] = cs[1 + i - 1]
    BY <1>2, <2>2, SubSeqProperties
  <2>4. \A i \in 1 .. n : i \in 1 .. n - 1 + 1 /\ 1 + i - 1 = i
    BY <1>2
  <2>. QED
    BY <1>2, <2>3, <2>4 DEF C
<1> HIDE DEF part
<1>4. Pieces(text, off, part)
  BY <1>1, <1>2, <1>3 DEF Pieces
<1>5. FirstWords(text, off, n) = SubSeq(text, 1, m) /\ m \in 0 .. size
  BY <1>2 DEF FirstWords
<1>6. n = Len(cs) => m = size
  BY <1>1, <1>2
<1> HIDE DEF m, size
<1>7. /\ SubSeq(text, 1, m) \in Seq(Word) /\ Len(SubSeq(text, 1, m)) = m
  <2>1. \A i \in 1 .. m : text[i] \in Word
    BY <1>2, <1>5 DEF size
  <2>2. /\ SubSeq(text, 1, m) \in Seq(Word)
        /\ Len(SubSeq(text, 1, m)) = IF 1 <= m THEN m - 1 + 1 ELSE 0
    BY <1>2, <1>5, <2>1, SubSeqProperties
  <2>. QED
    BY <1>2, <1>5, <2>2
<1>8. A!IsPrefix(FirstWords(text, off, n), text)
  <2> DEFINE s == SubSeq(text, 1, m)
  <2>1. SubSeq(s, 1, m) = s
    BY <1>7, SubSeqFull
  <2> HIDE DEF s
  <2>2. FirstWords(text, off, n) = s /\ s = SubSeq(text, 1, m) /\ Len(s) = m /\ m <= Len(text)
    BY <1>2, <1>5, <1>7 DEF s, size
  <2>. QED
    BY <2>1, <2>2 DEF A!IsPrefix
<1>9. ASSUME n = Len(cs) PROVE FirstWords(text, off, n) = text /\ part = cs
  BY <1>1, <1>5, <1>6, <1>9, SubSeqFull DEF part, size
<1>. QED
  BY <1>3, <1>4, <1>8, <1>9 DEF part

\* What comes before the words of a vendor and after them.
LEMMA ScriptIs ==
  ASSUME NEW Word, NEW a \in A!Injected \union A!Deployed, NEW r \in Answers(Word, a)
  PROVE  \E off \in Nat, tail \in Nat \ {0} :
           IsScript(Word, A!TextOf(r.blocks), off, tail, A!Script(A!Vendor(a), r))
<1>1. A!Vendor(a) \in {"OpenAI", "Anthropic", "Google"}
  BY DEF A!Vendor, A!Injected, A!Deployed
<1>2. CASE A!Vendor(a) = "OpenAI"
  <2>1. IsScript(Word, A!TextOf(r.blocks), 1, 2, A!Script(A!Vendor(a), r))
    BY <1>2, OpenAIScript
  <2>2. 1 \in Nat /\ 2 \in Nat \ {0}
    OBVIOUS
  <2>. QED
    BY <2>1, <2>2
<1>3. CASE A!Vendor(a) = "Anthropic"
  <2>1. IsScript(Word, A!TextOf(r.blocks), 1, 1, A!Script(A!Vendor(a), r))
    BY <1>3, AnthropicScript
  <2>2. 1 \in Nat \ {0}
    OBVIOUS
  <2>. QED
    BY <2>1, <2>2
<1>4. CASE A!Vendor(a) = "Google"
  <2>1. IsScript(Word, A!TextOf(r.blocks), 0, 1, A!Script(A!Vendor(a), r))
    BY <1>4, GoogleScript
  <2>2. 0 \in Nat /\ 1 \in Nat \ {0}
    OBVIOUS
  <2>. QED
    BY <2>1, <2>2
<1>. QED
  BY <1>1, <1>2, <1>3, <1>4

\* A stream that has ended or broken off tells what the vendor said so far.
LEMMA StreamsAreWellFormed ==
  ASSUME NEW Word, NEW a \in A!Injected \union A!Deployed, NEW r \in Answers(Word, a),
         NEW n \in 0 .. Len(A!Script(A!Vendor(a), r))
  PROVE  A!WellFormed(a, r, n)
<1> DEFINE cs == A!Script(A!Vendor(a), r)
           part == SubSeq(cs, 1, n)
           whole == n = Len(cs)
           deltas == A!Stream(a, part, whole)
           fs == A!Streaming(a, r, n)
           text == A!TextOf(r.blocks)
<1>1. text \in Seq(Word)
  BY WordsAre
<1>2. PICK off \in Nat, tail \in Nat \ {0} : IsScript(Word, text, off, tail, cs)
  BY ScriptIs
<1>3. whole \in BOOLEAN
  OBVIOUS
<1>4. fs = A!Frames(deltas, whole)
  BY DEF A!Streaming
<1>5. /\ part \in Seq(Chunks(Word)) /\ Len(part) = n /\ Pieces(text, off, part)
      /\ A!IsPrefix(FirstWords(text, off, n), text)
      /\ n = Len(cs) => FirstWords(text, off, n) = text
  <2> HIDE DEF cs, text
  <2>. QED
    BY <1>1, <1>2, ScriptPrefix DEF cs
<1> HIDE DEF part, text
<1>6. /\ deltas \in Seq(Deltas(Word))
      /\ Heard(Word, deltas) = FirstWords(text, off, n)
  <2> HIDE DEF whole
  <2>1. /\ A!Stream(a, part, whole) \in Seq(Deltas(Word))
        /\ Heard(Word, A!Stream(a, part, whole)) = FirstWords(text, off, Len(part))
    BY <1>1, <1>3, <1>5, StreamTells
  <2>. QED
    BY <1>5, <2>1
<1> HIDE DEF deltas, cs
<1>7. A!Told(fs) = FirstWords(text, off, n)
  <2> HIDE DEF whole
  <2>. QED
    BY <1>3, <1>4, <1>6, HeardIsTold
<1>8. /\ fs[1] = A!RoleFrame /\ A!Typed(fs, "role") = <<A!RoleFrame>>
      /\ A!Typed(fs, "done") = IF whole THEN <<A!DoneFrame>> ELSE <<>>
      /\ whole => A!Last(fs) = A!DoneFrame
  <2> HIDE DEF whole, fs
  <2>. QED
    BY <1>3, <1>4, <1>6, FramesAre
<1> HIDE DEF fs
<1>9. Len(A!Typed(fs, "role")) = 1
  BY <1>8
<1>10. A!Typed(fs, "done") = IF whole THEN <<A!Last(fs)>> ELSE <<>>
  BY <1>8
<1>11. A!IsPrefix(A!Told(fs), text) /\ (whole => A!Told(fs) = text)
  BY <1>5, <1>7
<1>. QED
  BY <1>8, <1>9, <1>10, <1>11, Zenon DEF A!WellFormed, fs, whole, cs, text

\* Anthropic's counts, after an event that carries some or none.
AnthropicCounts(u, v) ==
  IF v = None THEN u
  ELSE IF v.output = None
       THEN A!Usage(v.input, u.output, A!OrElse(v.created, 0), A!OrElse(v.read, 0))
       ELSE [u EXCEPT !.output = v.output]

\* What a step keeps.
LEMMA KeepIs ==
  ASSUME NEW Word, NEW a, NEW k \in KeptRecords(Word), NEW c \in Chunks(Word)
  PROVE  /\ A!Keep(a, k, c).finish = A!OrElse(c.finish, k.finish)
         /\ A!Keep(a, k, c).usage = IF c.usage = None THEN k.usage ELSE A!MapUsage(a, c.usage)
         /\ A!KeepAnthropic(k, c).finish = A!OrElse(c.finish, k.finish)
         /\ A!KeepAnthropic(k, c).usage = AnthropicCounts(k.usage, c.usage)
<1> DEFINE said == k.deltas \o A!Said(c)
           finish == A!OrElse(c.finish, k.finish)
           usage == IF c.usage = None THEN k.usage ELSE A!MapUsage(a, c.usage)
           other == IF c.usage = None THEN k.usage
                    ELSE IF c.usage.output = None
                         THEN A!Usage(c.usage.input, k.usage.output,
                                      A!OrElse(c.usage.created, 0), A!OrElse(c.usage.read, 0))
                         ELSE [k.usage EXCEPT !.output = c.usage.output]
           d == [c EXCEPT !.usage = None]
<1>1. A!Keep(a, k, c) = [deltas |-> said, finish |-> finish, usage |-> usage]
  BY DEF A!Keep
<1>2. d.text = c.text /\ d.finish = c.finish /\ d.usage = None
  BY DEF Chunks
<1>3. A!Said(d) = A!Said(c)
  BY <1>2 DEF A!Said
<1> HIDE DEF d
<1>4. A!Keep("anthropic", k, d) = [deltas |-> said, finish |-> finish, usage |-> k.usage]
  BY <1>2, <1>3 DEF A!Keep
<1>5. A!KeepAnthropic(k, c) = [A!Keep("anthropic", k, d) EXCEPT !.usage = other]
  BY <1>4 DEF A!KeepAnthropic, d
<1> HIDE DEF said, finish, usage, other
<1>6. [A!Keep("anthropic", k, d) EXCEPT !.usage = other]
        = [deltas |-> said, finish |-> finish, usage |-> other]
  BY <1>4
<1>7. /\ A!Keep(a, k, c).finish = finish /\ A!Keep(a, k, c).usage = usage
      /\ A!KeepAnthropic(k, c).finish = finish /\ A!KeepAnthropic(k, c).usage = other
  BY <1>1, <1>5, <1>6
<1>. QED
  BY <1>7 DEF finish, usage, other, AnthropicCounts

\* What no step changes is what it was.
LEMMA Unchanged ==
  ASSUME NEW f, NEW low \in Nat, NEW high \in Nat, low <= high,
         \A n \in (low + 1) .. high : f[n] = f[n - 1]
  PROVE  f[high] = f[low]
<1> DEFINE T == {n \in Nat : low + n <= high => f[low + n] = f[low]}
<1>1. 0 \in T
  OBVIOUS
<1>2. ASSUME NEW n \in T PROVE n + 1 \in T
  <2> SUFFICES ASSUME low + (n + 1) <= high PROVE f[low + (n + 1)] = f[low]
    OBVIOUS
  <2>1. PICK m \in (low + 1) .. high : m = low + (n + 1) /\ m - 1 = low + n
    OBVIOUS
  <2>2. f[m] = f[m - 1]
    OBVIOUS
  <2>3. f[low + n] = f[low]
    BY <2>1
  <2>. QED
    BY <2>1, <2>2, <2>3
<1> HIDE DEF T
<1>3. T = Nat
  BY <1>1, <1>2, SetInduction DEF T
<1>4. high - low \in T /\ low + (high - low) = high
  BY <1>3
<1>. QED
  BY <1>4 DEF T

\* What the adapters of OpenAI and of Gemini keep of a reply.
LEMMA KeptAtTheEnd ==
  ASSUME NEW Word, NEW a \in {"openai", "google"}, NEW r \in Answers(Word, a),
         NEW cs, cs = A!Script(A!Vendor(a), r)
  PROVE  Keeping(a, cs).finish = r.finish /\ Keeping(a, cs).usage = A!MapUsage(a, r.usage)
<1> DEFINE size == Len(cs)
<1>1. /\ r.finish \in {"stop", "max_tokens"} /\ r.finish # None
      /\ r.usage \in Counts \union {None}
  BY AnswerIs
<1>2. PICK off \in Nat, tail \in Nat \ {0} : IsScript(Word, A!TextOf(r.blocks), off, tail, cs)
  <2>1. a \in A!Injected \union A!Deployed
    BY DEF A!Injected
  <2>. QED
    BY <2>1, ScriptIs
<1>3. /\ cs \in Seq(Chunks(Word)) /\ size \in Nat \ {0}
      /\ (a = "openai" => size - 1 \in Nat \ {0})
      /\ \A n \in 1 .. size : cs[n] \in Chunks(Word)
  <2>1. A!TextOf(r.blocks) \in Seq(Word)
    BY WordsAre
  <2>2. a = "openai" => IsScript(Word, A!TextOf(r.blocks), 1, 2, cs)
    BY OpenAIScript DEF A!Vendor
  <2> DEFINE text == A!TextOf(r.blocks)
             C == Chunks(Word)
  <2>3. Len(text) \in Nat
    BY <2>1
  <2> HIDE DEF text, C
  <2>4. cs \in Seq(C) /\ Len(cs) = off + Len(text) + tail
        /\ (a = "openai" => Len(cs) = 1 + Len(text) + 2)
    BY <1>2, <2>2 DEF IsScript, text, C
  <2>5. size \in Nat /\ \A n \in 1 .. size : cs[n] \in C
    BY <2>4
  <2>. QED
    BY <2>3, <2>4, <2>5 DEF C
<1>4. PICK kept : IsKeeping(kept, Word, a, cs)
  BY <1>3, KeepingIsStepwise
<1> HIDE DEF size
<1>5. /\ \A n \in 0 .. size : kept[n] \in KeptRecords(Word)
      /\ kept[0] = A!Kept /\ kept[size] = Keeping(a, cs)
      /\ \A n \in 1 .. size : kept[n] = A!Keep(a, kept[n - 1], cs[n])
  BY <1>4 DEF IsKeeping, size
<1>6. \A n \in 1 .. size :
        /\ kept[n].finish = A!OrElse(cs[n].finish, kept[n - 1].finish)
        /\ kept[n].usage = IF cs[n].usage = None THEN kept[n - 1].usage
                           ELSE A!MapUsage(a, cs[n].usage)
  <2> SUFFICES ASSUME NEW n \in 1 .. size
               PROVE  /\ kept[n].finish = A!OrElse(cs[n].finish, kept[n - 1].finish)
                      /\ kept[n].usage = IF cs[n].usage = None THEN kept[n - 1].usage
                                         ELSE A!MapUsage(a, cs[n].usage)
    OBVIOUS
  <2>1. n - 1 \in 0 .. size
    BY <1>3
  <2>2. kept[n - 1] \in KeptRecords(Word) /\ cs[n] \in Chunks(Word)
    BY <1>3, <1>5, <2>1
  <2>3. kept[n] = A!Keep(a, kept[n - 1], cs[n])
    BY <1>5
  <2>4. /\ A!Keep(a, kept[n - 1], cs[n]).finish = A!OrElse(cs[n].finish, kept[n - 1].finish)
        /\ A!Keep(a, kept[n - 1], cs[n]).usage =
             IF cs[n].usage = None THEN kept[n - 1].usage ELSE A!MapUsage(a, cs[n].usage)
    BY <2>2, KeepIs
  <2>. QED
    BY <2>3, <2>4
<1>7. size \in 1 .. size
  BY <1>3
<1>8. CASE a = "openai"
  <2>1. EndsAsOpenAI(r, cs)
    BY <1>8, OpenAIScript DEF A!Vendor
  <2>2. /\ cs[size].finish = None /\ cs[size].usage = r.usage
        /\ cs[size - 1].finish = r.finish
        /\ \A i \in 1 .. size - 1 : cs[i].usage = None
    BY <2>1 DEF EndsAsOpenAI, size
  <2>3. size - 1 \in 1 .. size
    BY <1>3, <1>8
  <2>4. kept[size].finish = r.finish
    <3>1. kept[size].finish = kept[size - 1].finish
      BY <1>6, <1>7, <2>2 DEF A!OrElse
    <3>2. kept[size - 1].finish = r.finish
      BY <1>1, <1>6, <2>2, <2>3 DEF A!OrElse
    <3>. QED
      BY <3>1, <3>2
  <2>5. kept[size].usage = A!MapUsage(a, r.usage)
    <3>1. CASE r.usage # None
      BY <1>6, <1>7, <2>2, <3>1
    <3>2. CASE r.usage = None
      <4> DEFINE f == [n \in 0 .. size |-> kept[n].usage]
      <4>1. \A n \in 1 .. size : cs[n].usage = None
        <5>1. \A n \in 1 .. size : n = size \/ n \in 1 .. size - 1
          BY <1>3
        <5>. QED
          BY <2>2, <3>2, <5>1
      <4>2. \A n \in (0 + 1) .. size : f[n] = f[n - 1]
        <5>1. \A n \in 1 .. size : n \in 0 .. size /\ n - 1 \in 0 .. size
          BY <1>3
        <5>. QED
          BY <1>6, <4>1, <5>1
      <4>3. f[0] = A!Kept.usage /\ f[size] = kept[size].usage
        BY <1>3, <1>5
      <4> HIDE DEF f
      <4>4. f[size] = f[0]
        <5>1. 0 \in Nat /\ 0 <= size /\ size \in Nat
          BY <1>3
        <5>. QED
          BY <4>2, <5>1, Unchanged
      <4>. QED
        BY <3>2, <4>3, <4>4 DEF A!Kept, A!MapUsage
    <3>. QED
      BY <3>1, <3>2
  <2>. QED
    BY <1>5, <2>4, <2>5
<1>9. CASE a = "google"
  <2>1. EndsAsGoogle(r, cs)
    BY <1>9, GoogleScript DEF A!Vendor
  <2>2. /\ cs[size].finish = r.finish /\ cs[size].usage = r.usage
        /\ r.usage = None => \A i \in 1 .. size : cs[i].usage = None
    BY <2>1 DEF EndsAsGoogle, size
  <2>3. kept[size].finish = r.finish
    BY <1>1, <1>6, <1>7, <2>2 DEF A!OrElse
  <2>4. kept[size].usage = A!MapUsage(a, r.usage)
    <3>1. CASE r.usage # None
      BY <1>6, <1>7, <2>2, <3>1
    <3>2. CASE r.usage = None
      <4> DEFINE f == [n \in 0 .. size |-> kept[n].usage]
      <4>2. \A n \in (0 + 1) .. size : f[n] = f[n - 1]
        <5>1. \A n \in 1 .. size : n \in 0 .. size /\ n - 1 \in 0 .. size
          BY <1>3
        <5>. QED
          BY <1>6, <2>2, <3>2, <5>1
      <4>3. f[0] = A!Kept.usage /\ f[size] = kept[size].usage
        BY <1>3, <1>5
      <4> HIDE DEF f
      <4>4. f[size] = f[0]
        <5>1. 0 \in Nat /\ 0 <= size /\ size \in Nat
          BY <1>3
        <5>. QED
          BY <4>2, <5>1, Unchanged
      <4>. QED
        BY <3>2, <4>3, <4>4 DEF A!Kept, A!MapUsage
    <3>. QED
      BY <3>1, <3>2
  <2>. QED
    BY <1>5, <2>3, <2>4
<1>. QED
  BY <1>8, <1>9

\* What the adapters of Anthropic keep of one.
LEMMA AnthropicKeptAtTheEnd ==
  ASSUME NEW Word, NEW a \in {"anthropic", "anthropic_provider"}, NEW r \in Answers(Word, a),
         NEW cs, cs = A!Script(A!Vendor(a), r)
  PROVE  /\ KeepingAnthropic(cs).finish = r.finish
         /\ KeepingAnthropic(cs).usage = A!MapUsage("anthropic", r.usage)
         /\ r.usage # None /\ KeepingAnthropic(cs).usage \in Counts
<1> DEFINE size == Len(cs)
           u == r.usage
<1>1. A!Vendor(a) = "Anthropic"
  BY DEF A!Vendor
<1>2. /\ r.finish \in {"stop", "max_tokens"} /\ r.finish # None
      /\ u \in FullCounts /\ u # None
      /\ A!Usage(u.input, None, u.created, u.read) \in Counts
      /\ A!Usage(None, u.output, None, None) \in Counts
  <2>1. 0 \in Nat
    OBVIOUS
  <2>. QED
    BY <1>1, <2>1, AnswerIs
<1>3. /\ IsScript(Word, A!TextOf(r.blocks), 1, 1, cs) /\ EndsAsAnthropic(r, cs)
      /\ A!TextOf(r.blocks) \in Seq(Word)
  BY <1>1, AnthropicScript, WordsAre
<1>4. /\ cs \in Seq(Chunks(Word)) /\ size \in Nat /\ size >= 2
      /\ \A n \in 1 .. size : cs[n] \in Chunks(Word)
  <2> DEFINE text == A!TextOf(r.blocks)
             C == Chunks(Word)
  <2>1. Len(text) \in Nat
    BY <1>3
  <2> HIDE DEF text, C
  <2>2. cs \in Seq(C) /\ Len(cs) = 1 + Len(text) + 1
    BY <1>3 DEF IsScript, text, C
  <2>. QED
    BY <2>1, <2>2 DEF C
<1>5. PICK kept : IsKeepingAnthropic(kept, Word, cs)
  BY <1>4, KeepingAnthropicIsStepwise
<1>6. /\ \A n \in 0 .. size : kept[n] \in KeptRecords(Word)
      /\ kept[0] = A!Kept /\ kept[size] = KeepingAnthropic(cs)
      /\ \A n \in 1 .. size : kept[n] = A!KeepAnthropic(kept[n - 1], cs[n])
  BY <1>5 DEF IsKeepingAnthropic
<1>7. /\ cs[size].finish = r.finish
      /\ cs[size].usage = A!Usage(None, u.output, None, None)
      /\ cs[1].usage = A!Usage(u.input, None, u.created, u.read)
      /\ \A i \in 2 .. size - 1 : cs[i].usage = None
  BY <1>3 DEF EndsAsAnthropic
<1> HIDE DEF size, u
<1>8. \A n \in 1 .. size :
        /\ kept[n].finish = A!OrElse(cs[n].finish, kept[n - 1].finish)
        /\ kept[n].usage = AnthropicCounts(kept[n - 1].usage, cs[n].usage)
  <2> SUFFICES ASSUME NEW n \in 1 .. size
               PROVE  /\ kept[n].finish = A!OrElse(cs[n].finish, kept[n - 1].finish)
                      /\ kept[n].usage = AnthropicCounts(kept[n - 1].usage, cs[n].usage)
    OBVIOUS
  <2>1. n - 1 \in 0 .. size
    BY <1>4
  <2>2. kept[n - 1] \in KeptRecords(Word) /\ cs[n] \in Chunks(Word)
    BY <1>4, <1>6, <2>1
  <2>3. kept[n] = A!KeepAnthropic(kept[n - 1], cs[n])
    BY <1>6
  <2>4. /\ A!KeepAnthropic(kept[n - 1], cs[n]).finish = A!OrElse(cs[n].finish, kept[n - 1].finish)
        /\ A!KeepAnthropic(kept[n - 1], cs[n]).usage =
             AnthropicCounts(kept[n - 1].usage, cs[n].usage)
    BY <2>2, KeepIs
  <2>. QED
    BY <2>3, <2>4
<1>9. 1 \in 1 .. size /\ size \in 1 .. size /\ 0 \in 0 .. size /\ 1 - 1 = 0
  BY <1>4
<1>10. kept[size].finish = r.finish
  BY <1>2, <1>7, <1>8, <1>9 DEF A!OrElse
<1> DEFINE created == A!OrElse(u.created, 0)
           read == A!OrElse(u.read, 0)
           before == A!Usage(u.input, 0, created, read)
<1>11. kept[1].usage = before
  <2> DEFINE v == A!Usage(u.input, None, u.created, u.read)
  <2>1. v # None /\ v.output = None /\ v.input = u.input /\ v.created = u.created /\ v.read = u.read
    BY <1>2, ReplyAssumption DEF A!Usage, Counts, Tokens
  <2>2. kept[0].usage.output = 0
    BY <1>6 DEF A!Kept, A!NoUsage, A!Usage
  <2>3. cs[1].usage = v
    BY <1>7
  <2> HIDE DEF v
  <2>4. kept[1].usage = AnthropicCounts(kept[0].usage, v)
    BY <1>8, <1>9, <2>3
  <2>5. AnthropicCounts(kept[0].usage, v) = A!Usage(u.input, 0, created, read)
    BY <2>1, <2>2 DEF AnthropicCounts
  <2>. QED
    BY <2>4, <2>5
<1> HIDE DEF before
<1>12. kept[size - 1].usage = before
  <2> DEFINE f == [n \in 0 .. size |-> kept[n].usage]
             high == size - 1
  <2>1. high \in Nat /\ 1 \in Nat /\ 1 <= high /\ high \in 0 .. size /\ 1 \in 0 .. size
    BY <1>4
  <2>2. \A n \in (1 + 1) .. high : f[n] = f[n - 1]
    <3>1. \A n \in (1 + 1) .. high :
            n \in 0 .. size /\ n - 1 \in 0 .. size /\ n \in 1 .. size /\ n \in 2 .. size - 1
      BY <1>4
    <3>. QED
      BY <1>7, <1>8, <3>1 DEF AnthropicCounts
  <2>3. f[1] = kept[1].usage /\ f[high] = kept[size - 1].usage
    BY <2>1
  <2> HIDE DEF f, high
  <2>4. f[high] = f[1]
    BY <2>1, <2>2, Unchanged
  <2>. QED
    BY <1>11, <2>3, <2>4
<1>13. kept[size].usage = A!MapUsage("anthropic", u)
  <2> DEFINE v == A!Usage(None, u.output, None, None)
  <2>1. u.output \in Nat
    BY <1>2 DEF FullCounts
  <2>2. v # None /\ v.output = u.output /\ v.output # None
    <3>1. v # None
      BY <1>2, ReplyAssumption DEF Counts, Tokens
    <3>2. u.output # None
      BY <2>1, ReplyAssumption
    <3>. QED
      BY <3>1, <3>2 DEF A!Usage
  <2>3. cs[size].usage = v
    BY <1>7
  <2> HIDE DEF v
  <2>7. kept[size].usage = AnthropicCounts(kept[size - 1].usage, v)
    BY <1>8, <1>9, <2>3
  <2>4. kept[size].usage = [kept[size - 1].usage EXCEPT !.output = u.output]
    BY <2>2, <2>7 DEF AnthropicCounts
  <2>5. [before EXCEPT !.output = u.output] = A!Usage(u.input, u.output, created, read)
    BY DEF before, A!Usage
  <2>6. A!MapUsage("anthropic", u) = A!Usage(u.input, u.output, created, read)
    BY <1>2, Zenon DEF A!MapUsage
  <2>. QED
    BY <1>12, <2>4, <2>5, <2>6
<1>14. A!MapUsage("anthropic", u) \in Counts
  <2>1. u \in Counts
    BY <1>2 DEF FullCounts, Counts, Tokens
  <2>. QED
    BY <2>1, MapUsageTyped
<1>. QED
  BY <1>2, <1>6, <1>10, <1>13, <1>14 DEF u

\* What is kept at the end is what the whole reply says.
LEMMA EndIs ==
  ASSUME NEW Word, NEW a \in Keepers, NEW r \in Answers(Word, a),
         NEW cs, cs = A!Script(A!Vendor(a), r)
  PROVE  /\ KeptBy(a, cs).finish = A!Chat(a, r).finish
         /\ EndCounts(a, KeptBy(a, cs)) = A!Chat(a, r).usage
<1>1. A!OrElse(r.finish, "stop") = r.finish /\ r.usage \in FullCounts \union {None}
  BY AnswerIs
<1>2. a # "google_provider"
  BY DEF Keepers
<1>3. A!Chat(a, r).finish = r.finish /\ A!Chat(a, r).usage = A!MapUsage(a, r.usage)
  BY <1>1, <1>2 DEF A!Chat
<1>4. CASE a \in {"openai", "google"}
  <2>1. KeptBy(a, cs) = Keeping(a, cs) /\ EndCounts(a, KeptBy(a, cs)) = KeptBy(a, cs).usage
    BY <1>4 DEF KeptBy, EndCounts
  <2>. QED
    BY <1>3, <1>4, <2>1, KeptAtTheEnd
<1>5. CASE a \in {"anthropic", "anthropic_provider"}
  <2> DEFINE k == KeepingAnthropic(cs)
             u == r.usage
  <2>1. KeptBy(a, cs) = k
    BY <1>5 DEF KeptBy
  <2>2. /\ k.finish = r.finish /\ k.usage = A!MapUsage("anthropic", u)
        /\ u # None /\ k.usage \in Counts
    BY <1>5, AnthropicKeptAtTheEnd
  <2> HIDE DEF k
  <2>3. CASE a = "anthropic"
    <3>1. EndCounts(a, k) = k.usage
      BY <2>3 DEF EndCounts
    <3>. QED
      BY <1>3, <2>1, <2>2, <2>3, <3>1
  <2>4. CASE a = "anthropic_provider"
    <3>1. EndCounts(a, k) = A!MapUsage(a, k.usage)
      BY <2>4 DEF EndCounts
    <3>2. k.usage # None
      BY <2>2, ReplyAssumption DEF Counts, Tokens
    <3>3. k.usage = A!Usage(u.input, u.output, A!OrElse(u.created, 0), A!OrElse(u.read, 0))
      BY <2>2, Zenon DEF A!MapUsage
    <3>4. k.usage.input = u.input /\ k.usage.output = u.output
      BY <3>3 DEF A!Usage
    <3>5. \A v : v # None => A!MapUsage(a, v) = A!Usage(v.input, v.output, 0, 0)
      BY <2>4 DEF A!MapUsage
    <3>. QED
      BY <1>3, <2>1, <2>2, <3>1, <3>2, <3>4, <3>5
  <2>. QED
    BY <1>5, <2>3, <2>4
<1>. QED
  BY <1>4, <1>5 DEF Keepers

\* Frames with one final chunk, the last but one.
EndsWith(fs, finish, usage) ==
  /\ Len(A!Typed(fs, "final")) = 1
  /\ fs[Len(fs) - 1].type = "final" /\ fs[Len(fs) - 1].finish = finish
  /\ fs[Len(fs) - 1].usage = A!CompletionUsage(usage)

\* A stream of texts with one terminal delta behind them ends once, as it says.
LEMMA TerminalEnds ==
  ASSUME NEW Word, NEW deltas \in Seq(Texts(Word)), NEW finish \in Reasons, NEW usage \in Counts
  PROVE  EndsWith(A!Frames(deltas \o <<A!Terminal(finish, usage)>>, TRUE), finish, usage)
<1> DEFINE end == A!Terminal(finish, usage)
           all == deltas \o <<end>>
           size == Len(deltas)
           F == FramesOf(Word)
           K == Kind(Word, "final")
           f == A!Frame(end)
           X == Texts(Word)
           one == <<f>>
           fs == A!Frames(all, TRUE)
<1>1. finish # None /\ usage # None
  BY ReplyAssumption DEF Reasons, Counts, Tokens
<1>2. deltas \in Seq(Deltas(Word)) /\ size \in Nat /\ \A i \in 1 .. size : deltas[i] \in X
  <2>1. X \subseteq Deltas(Word)
    BY DEF Texts
  <2>2. deltas \in Seq(X) /\ Len(deltas) = size
    OBVIOUS
  <2> HIDE DEF X, size
  <2>3. size \in Nat /\ \A i \in 1 .. size : deltas[i] \in X
    BY <2>2
  <2>. QED
    BY <2>1, <2>2, <2>3, SeqMonotonic
<1>3. end \in Deltas(Word) /\ end.finish = finish /\ end.usage = usage
  <2>1. end \in Deltas(Word)
    BY <1>1, <1>2, HeardTerminal
  <2>. QED
    BY <2>1 DEF A!Terminal
<1>4. /\ f \in F /\ f.type = "final" /\ f.finish = finish /\ f.usage = A!CompletionUsage(usage)
  <2> HIDE DEF end
  <2>1. f \in F /\ f.type = "final"
    BY <1>1, <1>3, FrameIs
  <2>2. f = [type |-> "final", finish |-> A!OrElse(end.finish, "stop"),
             usage |-> IF end.usage = None THEN None ELSE A!CompletionUsage(end.usage)]
    BY <1>1, <1>3 DEF A!Frame
  <2>3. A!OrElse(finish, "stop") = finish
    BY <1>1 DEF A!OrElse
  <2>. QED
    BY <1>1, <1>3, <2>1, <2>2, <2>3
<1> HIDE DEF end, X
<1>5. /\ Shown(deltas) \in Seq(F) /\ Shown(all) = Shown(deltas) \o <<f>>
      /\ all \in Seq(Deltas(Word))
  BY <1>2, <1>3, ShownOneMore
<1>6. Len(all) = size + 1 /\ all[size + 1] = end
  <2> DEFINE D == Deltas(Word)
  <2>1. deltas \in Seq(D) /\ end \in D
    BY <1>2, <1>3
  <2> HIDE DEF D
  <2>. QED
    BY <2>1
<1>14. one \in Seq(F) /\ one = <<f>> /\ Len(one) = 1
  <2> HIDE DEF F, f
  <2>. QED
    BY <1>4
<1> HIDE DEF all, f, F, K, one, size
<1>8. /\ A!Typed(fs, "final") = A!Among(Shown(all), K)
      /\ Len(fs) = 1 + Len(all) + 1
      /\ \A i \in 1 .. Len(all) : fs[1 + i] = A!Frame(all[i])
  <2>1. TRUE \in BOOLEAN /\ fs = A!Frames(all, TRUE)
    OBVIOUS
  <2> HIDE DEF fs
  <2>. QED
    BY <1>5, <2>1, FramesAre DEF K
<1> HIDE DEF fs
<1>9. A!Among(Shown(all), K) = A!Among(Shown(deltas), K) \o A!Among(one, K)
  <2>1. Shown(all) = Shown(deltas) \o one
    BY <1>5, <1>14
  <2>2. A!Among(Shown(deltas) \o one, K) = A!Among(Shown(deltas), K) \o A!Among(one, K)
    <3> DEFINE shown == Shown(deltas)
    <3>1. shown \in Seq(F)
      BY <1>5
    <3> HIDE DEF shown
    <3>2. InTwo(F, shown \o one, shown, one)
      BY <1>14, <3>1, InARow
    <3>. QED
      BY <3>2 DEF InTwo, shown
  <2>. QED
    BY <2>1, <2>2
<1>10. A!Among(Shown(deltas), K) = <<>>
  <2>1. Len(Shown(deltas)) = size /\ \A i \in 1 .. size : Shown(deltas)[i] = A!Frame(deltas[i])
    BY <1>2 DEF Shown, size
  <2>2. ASSUME NEW i \in 1 .. size PROVE A!Frame(deltas[i]) \notin K
    <3> DEFINE d == deltas[i]
    <3>1. d \in Deltas(Word) /\ d.finish = None /\ d.usage = None
      BY <1>2 DEF Texts, X
    <3> HIDE DEF d
    <3>2. A!Frame(d).type = "content"
      BY <3>1, FrameIs
    <3>. QED
      BY <3>2 DEF Kind, K, d
  <2>. QED
    BY <1>5, <2>1, <2>2, AmongAllOrNone
<1>11. A!Among(one, K) = one
  <2>1. f \in K
    BY <1>4 DEF Kind, K, F
  <2>. QED
    BY <1>14, <2>1, AmongFew
<1>12. Len(A!Typed(fs, "final")) = 1
  <2>1. <<>> \o one = one
    BY <1>14, ConcatEmptySeq
  <2>. QED
    BY <1>8, <1>9, <1>10, <1>11, <1>14, <2>1
<1>13. fs[Len(fs) - 1] = f
  <2>1. fs[1 + (size + 1)] = A!Frame(all[size + 1])
    BY <1>2, <1>6, <1>8
  <2>2. Len(fs) - 1 = 1 + (size + 1)
    BY <1>2, <1>6, <1>8
  <2>. QED
    BY <1>6, <2>1, <2>2 DEF f
<1>. QED
  BY <1>4, <1>12, <1>13 DEF EndsWith, fs, all, end

\* The stream of a whole reply ends once, as the whole answer does.
LEMMA EndsAgree ==
  ASSUME NEW Word, NEW a \in Keepers, NEW r \in Answers(Word, a)
  PROVE  A!EndsOnce(a, r) /\ A!EndsLikeChat(a, r)
<1> DEFINE cs == A!Script(A!Vendor(a), r)
           size == Len(cs)
           fs == A!Streaming(a, r, size)
           k == KeptBy(a, cs)
           usage == EndCounts(a, k)
           text == A!TextOf(r.blocks)
           answer == A!ToResponse(A!Chat(a, r))
<1>1. a \in A!Injected \union A!Deployed
  BY DEF Keepers, A!Injected, A!Deployed
<1>2. text \in Seq(Word)
  BY WordsAre
<1>3. PICK off \in Nat, tail \in Nat \ {0} : IsScript(Word, text, off, tail, cs)
  BY <1>1, ScriptIs
<1>4. cs \in Seq(Chunks(Word)) /\ Pieces(text, off, cs)
  BY <1>3 DEF IsScript
<1>5. size \in Nat /\ SubSeq(cs, 1, size) = cs
  BY <1>4, SubSeqFull
<1>6. k.finish = A!Chat(a, r).finish /\ usage = A!Chat(a, r).usage
  BY EndIs
<1> HIDE DEF cs, text
<1>7. k \in KeptRecords(Word) /\ k.deltas \in Seq(Texts(Word))
  BY <1>2, <1>4, KeptIs
<1>8. A!Stream(a, cs, TRUE) = k.deltas \o <<A!Terminal(k.finish, usage)>>
  <2>1. TRUE \in BOOLEAN
    OBVIOUS
  <2>2. A!Stream(a, cs, TRUE) = k.deltas \o (IF TRUE THEN <<A!Terminal(k.finish, usage)>> ELSE <<>>)
    BY <2>1, KeepersStream
  <2>. QED
    BY <2>2
<1> HIDE DEF k, size
<1>9. k.finish \in Reasons /\ k.usage \in Counts
  BY <1>7 DEF KeptRecords
<1>10. usage \in Counts
  BY <1>9, MapUsageTyped DEF EndCounts
<1> HIDE DEF usage
<1>11. fs = A!Frames(k.deltas \o <<A!Terminal(k.finish, usage)>>, TRUE)
  <2>1. fs = A!Frames(A!Stream(a, SubSeq(cs, 1, size), size = Len(cs)), size = Len(cs))
    BY DEF A!Streaming, cs
  <2>2. (size = Len(cs)) = TRUE
    BY DEF size
  <2>. QED
    BY <1>5, <1>8, <2>1, <2>2
<1> HIDE DEF fs
<1>12. /\ Len(A!Typed(fs, "final")) = 1
       /\ fs[Len(fs) - 1].type = "final" /\ fs[Len(fs) - 1].finish = k.finish
       /\ fs[Len(fs) - 1].usage = A!CompletionUsage(usage)
  <2>1. EndsWith(fs, k.finish, usage)
    BY <1>7, <1>9, <1>10, <1>11, TerminalEnds
  <2>. QED
    BY <2>1 DEF EndsWith
<1>13. A!EndsOnce(a, r)
  BY <1>12 DEF A!EndsOnce, fs, size, cs
<1>14. answer.finish = k.finish /\ answer.usage = A!CompletionUsage(usage)
  BY <1>6 DEF A!ToResponse
<1> HIDE DEF answer
<1>15. A!EndsLikeChat(a, r)
  BY <1>12, <1>14 DEF A!EndsLikeChat, fs, size, cs, answer
<1>. QED
  BY <1>13, <1>15

-----------------------------------------------------------------------------
(* The mock.                                                               *)

\* What is said to the mock.
Speech(Word) == Seq([role : Roles, content : Seq(Word)])

\* How a message counts.
Counting(n, m) == n + A!CountTokens(m.content)

\* The counts of the messages, one after the other.
CountAll(ms) == A!FoldLeft(LAMBDA n, m : n + A!CountTokens(m.content), 0, ms)

\* A text of the mock is counted in words, at least one.
LEMMA CountIs ==
  ASSUME NEW Word, NEW text \in Seq(Word)
  PROVE  A!CountTokens(text) \in Nat
<1> DEFINE size == Len(A!Split(text))
           S == {1, size}
<1>1. size \in Nat
  <2>1. A!Split(text) \in Seq(Word \intersect (A!ToSet(text) \ {A!Space}))
    BY AmongTyped DEF A!Split
  <2> DEFINE E == Word \intersect (A!ToSet(text) \ {A!Space})
  <2> HIDE DEF E
  <2>. QED
    BY <2>1 DEF E
<1> HIDE DEF size
<1>2. \E x \in S : \A y \in S : x >= y
  BY <1>1
<1>3. A!Max(S) \in S
  BY <1>2 DEF A!Max
<1>4. A!CountTokens(text) = A!Max(S)
  BY DEF A!CountTokens, size
<1>. QED
  BY <1>1, <1>3, <1>4

\* so holds the count of the first messages.
IsCounting(so, ms) ==
  /\ so \in [0 .. Len(ms) -> Nat]
  /\ so[0] = 0 /\ so[Len(ms)] = CountAll(ms)
  /\ \A n \in 1 .. Len(ms) :
       so[n] = Counting(so[n - 1], ms[n])

\* The messages are counted one by one.
LEMMA CountingIsStepwise ==
  ASSUME NEW Word, NEW ms \in Speech(Word)
  PROVE  \E so : IsCounting(so, ms)
<1> DEFINE Acc == Nat
           first == 0
           last == Len(ms)
           Pick(k, x) == Counting(k, x)
           step == [n \in 1 .. last |-> [k \in Acc |-> Pick(k, ms[n])]]
           Is(f) == f = [u \in SUBSET (DOMAIN ms) |->
                           IF u = {} THEN first ELSE Pick(f[u \ {Max(u)}], ms[Max(u)])]
           g == CHOOSE f : Is(f)
<1>1. /\ last \in Nat /\ DOMAIN ms = 1 .. last /\ \A n \in 1 .. last : ms[n] \in [role : Roles, content : Seq(Word)]
      /\ first \in Acc
  <2> DEFINE Msg == [role : Roles, content : Seq(Word)]
  <2>1. ms \in Seq(Msg)
    BY DEF Speech
  <2> HIDE DEF Msg
  <2>2. last \in Nat /\ DOMAIN ms = 1 .. last /\ \A n \in 1 .. last : ms[n] \in Msg
    BY <2>1
  <2>. QED
    BY <2>2 DEF Msg
<1>2. CountAll(ms) = g[DOMAIN ms]
  BY DEF CountAll, Counting, A!FoldLeft, A!MapThenFoldSet, A!Max, Max
<1> HIDE DEF last, first
<1>3. ASSUME NEW n \in 1 .. last, NEW k \in Acc PROVE Pick(k, ms[n]) \in Acc
  <2>1. ms[n] \in [role : Roles, content : Seq(Word)]
    BY <1>1
  <2>2. ms[n].content \in Seq(Word)
    BY <2>1
  <2>3. A!CountTokens(ms[n].content) \in Nat
    BY <2>2, CountIs
  <2>. QED
    BY <2>3 DEF Counting
<1>4. step \in [1 .. last -> [Acc -> Acc]]
  <2> HIDE DEF Acc, Pick
  <2>. QED
    BY <1>3
<1> HIDE DEF Acc, Pick
<1>5. PICK f : IsFoldIn(Acc, f, step, last, first)
  <2> HIDE DEF step
  <2>. QED
    BY <1>1, <1>4, FoldExists
<1>6. Is(f)
  <2>1. f = [u \in SUBSET (1 .. last) |-> IF u = {} THEN first ELSE step[Max(u)][f[u \ {Max(u)}]]]
    BY <1>5 DEF IsFoldIn, IsFold
  <2>2. ASSUME NEW u \in SUBSET (1 .. last), u # {}
        PROVE  step[Max(u)][f[u \ {Max(u)}]] = Pick(f[u \ {Max(u)}], ms[Max(u)])
    <3>1. f[u \ {Max(u)}] \in Acc /\ Max(u) \in 1 .. last
      BY <1>1, <1>5, <2>2, MaxIsIn DEF IsFoldIn
    <3>. QED
      BY <3>1
  <2> HIDE DEF step
  <2>. QED
    BY <1>1, <2>1, <2>2
<1>7. Is(g)
  <2> HIDE DEF Is
  <2>. QED
    BY <1>6, Zenon
<1> HIDE DEF g
<1>8. \A u \in SUBSET (1 .. last) : g[u] = IF u = {} THEN first ELSE Pick(g[u \ {Max(u)}], ms[Max(u)])
  BY <1>1, <1>7
<1>9. \A n \in 1 .. last, k \in Acc : step[n][k] = Pick(k, ms[n])
  OBVIOUS
<1> HIDE DEF Is, step
<1>10. PICK run \in [0 .. last -> Acc] :
         /\ run[0] = first /\ run[last] = g[1 .. last]
         /\ \A n \in 1 .. last : run[n] = step[n][run[n - 1]]
  <2>1. Accumulates(Acc, g, step, last)
    BY <1>1, <1>8, <1>9, MaxIsIn DEF Accumulates
  <2>2. g[{}] = first
    BY <1>8
  <2>3. Runs(Acc, g, step, first, last)
    BY <1>1, <1>4, <2>1, <2>2, FoldRuns
  <2>. QED
    BY <2>3 DEF Runs
<1>11. ASSUME NEW n \in 1 .. last PROVE run[n] = Pick(run[n - 1], ms[n])
  <2>1. n - 1 \in 0 .. last
    BY <1>1
  <2>. QED
    BY <1>9, <1>10, <2>1
<1>12. run[last] = CountAll(ms)
  BY <1>1, <1>2, <1>10
<1>. QED
  BY <1>10, <1>11, <1>12 DEF IsCounting, last, first, Acc, Pick

\* What the mock says is made of words, and counted.
LEMMA ReplyIs ==
  ASSUME NEW Word, {"[mock]", "echo:", A!Space} \subseteq Word, NEW ms \in Speech(Word)
  PROVE  A!Reply(ms) \in Seq(Word) /\ A!MockUsage(ms) \in Counts /\ CountAll(ms) \in Nat
<1> DEFINE Msg == [role : Roles, content : Seq(Word)]
           before == <<"[mock]", A!Space, "echo:", A!Space>>
           last == IF ms = <<>> THEN <<>> ELSE A!Last(ms).content
<1>1. \A m \in Msg : m.content \in Seq(Word)
  OBVIOUS
<1>2. ms \in Seq(Msg)
  BY DEF Speech
<1> HIDE DEF Msg
<1>3. last \in Seq(Word)
  <2>1. CASE ms = <<>>
    BY <2>1, EmptySeq
  <2>2. CASE ms # <<>>
    <3>1. A!Last(ms) \in Msg
      BY <1>2, <2>2 DEF A!Last
    <3>. QED
      BY <1>1, <2>2, <3>1
  <2>. QED
    BY <2>1, <2>2
<1>4. before \in Seq(Word)
  <2> DEFINE s == A!Space
  <2>1. "[mock]" \in Word /\ "echo:" \in Word /\ s \in Word
    OBVIOUS
  <2> HIDE DEF s
  <2>2. <<"[mock]", s, "echo:", s>> \in Seq(Word)
    BY <2>1
  <2>. QED
    BY <2>2 DEF s
<1> HIDE DEF before, last
<1>5. A!Reply(ms) \in Seq(Word)
  <2>1. A!Reply(ms) = before \o last
    BY DEF A!Reply, before, last
  <2>. QED
    BY <1>3, <1>4, <2>1, ConcatProperties
<1>6. PICK so : IsCounting(so, ms)
  BY CountingIsStepwise
<1>7. CountAll(ms) \in Nat
  <2>1. Len(ms) \in Nat
    BY <1>2
  <2>. QED
    BY <1>6, <2>1 DEF IsCounting
<1>8. A!CountTokens(A!Reply(ms)) \in Nat
  BY <1>5, CountIs
<1>9. A!MockUsage(ms) \in Counts
  <2>1. A!MockUsage(ms) = A!Usage(CountAll(ms), A!CountTokens(A!Reply(ms)), 0, 0)
    BY DEF A!MockUsage, CountAll
  <2>2. \A m, n \in Nat : A!Usage(m, n, 0, 0) \in Counts
    BY DEF A!Usage, Counts, Tokens
  <2>. QED
    BY <1>7, <1>8, <2>1, <2>2
<1>. QED
  BY <1>5, <1>7, <1>9

\* The first n deltas of the mock's stream of these words.
Says(ws, n) ==
  [i \in 1 .. n |-> A!Content(IF i = 1 THEN <<ws[i]>> ELSE <<A!Space, ws[i]>>)]

\* They are texts, and the words in them are these words.
LEMMA MockSays ==
  ASSUME NEW Word, A!Space \in Word, NEW ws \in Seq(Word \ {A!Space}), NEW n \in 0 .. Len(ws)
  PROVE  /\ Says(ws, n) \in Seq(Texts(Word)) /\ Says(ws, n) \in Seq(Deltas(Word))
         /\ Heard(Word, Says(ws, n)) \in Seq(Word)
         /\ A!Among(Heard(Word, Says(ws, n)), Word \ {A!Space}) = SubSeq(ws, 1, n)
<1> DEFINE S == Word \ {A!Space}
           size == Len(ws)
           content(i) == IF i = 1 THEN <<ws[i]>> ELSE <<A!Space, ws[i]>>
           delta(i) == A!Content(content(i))
<1>1. size \in Nat /\ \A i \in 1 .. size : ws[i] \in S
  OBVIOUS
<1>2. ASSUME NEW i \in 1 .. size
      PROVE  content(i) \in Seq(Word) /\ A!Among(content(i), S) = <<ws[i]>>
  <2> DEFINE w == ws[i]
             s == A!Space
             one == <<w>>
             other == <<s>>
  <2>1. w \in Word /\ w \in S /\ s \in Word /\ s \notin S
    BY <1>1
  <2>8. <<s, w>> = other \o one
    <3> HIDE DEF s, w
    <3>. QED
      OBVIOUS
  <2>2. content(i) = IF i = 1 THEN one ELSE other \o one
    BY <2>8
  <2> HIDE DEF w, s, content, S
  <2>3. one \in Seq(Word) /\ other \in Seq(Word)
    BY <2>1
  <2>4. A!Among(one, S) = one /\ A!Among(other, S) = <<>>
    BY <2>1, AmongFew
  <2> HIDE DEF one, other
  <2>5. InTwo(Word, other \o one, other, one)
    BY <2>3, InARow
  <2>6. <<>> \o one = one
    BY <2>3, ConcatEmptySeq
  <2>7. A!Among(other \o one, S) = one /\ other \o one \in Seq(Word)
    BY <2>4, <2>5, <2>6 DEF InTwo
  <2>. QED
    BY <2>2, <2>3, <2>4, <2>7 DEF one, w
<1> HIDE DEF content
<1>3. ASSUME NEW i \in 1 .. size
      PROVE  /\ delta(i) \in Texts(Word) /\ delta(i) \in Deltas(Word)
             /\ delta(i).finish = None /\ delta(i).usage = None /\ delta(i).content = content(i)
  BY <1>2 DEF A!Content, Texts, Deltas
<1> HIDE DEF delta
<1>4. \A m \in 0 .. size : Says(ws, m) = [i \in 1 .. m |-> delta(i)]
  BY DEF Says, delta, content
<1>5. ASSUME NEW m \in 0 .. size
      PROVE  Says(ws, m) \in Seq(Texts(Word)) /\ Says(ws, m) \in Seq(Deltas(Word))
  <2> DEFINE X == Texts(Word)
             D == Deltas(Word)
  <2>1. \A i \in 1 .. m : delta(i) \in X /\ delta(i) \in D
    BY <1>1, <1>3
  <2> HIDE DEF X, D
  <2>2. [i \in 1 .. m |-> delta(i)] \in [1 .. m -> X] /\ [i \in 1 .. m |-> delta(i)] \in [1 .. m -> D]
    BY <2>1
  <2>3. Says(ws, m) \in Seq(X) /\ Says(ws, m) \in Seq(D)
    BY <1>1, <1>4, <2>2
  <2>. QED
    BY <2>3 DEF X, D
<1>6. ASSUME NEW m \in 1 .. size
      PROVE  Says(ws, m) = Says(ws, m - 1) \o <<delta(m)>>
  <2> DEFINE D == Deltas(Word)
             r == Says(ws, m - 1)
             s == Says(ws, m)
             one == <<delta(m)>>
  <2>1. m - 1 \in 0 .. size /\ m \in 0 .. size /\ m \in Nat
    BY <1>1
  <2>2. r \in Seq(D) /\ s \in Seq(D) /\ delta(m) \in D
    BY <1>3, <1>5, <2>1
  <2>3. r = [i \in 1 .. m - 1 |-> delta(i)] /\ s = [i \in 1 .. m |-> delta(i)]
    BY <1>4, <2>1
  <2> HIDE DEF D, r, s
  <2>4. one \in Seq(D) /\ Len(one) = 1 /\ one[1] = delta(m)
    BY <2>2
  <2> HIDE DEF one
  <2>5. Len(r) = m - 1 /\ Len(s) = m
    BY <2>1, <2>2, <2>3
  <2>6. /\ r \o one \in Seq(D) /\ Len(r \o one) = Len(r) + Len(one)
        /\ \A i \in 1 .. Len(r) + Len(one) :
             (r \o one)[i] = IF i <= Len(r) THEN r[i] ELSE one[i - Len(r)]
    BY <2>2, <2>4, ConcatProperties
  <2>7. ASSUME NEW i \in 1 .. Len(s) PROVE s[i] = (r \o one)[i]
    BY <2>1, <2>3, <2>4, <2>5, <2>6, <2>7
  <2>8. s = r \o one
    BY <2>1, <2>2, <2>4, <2>5, <2>6, <2>7, SeqEqual
  <2>. QED
    BY <2>8 DEF s, r, one
<1> DEFINE heard(m) == Heard(Word, Says(ws, m))
           Right(m) == heard(m) \in Seq(Word) /\ A!Among(heard(m), S) = SubSeq(ws, 1, m)
           T == {m \in Nat : m <= size => Right(m)}
<1>7. Right(0)
  <2>1. Says(ws, 0) = <<>>
    BY DEF Says
  <2>2. heard(0) = <<>>
    BY <2>1, HeardOfNone
  <2>3. SubSeq(ws, 1, 0) = <<>>
    BY SubSeqEmpty
  <2>4. A!Among(<<>>, S) = <<>> /\ <<>> \in Seq(Word)
    BY AmongFew, EmptySeq
  <2>. QED
    BY <2>2, <2>3, <2>4
<1>8. ASSUME NEW m \in Nat, m + 1 <= size, Right(m) PROVE Right(m + 1)
  <2>1. PICK k \in 1 .. size : k = m + 1 /\ k - 1 = m /\ m \in 0 .. size
    BY <1>1, <1>8
  <2> DEFINE d == delta(k)
             r == Says(ws, m)
             h == heard(m)
             c == content(k)
  <2>2. r \in Seq(Deltas(Word)) /\ d \in Deltas(Word)
    BY <1>3, <1>5, <2>1
  <2>3. d.finish = None /\ d.usage = None /\ d.content = c
    BY <1>3
  <2>4. Says(ws, k) = r \o <<d>>
    BY <1>6, <2>1
  <2>5. h \in Seq(Word) /\ A!Among(h, S) = SubSeq(ws, 1, m) /\ h = Heard(Word, r)
    BY <1>8
  <2>6. c \in Seq(Word) /\ A!Among(c, S) = <<ws[k]>>
    BY <1>2
  <2> HIDE DEF r, d, c, h
  <2>7. heard(k) = h \o c
    BY <2>2, <2>3, <2>4, <2>5, HeardOneMore
  <2> HIDE DEF heard, S
  <2>8. InTwo(Word, h \o c, h, c)
    BY <2>5, <2>6, InARow
  <2>9. heard(k) \in Seq(Word) /\ A!Among(heard(k), S) = SubSeq(ws, 1, m) \o <<ws[k]>>
    BY <2>5, <2>6, <2>7, <2>8 DEF InTwo
  <2>10. SubSeq(ws, 1, k) = SubSeq(ws, 1, k - 1) \o <<ws[k]>>
    <3>1. 1 \in 1 .. size /\ k \in 1 .. size /\ ws \in Seq(S)
      BY <1>1, <2>1 DEF S
    <3>. QED
      BY <3>1, SubSeqRecursiveSecond
  <2>. QED
    BY <2>1, <2>9, <2>10
<1>9. Right(n)
  <2> HIDE DEF Right
  <2>1. 0 \in T /\ \A m \in T : m + 1 \in T
    BY <1>1, <1>7, <1>8
  <2> HIDE DEF T
  <2>2. T = Nat
    BY <2>1, SetInduction DEF T
  <2>. QED
    BY <1>1, <2>2 DEF T
<1>. QED
  BY <1>5, <1>9

\* The mock says the same words either way, and counts them the same.
LEMMA MockAnswersAgree ==
  ASSUME NEW Word, {"[mock]", "echo:", A!Space} \subseteq Word, NEW ms \in Speech(Word)
  PROVE  A!MockAgrees(ms)
<1> DEFINE S == Word \ {A!Space}
           reply == A!Reply(ms)
           ws == A!Split(reply)
           usage == A!MockUsage(ms)
           said == Says(ws, Len(ws))
           deltas == A!MockStream(ms)
           fs == A!Frames(deltas, TRUE)
           answer == A!ToResponse(A!MockChat(ms))
<1>1. reply \in Seq(Word) /\ usage \in Counts
  BY ReplyIs
<1> HIDE DEF reply, usage
<1>2. ASSUME NEW text \in Seq(Word) PROVE A!Split(text) = A!Among(text, S) /\ A!Split(text) \in Seq(S)
  <2> DEFINE U == A!ToSet(text) \ {A!Space}
  <2>1. \A i \in 1 .. Len(text) : text[i] \in U <=> text[i] \in S
    <3>1. DOMAIN text = 1 .. Len(text) /\ \A i \in 1 .. Len(text) : text[i] \in Word
      OBVIOUS
    <3>. QED
      BY <3>1 DEF A!ToSet
  <2>2. A!Split(text) = A!Among(text, U)
    BY DEF A!Split
  <2> HIDE DEF U
  <2>3. A!Split(text) = A!Among(text, S)
    <3> HIDE DEF S
    <3>. QED
      BY <2>1, <2>2, AmongSame
  <2>4. A!Among(text, S) \in Seq(Word \intersect S)
    BY AmongTyped
  <2>5. Word \intersect S = S
    OBVIOUS
  <2>. QED
    BY <2>3, <2>4, <2>5
<1>3. ws \in Seq(S) /\ Len(ws) \in Nat
  <2>1. ws \in Seq(S)
    BY <1>1, <1>2
  <2> HIDE DEF S, ws
  <2>. QED
    BY <2>1
<1> HIDE DEF ws
<1>4. /\ said \in Seq(Texts(Word)) /\ said \in Seq(Deltas(Word))
      /\ Heard(Word, said) \in Seq(Word)
      /\ A!Among(Heard(Word, said), S) = ws
  <2>1. Len(ws) \in 0 .. Len(ws)
    BY <1>3
  <2>2. SubSeq(ws, 1, Len(ws)) = ws
    BY <1>3, SubSeqFull
  <2>. QED
    BY <1>3, <2>1, <2>2, MockSays
<1>5. deltas = said \o <<A!Terminal("stop", usage)>>
  BY DEF A!MockStream, Says, ws, reply, usage
<1> HIDE DEF said, deltas
<1>6. "stop" \in Reasons /\ "stop" # None
  BY ReplyAssumption DEF Reasons
<1>7. /\ deltas \in Seq(Deltas(Word)) /\ Heard(Word, deltas) = Heard(Word, said)
  BY <1>1, <1>4, <1>5, <1>6, HeardTerminal
<1>8. A!Told(fs) = Heard(Word, said)
  <2>1. TRUE \in BOOLEAN
    OBVIOUS
  <2>2. A!Told(A!Frames(deltas, TRUE)) = Heard(Word, deltas)
    BY <1>7, <2>1, HeardIsTold
  <2>. QED
    BY <1>7, <2>2
<1>9. EndsWith(fs, "stop", usage)
  BY <1>1, <1>4, <1>5, <1>6, TerminalEnds
<1>10. answer.content = reply /\ answer.usage = A!CompletionUsage(usage)
  BY DEF A!ToResponse, A!MockChat, reply, usage
<1> HIDE DEF fs, answer
<1>11. A!Split(A!Told(fs)) = A!Split(answer.content)
  BY <1>2, <1>4, <1>8, <1>10 DEF ws
<1>12. Len(A!Typed(fs, "final")) = 1 /\ fs[Len(fs) - 1].usage = answer.usage
  BY <1>9, <1>10 DEF EndsWith
<1>. QED
  BY <1>11, <1>12 DEF A!MockAgrees, fs, deltas, answer

-----------------------------------------------------------------------------
(* The inputs.                                                             *)

\* The conversations.
LEMMA DialogueIs ==
  ASSUME InputInv, subject = "messages"
  PROVE  Dialogue \in MessagesOf(Seq(Nat))
<1> DEFINE Msg == [role : Roles, content : Seq(Nat)]
           message(i) == [role |-> input[i], content |-> <<i>>]
           size == Len(input)
<1>1. input \in Seq(Roles)
  BY DEF InputInv, Alphabet, Roles
<1>2. size \in Nat /\ DOMAIN input = 1 .. size /\ \A i \in 1 .. size : input[i] \in Roles
  <2> HIDE DEF size
  <2>. QED
    BY <1>1 DEF size
<1>3. ASSUME NEW i \in 1 .. size PROVE message(i) \in Msg
  <2>1. i \in Nat
    BY <1>2
  <2>2. <<i>> \in Seq(Nat)
    BY <2>1
  <2>. QED
    BY <1>2, <2>2
<1>4. Dialogue = [i \in 1 .. size |-> message(i)]
  BY <1>2 DEF Dialogue
<1> HIDE DEF Msg, message, size
<1>5. Dialogue \in [1 .. size -> Msg]
  BY <1>3, <1>4
<1>6. Dialogue \in Seq(Msg)
  BY <1>2, <1>5
<1>. QED
  BY <1>6 DEF MessagesOf, Msg

\* The words of the blocks.
BlockWords == {"w1", "w2", "w3"}

\* The replies.
LEMMA RepliesAre ==
  ASSUME InputInv, subject = "reply", NEW a, NEW r \in Replies(a)
  PROVE  r \in Answers(BlockWords, a)
<1> DEFINE Parts == Blocks(BlockWords)
           size == Len(input)
           names == {"one", "two", "none", "tool_use"}
           counted == {A!Usage(3, size + 1, c, d) : c \in {None, 1}, d \in {None, 2}}
           usages == IF A!Vendor(a) = "Anthropic" THEN counted ELSE counted \union {None}
           blocks == [i \in DOMAIN input |-> Block[input[i]]]
<1>1. input \in Seq(names)
  BY DEF InputInv, Alphabet
<1>2. \A name \in names : Block[name] \in Parts
  <2> DEFINE W == BlockWords
  <2>1. "w1" \in W /\ "w2" \in W /\ "w3" \in W
    BY DEF BlockWords
  <2> HIDE DEF W
  <2>2. <<"w1">> \in Seq(W) /\ <<"w2", "w3">> \in Seq(W) /\ <<>> \in Seq(W)
    BY <2>1
  <2>3. /\ \A t \in Seq(W) : [type |-> "text", text |-> t] \in Parts
        /\ [type |-> "tool_use"] \in Parts
    BY DEF Blocks, W
  <2>4. /\ Block["one"] \in Parts /\ Block["two"] \in Parts
        /\ Block["none"] \in Parts /\ Block["tool_use"] \in Parts
    BY <2>2, <2>3 DEF Block
  <2>. QED
    BY <2>4
<1> HIDE DEF names, Parts
<1>3. size \in Nat /\ DOMAIN input = 1 .. size /\ \A i \in 1 .. size : input[i] \in names
  BY <1>1
<1>4. blocks \in Seq(Parts)
  <2>1. blocks \in [1 .. size -> Parts]
    BY <1>2, <1>3
  <2> HIDE DEF blocks
  <2>. QED
    BY <1>3, <2>1
<1>5. counted \subseteq FullCounts
  <2>1. size + 1 \in Nat
    BY <1>3
  <2> HIDE DEF size
  <2>. QED
    BY <2>1 DEF FullCounts, Tokens, A!Usage
<1>6. Replies(a) = [blocks : {blocks}, finish : {"stop", "max_tokens"}, usage : usages]
  BY DEF Replies
<1> HIDE DEF blocks, counted, usages
<1>7. r = [blocks |-> r.blocks, finish |-> r.finish, usage |-> r.usage]
      /\ r.blocks \in Seq(Parts) /\ r.finish \in {"stop", "max_tokens"}
      /\ r.usage \in usages
  BY <1>4, <1>6
<1>8. r.usage \in FullCounts \union (IF A!Vendor(a) = "Anthropic" THEN {} ELSE {None})
  BY <1>5, <1>7 DEF usages
<1>. QED
  BY <1>7, <1>8 DEF Answers, Parts

\* What is said to the mock.
MockWords == {"[mock]", "echo:", " ", "word"}

\* The speeches.
LEMMA SpeechIs ==
  ASSUME InputInv, subject = "speech"
  PROVE  /\ <<[role |-> "user", content |-> input]>> \in Speech(MockWords)
         /\ {"[mock]", "echo:", A!Space} \subseteq MockWords
<1> DEFINE Msg == [role : Roles, content : Seq(MockWords)]
           m == [role |-> "user", content |-> input]
           W == MockWords
<1>1. input \in Seq({"word", " "})
  BY DEF InputInv, Alphabet
<1>2. {"word", " "} \subseteq W /\ {"[mock]", "echo:", A!Space} \subseteq MockWords
  BY DEF MockWords, A!Space
<1> HIDE DEF W
<1>3. input \in Seq(W)
  BY <1>1, <1>2, SeqMonotonic
<1>4. m \in Msg
  BY <1>3 DEF Roles, W
<1> HIDE DEF m, Msg
<1>5. <<m>> \in Seq(Msg)
  BY <1>4
<1>. QED
  BY <1>2, <1>5 DEF Speech, Msg, m

\* The adapters agree on every input.
LEMMA AdaptersHold == InputInv => AdaptersAgree
<1> SUFFICES ASSUME InputInv PROVE AdaptersAgree
  OBVIOUS
<1>1. ASSUME subject = "messages", NEW a \in A!Injected \union A!Deployed
      PROVE  /\ A!Delivered(a, Dialogue)
             /\ a # "anthropic_provider" => A!Understood(a, Dialogue)
  <2>1. Dialogue \in MessagesOf(Seq(Nat))
    BY <1>1, DialogueIs
  <2>. QED
    BY <2>1, MessagesAgree
<1>2. ASSUME subject = "reply", NEW a \in A!Injected \union A!Deployed, NEW r \in Replies(a)
      PROVE  /\ \A k \in 0 .. Len(A!Script(A!Vendor(a), r)) : A!WellFormed(a, r, k)
             /\ a \notin {"openai_provider", "google_provider"} =>
                  A!EndsOnce(a, r) /\ A!EndsLikeChat(a, r)
  <2>1. r \in Answers(BlockWords, a)
    BY <1>2, RepliesAre
  <2>2. \A k \in 0 .. Len(A!Script(A!Vendor(a), r)) : A!WellFormed(a, r, k)
    BY <2>1, StreamsAreWellFormed
  <2>3. a \notin {"openai_provider", "google_provider"} => a \in Keepers
    BY DEF A!Injected, A!Deployed, Keepers
  <2>. QED
    BY <2>1, <2>2, <2>3, EndsAgree
<1>3. ASSUME subject = "speech"
      PROVE  A!MockAgrees(<<[role |-> "user", content |-> input]>>)
  BY <1>3, SpeechIs, MockAnswersAgree
<1>4. ASSUME subject = "attempts", NEW a \in A!Injected \union A!Deployed, NEW max \in 1 .. 3
      PROVE  A!RetriesWhatMayPass(max, a, input)
  <2>1. input \in Seq({200, 400, 429, 503})
    BY <1>4 DEF InputInv, Alphabet
  <2>2. max \in Nat \ {0}
    OBVIOUS
  <2>. QED
    BY <2>1, <2>2, RetriesAreRight
<1>. QED
  BY <1>1, <1>2, <1>3, <1>4 DEF AdaptersAgree

\* Whatever the conversation, the reply, the speech and the statuses are: every
\* message is delivered, in roles the vendor knows; a stream tells what the
\* vendor said so far and ends once, as the whole answer does; the mock says the
\* same either way; and only what may pass is tried again (src/app/providers).
THEOREM AdaptersCorrect == SpecInput => []AdaptersAgree
BY AdaptersHold, InputIsTyped, PTL
=============================================================================
