------------------------- MODULE SemanticCacheProofs ------------------------
(***************************************************************************)
(* Proofs about SemanticCache, for every finite set of callers, every set  *)
(* of tenants and names, and every symmetric similarity of texts.          *)
(***************************************************************************)
EXTENDS SemanticCache, FiniteSetTheorems, TLAPS

Id == [tenant : Tenant, model : Model, text : Text]

Point == [collection : Collection, id : Id, model : Model, answer : Answer,
          cited : BOOLEAN]

TypeOK ==
  /\ pc \in [Caller -> {"idle", "list", "create", "search", "upsert"}]
  /\ op \in [Caller -> Get \union Set]
  /\ reply \in [Caller -> Point \union {None}]
  /\ collections \subseteq Collection
  /\ points \subseteq Point
  /\ failures \in [Collection -> Nat]

\* A call that is to search is a get, one that is to store is a set, and no
\* call under way carries a cited answer.
CallsAreSorted ==
  \A c \in Caller :
    /\ pc[c] = "search" => op[c].kind = "get"
    /\ pc[c] = "upsert" => op[c].kind = "set"
    /\ pc[c] # "idle" /\ op[c].kind = "set" => ~op[c].cited

\* A point lies in the collection of the tenant who stored it, is uncited, and
\* is the only one of its tenant, model and messages.
PointsAreFiled ==
  /\ \A p \in points : p.collection = NameOf[p.id.tenant] /\ ~p.cited
  /\ \A p \in points, q \in points : p.id = q.id => p = q

\* What a get holds was a point of the caller's collection, close enough.
RepliesAreClose ==
  \A c \in Caller : reply[c] # None =>
    /\ reply[c].collection = NameOf[reply[c].id.tenant]
    /\ reply[c].collection = Mine(c)
    /\ ~reply[c].cited
    /\ Score[op[c].text, reply[c].id.text] >= Threshold

\* The calls that did not find collection k listed and will try to create it.
Racing(k) == {c \in Caller : pc[c] = "create" /\ Mine(c) = k}

\* Nobody is refused before the collection is there; from then on nobody joins
\* the race, and whoever created it has left.
RaceIsClosed ==
  \A k \in Collection :
    IF k \in collections
      THEN failures[k] + Cardinality(Racing(k)) + 1 <= Cardinality(Caller)
      ELSE failures[k] = 0

IInv ==
  /\ TypeOK
  /\ CallsAreSorted
  /\ PointsAreFiled
  /\ RepliesAreClose
  /\ RaceIsClosed

\* What most steps need of the constants; the similarity matters to replies only.
LEMMA Constants ==
  /\ IsFiniteSet(Caller)
  /\ Caller # {}
  /\ NameOf \in [Tenant -> Collection]
  /\ MaxFailures \in Nat
BY SemanticAssumption

USE Constants

-----------------------------------------------------------------------------
(* Types of the operators.                                                 *)

\* What a call was asked, whichever kind it is.
LEMMA OpType ==
  ASSUME NEW o \in Get \union Set
  PROVE  /\ o.tenant \in Tenant /\ o.model \in Model /\ o.text \in Text
         /\ o.kind \in {"get", "set"}
         /\ o.kind = "set" => o \in Set /\ o.answer \in Answer /\ o.cited \in BOOLEAN
         /\ PointId(o) \in Id
         /\ NameOf[o.tenant] \in Collection
BY DEF Get, Set, PointId, Id

\* The callers racing for a collection are finitely many.
LEMMA RacingSize ==
  ASSUME NEW S \in SUBSET Caller
  PROVE  /\ IsFiniteSet(S)
         /\ Cardinality(S) \in Nat
         /\ Cardinality(Caller) \in Nat
         /\ Cardinality(S) <= Cardinality(Caller)
         /\ \A c \in Caller \ S : Cardinality(S) + 1 <= Cardinality(Caller)
         /\ \A c \in S : Cardinality(S \ {c}) = Cardinality(S) - 1
<1>1. /\ IsFiniteSet(S) /\ Cardinality(S) \in Nat /\ Cardinality(Caller) \in Nat
      /\ Cardinality(S) <= Cardinality(Caller)
  BY FS_Subset, FS_CardinalityType
<1>2. ASSUME NEW c \in Caller \ S
      PROVE  Cardinality(S) + 1 <= Cardinality(Caller)
  <2>1. S \subseteq Caller \ {c} /\ IsFiniteSet(Caller \ {c})
    BY <1>2, FS_RemoveElement
  <2>2. Cardinality(S) <= Cardinality(Caller \ {c})
    BY <2>1, FS_Subset
  <2>3. Cardinality(Caller \ {c}) = Cardinality(Caller) - 1
    BY FS_RemoveElement
  <2>4. QED
    BY <1>1, <2>2, <2>3
<1>3. \A c \in S : Cardinality(S \ {c}) = Cardinality(S) - 1
  BY <1>1, FS_RemoveElement
<1>4. QED
  BY <1>1, <1>2, <1>3

-----------------------------------------------------------------------------
(* The steps.                                                              *)

\* The initial states satisfy the invariant.
LEMMA InitIInv == Init => IInv
<1> SUFFICES ASSUME Init PROVE IInv
  OBVIOUS
<1>1. TypeOK
  BY DEF Init, TypeOK
<1>2. QED
  BY <1>1 DEF Init, IInv, CallsAreSorted, PointsAreFiled, RepliesAreClose,
              RaceIsClosed

\* A call arrives: it holds no reply, and races for nothing yet.
LEMMA StartStep ==
  ASSUME IInv, NEW c \in Caller, NEW o \in Get \union Set, Start(c, o)
  PROVE  IInv'
<1>1. TypeOK'
  BY DEF IInv, TypeOK, Start, Goto
<1>2. CallsAreSorted'
  BY DEF IInv, TypeOK, CallsAreSorted, Start, Goto
<1>3. RepliesAreClose'
  BY DEF IInv, TypeOK, RepliesAreClose, Start, Mine
<1>4. \A k : Racing(k)' = Racing(k)
  BY DEF IInv, TypeOK, Start, Goto, Racing, Mine
<1>5. QED
  BY <1>1, <1>2, <1>3, <1>4 DEF IInv, Start, PointsAreFiled, RaceIsClosed

\* What a move within a call leaves alone.
LEMMA MoveKeeps ==
  ASSUME IInv, NEW c \in Caller, NEW to \in {"idle", "list", "create", "search", "upsert"},
         Goto(c, to), UNCHANGED <<op, reply, points>>,
         pc[c] # "idle",
         to = "search" => op[c].kind = "get",
         to = "upsert" => op[c].kind = "set"
  PROVE  /\ pc' \in [Caller -> {"idle", "list", "create", "search", "upsert"}]
         /\ CallsAreSorted' /\ PointsAreFiled' /\ RepliesAreClose'
         /\ \A k : Racing(k)' = IF to = "create" /\ Mine(c) = k
                                  THEN Racing(k) \union {c} ELSE Racing(k) \ {c}
<1>1. pc \in [Caller -> {"idle", "list", "create", "search", "upsert"}]
      /\ pc' = [pc EXCEPT ![c] = to]
  BY DEF IInv, TypeOK, Goto
<1>2. CallsAreSorted'
  BY <1>1 DEF IInv, CallsAreSorted
<1>3. PointsAreFiled' /\ RepliesAreClose'
  BY DEF IInv, PointsAreFiled, RepliesAreClose, Mine
<1>4. \A k : Racing(k)' = IF to = "create" /\ Mine(c) = k
                            THEN Racing(k) \union {c} ELSE Racing(k) \ {c}
  BY <1>1 DEF Racing, Mine
<1>5. QED
  BY <1>1, <1>2, <1>3, <1>4

\* A call that found its collection goes on to what it was asked.
LEMMA ReadyGoes ==
  ASSUME IInv, NEW c \in Caller, Ready(c)
  PROVE  \E to \in {"search", "upsert"} :
           /\ Goto(c, to)
           /\ to = "search" => op[c].kind = "get"
           /\ to = "upsert" => op[c].kind = "set"
<1>1. op[c].kind \in {"get", "set"}
  BY OpType DEF IInv, TypeOK
<1>2. QED
  BY <1>1 DEF Ready

\* A listing joins the race only for a collection that is not there.
LEMMA ListStep ==
  ASSUME IInv, NEW c \in Caller, List(c)
  PROVE  IInv'
<1>1. PICK to \in {"create", "search", "upsert"} :
        /\ Goto(c, to)
        /\ to = "create" => Mine(c) \notin collections
        /\ to = "search" => op[c].kind = "get"
        /\ to = "upsert" => op[c].kind = "set"
  BY ReadyGoes DEF List
<1>2. /\ pc[c] = "list"
      /\ UNCHANGED <<op, reply, collections, points, failures>>
  BY DEF List
<1>3. /\ pc' \in [Caller -> {"idle", "list", "create", "search", "upsert"}]
      /\ CallsAreSorted' /\ PointsAreFiled' /\ RepliesAreClose'
      /\ \A k : Racing(k)' = IF to = "create" /\ Mine(c) = k
                               THEN Racing(k) \union {c} ELSE Racing(k) \ {c}
  BY <1>1, <1>2, MoveKeeps
<1>4. RaceIsClosed'
  <2> SUFFICES ASSUME NEW k \in collections, k \in Collection
               PROVE  failures[k] + Cardinality(Racing(k)') + 1 <= Cardinality(Caller)
    BY <1>2 DEF IInv, RaceIsClosed
  <2>1. Racing(k)' = Racing(k)
    BY <1>1, <1>2, <1>3 DEF Racing
  <2>2. QED
    BY <2>1 DEF IInv, RaceIsClosed
<1>5. QED
  BY <1>2, <1>3, <1>4 DEF IInv, TypeOK

\* The call that creates the collection leaves the race, so what is left of it
\* is smaller than the set of callers.
LEMMA CreateStep ==
  ASSUME IInv, NEW c \in Caller, Create(c)
  PROVE  IInv'
<1>1. PICK to \in {"search", "upsert"} :
        /\ Goto(c, to)
        /\ to = "search" => op[c].kind = "get"
        /\ to = "upsert" => op[c].kind = "set"
  BY ReadyGoes DEF Create
<1>2. /\ pc[c] = "create" /\ Mine(c) \notin collections
      /\ collections' = collections \union {Mine(c)}
      /\ UNCHANGED <<op, reply, points, failures>>
  BY DEF Create
<1>3. /\ pc' \in [Caller -> {"idle", "list", "create", "search", "upsert"}]
      /\ CallsAreSorted' /\ PointsAreFiled' /\ RepliesAreClose'
      /\ \A k : Racing(k)' = Racing(k) \ {c}
  BY <1>1, <1>2, MoveKeeps
<1>4. RaceIsClosed'
  <2> SUFFICES ASSUME NEW k \in collections', k \in Collection
               PROVE  failures[k] + Cardinality(Racing(k)') + 1 <= Cardinality(Caller)
    BY <1>2 DEF IInv, RaceIsClosed
  <2>1. Racing(k)' \in SUBSET Caller /\ c \notin Racing(k)'
    BY <1>3 DEF Racing
  <2>2. Cardinality(Racing(k)') \in Nat /\ Cardinality(Racing(k)') + 1 <= Cardinality(Caller)
    BY <2>1, RacingSize
  <2>3. CASE k = Mine(c)
    BY <1>2, <2>2, <2>3 DEF IInv, RaceIsClosed
  <2>4. CASE k # Mine(c)
    <3>1. Racing(k)' = Racing(k)
      BY <1>3, <2>4 DEF Racing
    <3>2. QED
      BY <1>2, <2>4, <3>1 DEF IInv, RaceIsClosed
  <2>5. QED
    BY <2>3, <2>4
<1>5. Mine(c) \in Collection
  BY OpType DEF IInv, TypeOK, Mine
<1>6. QED
  BY <1>2, <1>3, <1>4, <1>5 DEF IInv, TypeOK

\* A refused creation leaves the race as it is counted.
LEMMA CreateFailsStep ==
  ASSUME IInv, NEW c \in Caller, CreateFails(c)
  PROVE  IInv'
<1>1. /\ pc[c] = "create" /\ Mine(c) \in collections /\ Goto(c, "idle")
      /\ failures' = [failures EXCEPT ![Mine(c)] = IF @ < MaxFailures THEN @ + 1 ELSE @]
      /\ UNCHANGED <<op, reply, collections, points>>
  BY DEF CreateFails
<1>2. /\ pc' \in [Caller -> {"idle", "list", "create", "search", "upsert"}]
      /\ CallsAreSorted' /\ PointsAreFiled' /\ RepliesAreClose'
      /\ \A k : Racing(k)' = Racing(k) \ {c}
  BY <1>1, MoveKeeps
<1>3. /\ failures \in [Collection -> Nat] /\ failures' \in [Collection -> Nat]
      /\ \A k \in Collection : /\ k # Mine(c) => failures'[k] = failures[k]
                               /\ failures'[k] <= failures[k] + 1
  BY <1>1 DEF IInv, TypeOK
<1>4. RaceIsClosed'
  <2> SUFFICES ASSUME NEW k \in Collection
               PROVE  IF k \in collections
                        THEN failures'[k] + Cardinality(Racing(k)') + 1 <= Cardinality(Caller)
                        ELSE failures'[k] = 0
    BY <1>1 DEF RaceIsClosed
  <2>1. /\ Racing(k) \in SUBSET Caller
        /\ Cardinality(Racing(k)) \in Nat /\ Cardinality(Caller) \in Nat
    BY RacingSize DEF Racing
  <2>2. CASE k = Mine(c)
    <3>1. c \in Racing(k)
      BY <1>1, <2>2 DEF Racing
    <3>2. Cardinality(Racing(k)') = Cardinality(Racing(k)) - 1
      BY <1>2, <2>1, <3>1, RacingSize
    <3>3. failures[k] + Cardinality(Racing(k)) + 1 <= Cardinality(Caller)
      BY <1>1, <2>2 DEF IInv, RaceIsClosed
    <3>4. QED
      BY <1>1, <1>3, <2>1, <2>2, <3>2, <3>3
  <2>3. CASE k # Mine(c)
    <3>1. Racing(k)' = Racing(k)
      BY <1>2, <2>3 DEF Racing
    <3>2. QED
      BY <1>3, <2>3, <3>1 DEF IInv, RaceIsClosed
  <2>4. QED
    BY <2>2, <2>3
<1>5. QED
  BY <1>1, <1>2, <1>3, <1>4 DEF IInv, TypeOK

\* A search returns nothing, or a point of the caller's collection.
LEMMA SearchStep ==
  ASSUME IInv, NEW c \in Caller, Search(c)
  PROVE  IInv'
<1>1. /\ pc[c] = "search" /\ Goto(c, "idle")
      /\ UNCHANGED <<op, collections, points, failures>>
  BY DEF Search
<1>2. \/ reply' = reply
      \/ \E p \in points : Similar(c, p) /\ reply' = [reply EXCEPT ![c] = p]
  BY DEF Search
<1>3. TypeOK'
  BY <1>1, <1>2 DEF IInv, TypeOK, Goto
<1>4. CallsAreSorted'
  BY <1>1 DEF IInv, TypeOK, CallsAreSorted, Goto
<1>5. PointsAreFiled'
  BY <1>1 DEF IInv, PointsAreFiled
<1>6. RepliesAreClose'
  <2> SUFFICES ASSUME NEW d \in Caller, reply'[d] # None
               PROVE  /\ reply'[d].collection = NameOf[reply'[d].id.tenant]
                      /\ reply'[d].collection = Mine(d)
                      /\ ~reply'[d].cited
                      /\ Score[op[d].text, reply'[d].id.text] >= Threshold
    BY <1>1 DEF RepliesAreClose, Mine
  <2>1. CASE reply'[d] = reply[d]
    BY <2>1 DEF IInv, RepliesAreClose
  <2>2. CASE reply'[d] # reply[d]
    <3>1. d = c /\ \E p \in points : Similar(c, p) /\ reply'[c] = p
      BY <1>2, <2>2 DEF IInv, TypeOK
    <3>2. QED
      BY <3>1 DEF IInv, PointsAreFiled, Similar
  <2>3. QED
    BY <2>1, <2>2
<1>7. \A k : Racing(k)' = Racing(k)
  BY <1>1 DEF IInv, TypeOK, Goto, Racing, Mine
<1>8. RaceIsClosed'
  BY <1>1, <1>7 DEF IInv, RaceIsClosed
<1>9. QED
  BY <1>3, <1>4, <1>5, <1>6, <1>8 DEF IInv

\* An upsert files an uncited point under its tenant, and replaces its own.
LEMMA UpsertStep ==
  ASSUME IInv, NEW c \in Caller, Upsert(c)
  PROVE  IInv'
<1> DEFINE new == [collection |-> Mine(c), id |-> PointId(op[c]), model |-> op[c].model,
                   answer |-> op[c].answer, cited |-> op[c].cited]
           kept == {p \in points : p.collection # Mine(c) \/ p.id # PointId(op[c])}
<1>1. /\ pc[c] = "upsert" /\ Goto(c, "idle") /\ points' = kept \union {new}
      /\ UNCHANGED <<op, reply, collections, failures>>
  BY DEF Upsert
<1>2. op[c] \in Get \union Set /\ op[c].kind = "set" /\ ~op[c].cited
  BY <1>1 DEF IInv, TypeOK, CallsAreSorted
<1>3. new \in Point /\ new.collection = NameOf[new.id.tenant] /\ ~new.cited
  BY <1>2, OpType DEF Point, Mine, PointId
<1>4. TypeOK'
  BY <1>1, <1>3 DEF IInv, TypeOK, Goto
<1>5. CallsAreSorted'
  BY <1>1 DEF IInv, TypeOK, CallsAreSorted, Goto
<1>6. PointsAreFiled'
  <2>1. ASSUME NEW p \in kept PROVE p.id # new.id
    <3>1. p \in points /\ p.collection = NameOf[p.id.tenant]
      BY DEF IInv, PointsAreFiled
    <3>2. p.id = new.id => p.collection = Mine(c)
      BY <3>1, <1>3
    <3>3. QED
      BY <3>2
  <2>2. QED
    BY <1>1, <1>3, <2>1 DEF IInv, PointsAreFiled
<1>7. RepliesAreClose'
  BY <1>1 DEF IInv, RepliesAreClose, Mine
<1>8. \A k : Racing(k)' = Racing(k)
  BY <1>1 DEF IInv, TypeOK, Goto, Racing, Mine
<1>9. RaceIsClosed'
  BY <1>1, <1>8 DEF IInv, RaceIsClosed
<1>10. QED
  BY <1>4, <1>5, <1>6, <1>7, <1>9 DEF IInv

\* Every step keeps the invariant.
LEMMA NextIInv == IInv /\ [Next]_vars => IInv'
<1> SUFFICES ASSUME IInv, [Next]_vars PROVE IInv'
  OBVIOUS
<1>1. ASSUME NEW c \in Caller, Step(c) PROVE IInv'
  BY <1>1, ListStep, CreateStep, CreateFailsStep, SearchStep, UpsertStep DEF Step
<1>2. CASE UNCHANGED vars
  <2>1. \A k : Racing(k)' = Racing(k)
    BY <1>2 DEF vars, Racing, Mine
  <2>2. QED
    BY <1>2, <2>1 DEF vars, IInv, TypeOK, CallsAreSorted, PointsAreFiled,
                      RepliesAreClose, RaceIsClosed, Mine
<1>3. QED
  BY <1>1, <1>2, StartStep DEF Next

-----------------------------------------------------------------------------
(* The theorems.                                                           *)

\* The inductive invariant.
THEOREM Invariance == Spec => []IInv
<1>1. QED
  BY InitIInv, NextIInv, PTL DEF Spec

\* A cached answer never crosses tenants whose names stay apart, was not cited,
\* and was given to messages close enough to the caller's.
THEOREM ServesCorrect == Spec => []ServesOwnUncited
<1>1. IInv => ServesOwnUncited
  <2> SUFFICES ASSUME IInv, NamesApart, NEW c \in Caller, reply[c] # None
               PROVE  /\ reply[c].id.tenant = op[c].tenant
                      /\ ~reply[c].cited
                      /\ Score[reply[c].id.text, op[c].text] >= Threshold
    BY DEF ServesOwnUncited
  <2>0. Score[op[c].text, reply[c].id.text] >= Threshold
    BY DEF IInv, RepliesAreClose
  <2>1. reply[c] \in Point /\ reply[c].id \in Id /\ reply[c].id.text \in Text
        /\ reply[c].id.tenant \in Tenant
    BY DEF IInv, TypeOK, Point, Id
  <2>2. op[c].text \in Text /\ op[c].tenant \in Tenant
    BY OpType DEF IInv, TypeOK
  <2>3. NameOf[reply[c].id.tenant] = NameOf[op[c].tenant]
    BY DEF IInv, RepliesAreClose, Mine
  <2>4. Score[op[c].text, reply[c].id.text] = Score[reply[c].id.text, op[c].text]
    BY <2>1, <2>2, SemanticAssumption
  <2>5. reply[c].id.tenant = op[c].tenant /\ ~reply[c].cited
    BY <2>1, <2>2, <2>3 DEF IInv, RepliesAreClose, NamesApart
  <2>6. QED
    BY <2>0, <2>4, <2>5
<1>2. QED
  BY <1>1, Invariance, PTL

\* At most n - 1 of n callers are ever refused the creation of a collection.
THEOREM RaceCorrect == Spec => []RaceIsPaidOnce
<1>1. IInv => RaceIsPaidOnce
  <2> SUFFICES ASSUME IInv, NEW k \in Collection
               PROVE  failures[k] + 1 <= Cardinality(Caller)
    BY DEF RaceIsPaidOnce
  <2>1. /\ Cardinality(Racing(k)) \in Nat /\ Cardinality(Caller) \in Nat
        /\ failures[k] \in Nat
    BY RacingSize DEF IInv, TypeOK, Racing
  <2>2. 1 <= Cardinality(Caller)
    <3>1. Cardinality(Caller) # 0
      BY FS_EmptySet
    <3>2. QED
      BY <2>1, <3>1
  <2>3. QED
    BY <2>1, <2>2 DEF IInv, RaceIsClosed
<1>2. QED
  BY <1>1, Invariance, PTL
=============================================================================
