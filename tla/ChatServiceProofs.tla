-------------------------- MODULE ChatServiceProofs --------------------------
(***************************************************************************)
(* Proofs about ChatService: for any requests, tenants, deployments and    *)
(* faults the books are right, accounting fails no request, and, if the    *)
(* output guardrails only reject, the service implements its contract.     *)
(* About the guards it runs: for any conversation what they let out is     *)
(* clean. And about what is recorded of its calls: however many days of    *)
(* work there are, usage reports, charges and events agree. And about the  *)
(* schema they are kept in: any walk over the revisions leaves the catalog *)
(* its revision says, the declared schema at the head.                     *)
(***************************************************************************)
EXTENDS ChatService, Outgoing, Books, FiniteSetTheorems, WellFoundedInduction, TLAPS

Unasked == {"idle", "limit", "budget", "prepare"}
Uncalled == {"lookup", "call"}
Streamed == {"stream", "frames"}
Called == {"insert", "publish", "charge", "guard", "store"}

\* What a request has by the stage it is at.
Progress(r) ==
  /\ stage[r] \in Unasked => msgs[r] = None
  /\ stage[r] \in Uncalled \union Called \union Streamed => msgs[r] # None
  /\ stage[r] \in Uncalled \union Called => ~req[r].stream
  /\ stage[r] \in Streamed => req[r].stream
  /\ stage[r] \in Unasked \union Uncalled \union Streamed => result[r] = None
  /\ stage[r] \in Called =>
       /\ result[r] # None /\ response[r] = result[r]
       /\ [question |-> QuestionOf(r), answer |-> result[r]] \in known
  /\ stage[r] = "frames" => status[r] = 200
  /\ stage[r] \in (Unasked \union Uncalled \union Called \union Streamed) \ {"frames"}
       => status[r] = 0

\* What accounting has written for a request.
Booked(r) ==
  /\ r \in charged \union events => r \in rows
  /\ r \in rows => result[r] # None
  /\ stage[r] \in {"insert", "publish", "charge"} => r \notin charged
  /\ stage[r] \in {"publish", "charge"} /\ "recorder" \in wired => r \in rows
  /\ stage[r] \in {"guard", "store", "done"} /\ result[r] # None /\ "recorder" \in wired =>
       /\ r \in rows \/ "insert" \in faults[r]
       /\ \/ r \in charged
          \/ "budget" \notin wired
          \/ {"insert", "charge"} \intersect faults[r] # {}
  /\ status[r] = 500 => ~(faults[r] \subseteq {"insert", "publish", "charge"})

\* The answer of a cache entry was given to a question that has its key, put
\* with whatever parameters.
GivenTo(e, k) ==
  /\ k.answer = e.answer
  /\ k.question.key = e.key.key /\ k.question.model = e.key.model
  /\ k.question.msgs = e.key.msgs

\* The cache holds answers that were given.
CacheIsKnown == \A e \in cache : \E k \in known : GivenTo(e, k)

IInv == TypeOK /\ CacheIsKnown /\ \A r \in Request : Progress(r) /\ Booked(r)

-----------------------------------------------------------------------------
(* Induction, stated with sets.                                            *)

\* A set of numbers that is not empty has a least one.
LEMMA Least ==
  ASSUME NEW T \in SUBSET Nat, T # {}
  PROVE  \E x \in T : \A y \in T : x <= y
<1> DEFINE R == StrictSubsetOrdering(Nat)
           U == {1 .. n : n \in T}
<1>1. IsWellFoundedOn(R, FiniteSubsetsOf(Nat))
  BY FS_StrictSubsetOrderingWellFounded
<1>2. U \subseteq FiniteSubsetsOf(Nat) /\ U # {}
  <2>1. ASSUME NEW n \in T PROVE 1 .. n \in SUBSET Nat /\ IsFiniteSet(1 .. n)
    BY FS_Interval
  <2>. QED
    BY <2>1 DEF FiniteSubsetsOf
<1> HIDE DEF R
<1>3. PICK u \in U : \A v \in U : ~ (<<v, u>> \in R)
  BY <1>1, <1>2, WFMin
<1>4. PICK x \in T : u = 1 .. x
  OBVIOUS
<1>5. ASSUME NEW y \in T, ~ (x <= y) PROVE FALSE
  <2>1. 1 .. y \subseteq 1 .. x /\ x \in 1 .. x /\ x \notin 1 .. y
    BY <1>5
  <2>2. <<1 .. y, 1 .. x>> \in R
    BY <2>1 DEF R, StrictSubsetOrdering
  <2>. QED
    BY <1>3, <1>4, <2>2
<1>. QED
  BY <1>5

\* A set with 0 and every successor of its members is all of Nat.
LEMMA SetInduction ==
  ASSUME NEW T \in SUBSET Nat, 0 \in T, \A n \in T : n + 1 \in T
  PROVE  T = Nat
<1>1. ASSUME Nat \ T # {} PROVE FALSE
  <2>1. PICK x \in Nat \ T : \A y \in Nat \ T : x <= y
    BY <1>1, Least
  <2>2. x # 0 /\ x - 1 \in T
    BY <2>1
  <2>. QED
    BY <2>1, <2>2
<1>. QED
  BY <1>1

-----------------------------------------------------------------------------
(* Running a chain of guards.                                              *)

\* f holds what each set of the first n guards leaves of x, run in order.
IsRun(f, chain, n, x) ==
  f = [s \in SUBSET (1 .. n) |->
         IF s = {} THEN x
         ELSE IF f[s \ {Max(s)}] = Rejected THEN Rejected
              ELSE chain[Max(s)][f[s \ {Max(s)}]]]

\* The largest of the first numbers.
LEMMA MaxOfFirst ==
  ASSUME NEW n \in Nat \ {0}, NEW s \in SUBSET (1 .. n), n \in s
  PROVE  Max(s) = n /\ s \ {Max(s)} \in SUBSET (1 .. (n - 1))
<1>1. \E m \in s : \A y \in s : m >= y
  OBVIOUS
<1>2. Max(s) \in s /\ \A y \in s : Max(s) >= y
  BY <1>1, Zenon DEF Max
<1>3. Max(s) \in 1 .. n /\ Max(s) >= n
  BY <1>2
<1>4. \A m \in 1 .. n : m >= n => m = n
  OBVIOUS
<1>5. Max(s) = n
  BY <1>3, <1>4
<1>6. s \ {n} \in SUBSET (1 .. (n - 1))
  OBVIOUS
<1>. QED
  BY <1>5, <1>6

\* Every chain can be run, guard after guard.
LEMMA RunExists ==
  ASSUME NEW chain, NEW x, NEW n \in Nat
  PROVE  \E f : IsRun(f, chain, n, x)
<1> DEFINE T == {k \in Nat : \E f : IsRun(f, chain, k, x)}
<1>1. 0 \in T
  <2> DEFINE f == [s \in SUBSET (1 .. 0) |-> x]
  <2>1. 1 .. 0 = {}
    OBVIOUS
  <2>2. IsRun(f, chain, 0, x)
    BY <2>1 DEF IsRun
  <2>. QED
    BY <2>2
<1>2. ASSUME NEW k \in T PROVE k + 1 \in T
  <2>1. PICK f : IsRun(f, chain, k, x)
    OBVIOUS
  <2> DEFINE first(s) == f[s \ {k + 1}]
             g == [s \in SUBSET (1 .. k + 1) |->
                     IF k + 1 \notin s THEN f[s]
                     ELSE IF first(s) = Rejected THEN Rejected
                          ELSE chain[k + 1][first(s)]]
  <2>2. ASSUME NEW s \in SUBSET (1 .. k + 1)
        PROVE  g[s] = IF s = {} THEN x
                      ELSE IF g[s \ {Max(s)}] = Rejected THEN Rejected
                           ELSE chain[Max(s)][g[s \ {Max(s)}]]
    <3>1. CASE k + 1 \in s
      <4>1. Max(s) = k + 1
        BY <3>1, MaxOfFirst
      <4>2. g[s \ {k + 1}] = f[s \ {k + 1}]
        OBVIOUS
      <4>. QED
        BY <3>1, <4>1, <4>2
    <3>2. CASE k + 1 \notin s
      <4>1. s \in SUBSET (1 .. k) /\ g[s] = f[s]
        BY <3>2
      <4>2. g[s \ {Max(s)}] = f[s \ {Max(s)}]
        BY <3>2
      <4>. QED
        BY <2>1, <4>1, <4>2 DEF IsRun
    <3>. QED
      BY <3>1, <3>2
  <2> DEFINE h == [s \in SUBSET (1 .. k + 1) |->
                     IF s = {} THEN x
                     ELSE IF g[s \ {Max(s)}] = Rejected THEN Rejected
                          ELSE chain[Max(s)][g[s \ {Max(s)}]]]
  <2>3. \A s \in SUBSET (1 .. k + 1) : g[s] = h[s]
    BY <2>2
  <2>4. g = [s \in SUBSET (1 .. k + 1) |-> g[s]] /\ h = [s \in SUBSET (1 .. k + 1) |-> h[s]]
    OBVIOUS
  <2> HIDE DEF g
  <2>5. g = h
    <3> HIDE DEF h
    <3>. QED
      BY <2>3, <2>4
  <2>6. IsRun(g, chain, k + 1, x)
    BY <2>5 DEF IsRun
  <2>. QED
    BY <2>6
<1> HIDE DEF T
<1>3. T = Nat
  BY <1>1, <1>2, SetInduction DEF T
<1>. QED
  BY <1>3 DEF T

\* What the chain leaves is what its runs of the first 0, 1, 2, ... guards come to.
LEMMA RunIsStepwise ==
  ASSUME NEW S, NEW chain \in Seq(S), NEW x
  PROVE  \E run : /\ run[0] = x
                  /\ run[Len(chain)] = RunChain(chain, x)
                  /\ \A n \in 1 .. Len(chain) :
                       run[n] = IF run[n - 1] = Rejected THEN Rejected
                                ELSE chain[n][run[n - 1]]
<1> DEFINE last == Len(chain)
<1>1. last \in Nat /\ DOMAIN chain = 1 .. last
  OBVIOUS
<1>2. RunChain(chain, x) = (CHOOSE f : IsRun(f, chain, last, x))[1 .. last]
  BY <1>1 DEF RunChain, FoldLeft, MapThenFoldSet, IsRun
<1>3. PICK f : IsRun(f, chain, last, x) /\ RunChain(chain, x) = f[1 .. last]
  BY <1>1, <1>2, RunExists
<1> DEFINE run == [n \in 0 .. last |-> f[1 .. n]]
<1>4. f[{}] = x
  BY <1>3 DEF IsRun
<1>5. ASSUME NEW n \in 1 .. last
      PROVE  f[1 .. n] = IF f[1 .. (n - 1)] = Rejected THEN Rejected
                         ELSE chain[n][f[1 .. (n - 1)]]
  <2>1. 1 .. n \in SUBSET (1 .. last) /\ n \in 1 .. n /\ (1 .. n) \ {n} = 1 .. (n - 1)
    <3> HIDE DEF last
    <3>. QED
      BY <1>1
  <2>2. Max(1 .. n) = n
    BY MaxOfFirst
  <2>3. f[1 .. n] = IF f[(1 .. n) \ {Max(1 .. n)}] = Rejected THEN Rejected
                    ELSE chain[Max(1 .. n)][f[(1 .. n) \ {Max(1 .. n)}]]
    <3>1. 1 .. n # {}
      BY <2>1
    <3>. QED
      BY <1>3, <2>1, <3>1 DEF IsRun
  <2>. QED
    BY <2>1, <2>2, <2>3
<1>6. 1 .. 0 = {}
  OBVIOUS
<1>7. run[0] = x /\ run[last] = RunChain(chain, x)
  BY <1>1, <1>3, <1>4, <1>6
<1>8. \A n \in 1 .. last : run[n] = IF run[n - 1] = Rejected THEN Rejected
                                    ELSE chain[n][run[n - 1]]
  BY <1>1, <1>5
<1>. QED
  BY <1>7, <1>8

\* What a chain lets through is a text that each guard that holds leaves alone.
LEMMA ChainKeeps ==
  ASSUME NEW chain \in Seq(TextGuard), NEW t \in Text, RunChain(chain, t) # Rejected
  PROVE  /\ RunChain(chain, t) \in Text
         /\ \A i \in 1 .. Len(chain) :
              GuardHolds(chain, i) => chain[i][RunChain(chain, t)] = RunChain(chain, t)
<1> DEFINE last == Len(chain)
<1>1. PICK run : /\ run[0] = t
                 /\ run[last] = RunChain(chain, t)
                 /\ \A n \in 1 .. last :
                      run[n] = IF run[n - 1] = Rejected THEN Rejected
                               ELSE chain[n][run[n - 1]]
  BY RunIsStepwise
<1> DEFINE Left(n) == /\ run[n] \in Text
                      /\ \A i \in 1 .. n : GuardHolds(chain, i) => chain[i][run[n]] = run[n]
           T == {n \in Nat : n <= last => run[n] = Rejected \/ Left(n)}
<1>2. last \in Nat /\ \A n \in 1 .. last : chain[n] \in TextGuard
  OBVIOUS
<1>3. 0 \in T
  BY <1>1
<1>4. ASSUME NEW n \in T PROVE n + 1 \in T
  <2> SUFFICES ASSUME n + 1 <= last, run[n + 1] # Rejected PROVE Left(n + 1)
    OBVIOUS
  <2>1. n + 1 \in 1 .. last /\ (n + 1) - 1 = n
    BY <1>2
  <2>2. run[n] # Rejected /\ run[n + 1] = chain[n + 1][run[n]]
    BY <1>1, <2>1
  <2>3. Left(n)
    BY <1>2, <2>1, <2>2
  <2>4. run[n + 1] \in Text
    BY <1>2, <2>1, <2>2, <2>3 DEF TextGuard
  <2>5. ASSUME NEW i \in 1 .. n + 1, GuardHolds(chain, i)
        PROVE  chain[i][run[n + 1]] = run[n + 1]
    <3>1. CASE i = n + 1
      BY <2>2, <2>3, <2>5, <3>1 DEF GuardHolds
    <3>2. CASE i # n + 1
      <4>1. i \in 1 .. n /\ n + 1 \in i + 1 .. Len(chain)
        BY <2>1, <3>2
      <4>. QED
        BY <2>2, <2>3, <2>5, <4>1 DEF GuardHolds
    <3>. QED
      BY <3>1, <3>2
  <2>. QED
    BY <2>4, <2>5
<1>5. last \in T
  <2> HIDE DEF T
  <2>1. T = Nat
    BY <1>3, <1>4, SetInduction DEF T
  <2>. QED
    BY <1>2, <2>1
<1>. QED
  BY <1>1, <1>2, <1>5

\* A text that every guard leaves alone passes the chain as it is.
LEMMA ChainPasses ==
  ASSUME NEW chain \in Seq(TextGuard), NEW t \in Text,
         \A i \in 1 .. Len(chain) : chain[i][t] = t
  PROVE  RunChain(chain, t) = t
<1> DEFINE last == Len(chain)
<1>1. PICK run : /\ run[0] = t
                 /\ run[last] = RunChain(chain, t)
                 /\ \A n \in 1 .. last :
                      run[n] = IF run[n - 1] = Rejected THEN Rejected
                               ELSE chain[n][run[n - 1]]
  BY RunIsStepwise
<1> DEFINE T == {n \in Nat : n <= last => run[n] = t}
<1>2. last \in Nat
  OBVIOUS
<1>3. 0 \in T
  BY <1>1
<1>4. ASSUME NEW n \in T PROVE n + 1 \in T
  <2> SUFFICES ASSUME n + 1 <= last PROVE run[n + 1] = t
    OBVIOUS
  <2>1. n + 1 \in 1 .. last /\ (n + 1) - 1 = n /\ run[n] = t
    BY <1>2
  <2>. QED
    BY <1>1, <2>1, ChatAssumption
<1>5. last \in T
  <2> HIDE DEF T
  <2>1. T = Nat
    BY <1>3, <1>4, SetInduction DEF T
  <2>. QED
    BY <1>2, <2>1
<1>. QED
  BY <1>1, <1>5

\* The pre-chain leaves a text, or rejects it.
LEMMA ChainLeavesText ==
  ASSUME NEW t \in Text
  PROVE  RunChain(PreChain, t) \in Text \union {Rejected}
BY ChainKeeps, ChainAssumption

\* A chain whose guards all hold lets through what it leaves.
LEMMA ChainSettles ==
  ASSUME NEW chain \in Seq(TextGuard), NEW t \in Text, RunChain(chain, t) # Rejected,
         \A i \in 1 .. Len(chain) : GuardHolds(chain, i)
  PROVE  RunChain(chain, RunChain(chain, t)) = RunChain(chain, t)
BY ChainKeeps, ChainPasses

-----------------------------------------------------------------------------
(* Folding a sequence, one element after the other.                        *)

\* A set of the first numbers has a largest.
LEMMA MaxIsIn ==
  ASSUME NEW n \in Nat, NEW s \in SUBSET (1 .. n), s # {}
  PROVE  Max(s) \in 1 .. n
<1> DEFINE T == {k \in Nat : \A u \in SUBSET (1 .. k) : u # {} => Max(u) \in 1 .. k}
<1>1. 0 \in T
  <2>1. 1 .. 0 = {}
    OBVIOUS
  <2>. QED
    BY <2>1
<1>2. ASSUME NEW k \in T PROVE k + 1 \in T
  <2> SUFFICES ASSUME NEW u \in SUBSET (1 .. k + 1), u # {}
               PROVE  Max(u) \in 1 .. k + 1
    OBVIOUS
  <2>1. CASE k + 1 \in u
    BY <2>1, MaxOfFirst
  <2>2. CASE k + 1 \notin u
    <3>1. u \in SUBSET (1 .. k)
      BY <2>2
    <3>. QED
      BY <3>1
  <2>. QED
    BY <2>1, <2>2
<1> HIDE DEF T
<1>3. T = Nat
  BY <1>1, <1>2, SetInduction DEF T
<1>4. n \in T
  BY <1>3
<1>. QED
  BY <1>4 DEF T

\* f holds what each set of the first n steps makes of x, taken in order.
IsFold(f, step, n, x) ==
  f = [s \in SUBSET (1 .. n) |->
         IF s = {} THEN x ELSE step[Max(s)][f[s \ {Max(s)}]]]

\* ... and stays within Acc.
IsFoldIn(Acc, f, step, n, x) ==
  IsFold(f, step, n, x) /\ \A s \in SUBSET (1 .. n) : f[s] \in Acc

\* Steps within a set can be taken one after the other.
LEMMA FoldExists ==
  ASSUME NEW Acc, NEW x \in Acc, NEW n \in Nat, NEW step \in [1 .. n -> [Acc -> Acc]]
  PROVE  \E f : IsFoldIn(Acc, f, step, n, x)
<1> DEFINE T == {k \in Nat : k <= n => \E f : IsFoldIn(Acc, f, step, k, x)}
<1>1. 0 \in T
  <2> DEFINE f == [s \in SUBSET (1 .. 0) |-> x]
  <2>1. 1 .. 0 = {}
    OBVIOUS
  <2>2. IsFoldIn(Acc, f, step, 0, x)
    BY <2>1 DEF IsFold, IsFoldIn
  <2>. QED
    BY <2>2
<1>2. ASSUME NEW k \in T PROVE k + 1 \in T
  <2> SUFFICES ASSUME k + 1 <= n
               PROVE  \E f : IsFoldIn(Acc, f, step, k + 1, x)
    OBVIOUS
  <2>1. PICK f : IsFoldIn(Acc, f, step, k, x)
    OBVIOUS
  <2> DEFINE g == [s \in SUBSET (1 .. k + 1) |->
                     IF k + 1 \notin s THEN f[s] ELSE step[k + 1][f[s \ {k + 1}]]]
  <2>2. ASSUME NEW s \in SUBSET (1 .. k + 1)
        PROVE  /\ g[s] \in Acc
               /\ g[s] = IF s = {} THEN x ELSE step[Max(s)][g[s \ {Max(s)}]]
    <3>1. CASE k + 1 \in s
      <4>1. Max(s) = k + 1
        BY <3>1, MaxOfFirst
      <4>2. s \ {k + 1} \in SUBSET (1 .. k) /\ s \ {k + 1} \in SUBSET (1 .. k + 1)
        OBVIOUS
      <4>3. g[s \ {k + 1}] = f[s \ {k + 1}] /\ f[s \ {k + 1}] \in Acc
        BY <2>1, <4>2 DEF IsFoldIn
      <4>4. step[k + 1] \in [Acc -> Acc]
        OBVIOUS
      <4>. QED
        BY <3>1, <4>1, <4>3, <4>4
    <3>2. CASE k + 1 \notin s
      <4>1. s \in SUBSET (1 .. k) /\ g[s] = f[s]
        BY <3>2
      <4>2. g[s \ {Max(s)}] = f[s \ {Max(s)}]
        BY <3>2
      <4>. QED
        BY <2>1, <4>1, <4>2 DEF IsFold, IsFoldIn
    <3>. QED
      BY <3>1, <3>2
  <2> DEFINE h == [s \in SUBSET (1 .. k + 1) |->
                     IF s = {} THEN x ELSE step[Max(s)][g[s \ {Max(s)}]]]
  <2>3. \A s \in SUBSET (1 .. k + 1) : g[s] = h[s]
    BY <2>2
  <2>4. /\ g = [s \in SUBSET (1 .. k + 1) |-> g[s]]
        /\ h = [s \in SUBSET (1 .. k + 1) |-> h[s]]
    OBVIOUS
  <2> HIDE DEF g
  <2>5. g = h
    <3> HIDE DEF h
    <3>. QED
      BY <2>3, <2>4
  <2>6. IsFoldIn(Acc, g, step, k + 1, x)
    BY <2>2, <2>5 DEF IsFold, IsFoldIn
  <2>. QED
    BY <2>6
<1> HIDE DEF T
<1>3. T = Nat
  BY <1>1, <1>2, SetInduction DEF T
<1>4. n \in T
  BY <1>3
<1>. QED
  BY <1>4 DEF T

-----------------------------------------------------------------------------
(* Stages.                                                                 *)

\* The stages, one by one, and what they need.
LEMMA Stages ==
  /\ DOMAIN Needs = {"limit", "budget", "lookup", "insert", "publish", "charge",
                     "guard", "store"}
  /\ Running = {"limit", "budget", "prepare", "lookup", "call", "insert", "publish",
                "charge", "guard", "store", "stream", "frames"}
  /\ Stage = Running \union {"idle", "done", "lost"}
<1>1. DOMAIN Needs = {"limit", "budget", "lookup", "insert", "publish", "charge",
                      "guard", "store"}
  BY DEF Needs
<1>. QED
  BY <1>1 DEF Running, Stage

\* What a skippable stage needs.
LEMMA NeedsOf ==
  /\ Needs["limit"] = {"limiter"}
  /\ Needs["budget"] = {"budget"}
  /\ Needs["lookup"] = {"cache"}
  /\ Needs["insert"] = {"recorder"}
  /\ Needs["publish"] = {"recorder", "publisher"}
  /\ Needs["charge"] = {"recorder", "budget"}
  /\ Needs["guard"] = {"guards"}
  /\ Needs["store"] = {"cache"}
BY DEF Needs

\* What follows a skippable stage other than the last.
LEMMA FollowOf ==
  /\ Follow["limit"] = "budget"
  /\ Follow["budget"] = "prepare"
  /\ Follow["lookup"] = "call"
  /\ Follow["insert"] = "publish"
  /\ Follow["publish"] = "charge"
  /\ Follow["charge"] = "guard"
  /\ Follow["guard"] = "store"
BY DEF Follow

-----------------------------------------------------------------------------
(* The invariant.                                                          *)

\* The initial states satisfy it.
LEMMA InitIInv == Init => IInv
<1>. SUFFICES ASSUME Init PROVE IInv
  OBVIOUS
<1>1. TypeOK
  BY Stages DEF Init, TypeOK
<1>2. CacheIsKnown
  BY DEF Init, CacheIsKnown
<1>3. ASSUME NEW r \in Request PROVE Progress(r) /\ Booked(r)
  <2>1. stage[r] = "idle" /\ msgs[r] = None /\ result[r] = None /\ status[r] = 0
    BY DEF Init
  <2>2. r \notin rows /\ r \notin events /\ r \notin charged
    BY DEF Init
  <2>. QED
    BY <2>1, <2>2 DEF Progress, Booked, Unasked, Uncalled, Called, Streamed
<1>. QED
  BY <1>1, <1>2, <1>3 DEF IInv

\* A step of one request keeps it if that request is right afterwards, the
\* others are left alone and no answer is forgotten.
LEMMA OneRequest ==
  ASSUME IInv, NEW r \in Request,
         UNCHANGED <<wired, req>>,
         known \subseteq known',
         \A q \in Request \ {r} :
           /\ stage'[q] = stage[q] /\ msgs'[q] = msgs[q] /\ version'[q] = version[q]
           /\ result'[q] = result[q] /\ response'[q] = response[q]
           /\ status'[q] = status[q] /\ faults'[q] = faults[q]
           /\ q \in rows' <=> q \in rows
           /\ q \in events' <=> q \in events
           /\ q \in charged' <=> q \in charged,
         TypeOK', CacheIsKnown', Progress(r)', Booked(r)'
  PROVE  IInv'
<1>1. ASSUME NEW q \in Request, q # r PROVE Progress(q)' /\ Booked(q)'
  <2>1. Progress(q) /\ Booked(q)
    BY DEF IInv
  <2>2. QuestionOf(q)' = QuestionOf(q)
    BY <1>1 DEF QuestionOf
  <2>3. Progress(q)'
    BY <1>1, <2>1, <2>2 DEF Progress
  <2>4. Booked(q)'
    BY <1>1, <2>1 DEF Booked
  <2>. QED
    BY <2>3, <2>4
<1>. QED
  BY <1>1 DEF IInv

\* So does the end of a request with a status, from a stage before the call
\* or after its record.
LEMMA Ended ==
  ASSUME IInv, NEW r \in Request,
         NEW code \in {200, 404, 422, 429, 500},
         stage[r] \in Unasked \union Uncalled \union {"stream", "guard", "store"},
         Finish(r, code),
         UNCHANGED <<wired, req, msgs, version, result, production, ledger, known>>,
         \A q \in Request \ {r} : response'[q] = response[q] /\ faults'[q] = faults[q],
         faults[r] \subseteq faults'[r],
         code = 500 => stage[r] \in faults'[r],
         TypeOK', CacheIsKnown'
  PROVE  IInv'
<1>1. stage \in [Request -> Stage] /\ status \in [Request -> {0, 200, 404, 422, 429, 500}]
  BY DEF IInv, TypeOK
<1>2. stage'[r] = "done" /\ status'[r] = code
  BY <1>1 DEF Finish
<1>3. \A q \in Request \ {r} : stage'[q] = stage[q] /\ status'[q] = status[q]
  BY <1>1 DEF Finish
<1>4. Progress(r) /\ Booked(r)
  BY DEF IInv
<1>5. Progress(r)'
  BY <1>2 DEF Progress, Unasked, Uncalled, Called, Streamed
<1>6. Booked(r)'
  <2>1. result[r] = None \/ stage[r] \in {"guard", "store"}
    BY <1>4 DEF Progress, Streamed
  <2>. QED
    BY <1>2, <1>4, <2>1 DEF Booked, ledger, Unasked, Uncalled
<1>. QED
  BY <1>3, <1>5, <1>6, OneRequest DEF ledger

\* A request that goes on to another stage and changes nothing but what it
\* wrote to the books.
LEMMA GoneOn ==
  ASSUME IInv, NEW r \in Request, NEW next \in Stage,
         Goto(r, next),
         UNCHANGED <<wired, req, msgs, version, result, response, shared, sent, known>>,
         \A q \in Request \ {r} :
           /\ faults'[q] = faults[q]
           /\ q \in rows' <=> q \in rows
           /\ q \in events' <=> q \in events
           /\ q \in charged' <=> q \in charged,
         rows' \subseteq Request, events' \subseteq Request, charged' \subseteq Request,
         faults' \in [Request -> SUBSET Running],
         stage'[r] = next => Progress(r)' /\ Booked(r)'
  PROVE  IInv'
<1>1. stage \in [Request -> Stage]
  BY DEF IInv, TypeOK
<1>2. stage'[r] = next /\ \A q \in Request \ {r} : stage'[q] = stage[q]
  BY <1>1 DEF Goto
<1>3. TypeOK'
  <2>1. stage' \in [Request -> Stage]
    BY <1>1 DEF Goto
  <2>. QED
    BY <2>1 DEF IInv, TypeOK, Goto, shared
<1>4. CacheIsKnown'
  BY DEF IInv, CacheIsKnown, shared
<1>. QED
  BY <1>2, <1>3, <1>4, OneRequest DEF Goto

\* A request whose stage is skipped goes on or, at the end, is answered.
LEMMA SkipKeeps == ASSUME IInv, NEW r \in Request, Skip(r) PROVE IInv'
<1>1. Progress(r) /\ Booked(r)
  BY DEF IInv
<1>2. UNCHANGED <<wired, req, msgs, version, result, response, shared, ledger, sent, known, faults>>
  BY DEF Skip, history
<1>3. CASE stage[r] = "store"
  <2>1. Finish(r, 200)
    BY <1>3 DEF Skip
  <2>2. TypeOK'
    BY <1>2, <2>1, Stages DEF IInv, TypeOK, Finish, shared, ledger
  <2>3. CacheIsKnown'
    BY <1>2 DEF IInv, CacheIsKnown, shared
  <2>. QED
    BY <1>2, <1>3, <2>1, <2>2, <2>3, Ended DEF shared
<1>4. CASE stage[r] # "store"
  <2> DEFINE next == Follow[stage[r]]
  <2>1. /\ stage[r] \in {"limit", "budget", "lookup", "insert", "publish", "charge", "guard"}
        /\ ~(Needs[stage[r]] \subseteq wired)
        /\ Goto(r, next)
    BY <1>4, Stages DEF Skip
  <2>2. /\ next \in Stage
        /\ stage[r] = "insert" => "recorder" \notin wired
        /\ stage[r] = "charge" => "recorder" \notin wired \/ "budget" \notin wired
    BY <2>1, FollowOf, NeedsOf, Stages
  <2>3. ASSUME stage'[r] = next PROVE Progress(r)' /\ Booked(r)'
    <3>1. UNCHANGED <<msgs, version, result, response, status, req, wired, known>>
      BY <1>2, <2>1 DEF Goto
    <3>2. QuestionOf(r)' = QuestionOf(r)
      BY <3>1 DEF QuestionOf
    <3>3. Progress(r)'
      BY <1>1, <2>1, <2>3, <3>1, <3>2, FollowOf
         DEF Progress, Unasked, Uncalled, Called, Streamed
    <3>4. Booked(r)'
      BY <1>1, <1>2, <2>1, <2>2, <2>3, <3>1, FollowOf
         DEF Booked, Progress, Unasked, Uncalled, ledger
    <3>. QED
      BY <3>3, <3>4
  <2>4. /\ rows \subseteq Request /\ events \subseteq Request /\ charged \subseteq Request
        /\ faults \in [Request -> SUBSET Running]
    BY DEF IInv, TypeOK
  <2> HIDE DEF next
  <2>. QED
    BY <1>2, <2>1, <2>2, <2>3, <2>4, GoneOn DEF ledger
<1>. QED
  BY <1>3, <1>4

\* An exception that surfaces before the call or after its record.
LEMMA BreakKeeps ==
  ASSUME IInv, NEW r \in Request, Break(r),
         stage[r] \in Unasked \union Uncalled \union {"stream", "guard", "store"},
         stage[r] \in Running
  PROVE  IInv'
<1>1. /\ Finish(r, 500)
      /\ faults' = [faults EXCEPT ![r] = @ \union {stage[r]}]
      /\ UNCHANGED <<wired, req, msgs, version, result, response, shared, ledger, sent, known>>
  BY DEF Break, Raised
<1>2. faults \in [Request -> SUBSET Running]
  BY DEF IInv, TypeOK
<1>3. faults' \in [Request -> SUBSET Running]
  BY <1>1, <1>2
<1>4. TypeOK'
  BY <1>1, <1>3, Stages DEF IInv, TypeOK, Finish, shared, ledger
<1>5. CacheIsKnown'
  BY <1>1 DEF IInv, CacheIsKnown, shared
<1>. QED
  BY <1>1, <1>2, <1>4, <1>5, Ended DEF shared

\* A refusal with a status other than 500, before the call or after its
\* record.
LEMMA RefusalKeeps ==
  ASSUME IInv, NEW r \in Request, NEW code \in {200, 404, 422, 429}, Finish(r, code),
         stage[r] \in Unasked \union Uncalled \union {"stream", "guard", "store"},
         UNCHANGED <<wired, req, msgs, version, result, response, shared, ledger, history>>
  PROVE  IInv'
<1>1. TypeOK'
  BY Stages DEF IInv, TypeOK, Finish, shared, ledger, history
<1>2. CacheIsKnown'
  BY DEF IInv, CacheIsKnown, shared, history
<1>. QED
  BY <1>1, <1>2, Ended DEF shared, history

\* A request that only goes on, and was not yet called.
LEMMA MoveKeeps ==
  ASSUME IInv, NEW r \in Request, NEW next \in Stage, Goto(r, next),
         UNCHANGED <<wired, req, msgs, version, result, response, shared, ledger, history>>,
         \/ stage[r] \in Unasked /\ next \in Unasked
         \/ stage[r] \in Uncalled /\ next \in Uncalled
         \/ stage[r] = "guard" /\ next = "store"
         \/ next = "lost"
  PROVE  IInv'
<1>1. Progress(r) /\ Booked(r)
  BY DEF IInv
<1>2. UNCHANGED <<msgs, version, result, response, status, req, wired, rows, events,
                  charged, known, faults>>
  BY DEF Goto, ledger, history
<1>3. QuestionOf(r)' = QuestionOf(r)
  BY <1>2 DEF QuestionOf
<1>4. ASSUME stage'[r] = next PROVE Progress(r)' /\ Booked(r)'
  <2>1. Progress(r)'
    BY <1>1, <1>2, <1>3, <1>4 DEF Progress, Unasked, Uncalled, Called, Streamed
  <2>2. Booked(r)'
    BY <1>1, <1>2, <1>4 DEF Booked, Unasked, Uncalled
  <2>. QED
    BY <2>1, <2>2
<1>5. /\ rows \subseteq Request /\ events \subseteq Request /\ charged \subseteq Request
      /\ faults \in [Request -> SUBSET Running]
  BY DEF IInv, TypeOK
<1>. QED
  BY <1>2, <1>4, <1>5, GoneOn DEF history

\* Preparation fixes what the request asks.
LEMMA PrepareKeeps == ASSUME IInv, NEW r \in Request, Prepare(r) PROVE IInv'
<1> DEFINE v == IF "prompts" \in wired /\ req[r].ref # None THEN Resolved(req[r].ref)
                ELSE Unversioned
           guarded == IF "guards" \in wired THEN RunChain(PreChain, req[r].text)
                      ELSE req[r].text
<1>1. /\ stage[r] = "prepare"
      /\ guarded # Rejected
      /\ msgs' = [msgs EXCEPT ![r] = [text |-> guarded, prompt |-> v]]
      /\ version' = [version EXCEPT ![r] = v]
      /\ Goto(r, AfterPrepare(r))
      /\ UNCHANGED <<wired, req, result, response, shared, ledger, sent, known, faults>>
  BY DEF Prepare, history
<1>2. req[r] \in Arrival /\ production \in Version
  BY DEF IInv, TypeOK
<1>3. req[r].text \in Text /\ req[r].ref \in Version \union {Production, None}
  BY <1>2, ChatAssumption
<1>4. v \in Version \union {Unversioned}
  BY <1>2, <1>3 DEF Resolved
<1>5. guarded \in Text
  BY <1>1, <1>3, ChainLeavesText
<1>6. AfterPrepare(r) \in {"stream", "lookup"}
  BY DEF AfterPrepare
<1>7. [text |-> guarded, prompt |-> v] \in Messages
  BY <1>4, <1>5 DEF Messages
<1> HIDE DEF v, guarded
<1>8. TypeOK'
  <2>1. msgs' \in [Request -> Messages \union {None}]
    BY <1>1, <1>7 DEF IInv, TypeOK
  <2>2. version' \in [Request -> Version \union {Unversioned}]
    BY <1>1, <1>4 DEF IInv, TypeOK
  <2>3. stage' \in [Request -> Stage]
    BY <1>1, <1>6, Stages DEF IInv, TypeOK, Goto
  <2>. QED
    BY <1>1, <2>1, <2>2, <2>3 DEF IInv, TypeOK, Goto, shared, ledger
<1>9. CacheIsKnown'
  BY <1>1 DEF IInv, CacheIsKnown, shared
<1>10. Progress(r) /\ Booked(r) /\ stage \in [Request -> Stage]
       /\ msgs \in [Request -> Messages \union {None}]
       /\ version \in [Request -> Version \union {Unversioned}]
  BY DEF IInv, TypeOK
<1>11. stage'[r] = AfterPrepare(r) /\ \A q \in Request \ {r} : stage'[q] = stage[q]
  BY <1>1, <1>10 DEF Goto
<1>12. msgs'[r] # None
  BY <1>1, <1>7, <1>10, NoneAssumption
<1>13. Progress(r)'
  BY <1>1, <1>6, <1>10, <1>11, <1>12
     DEF Progress, Unasked, Uncalled, Called, Streamed, AfterPrepare, Goto
<1>14. Booked(r)'
  BY <1>1, <1>6, <1>10, <1>11 DEF Booked, ledger, Goto
<1>. QED
  BY <1>1, <1>8, <1>9, <1>10, <1>11, <1>13, <1>14, OneRequest DEF Goto, ledger

\* A hit answers from the cache.
LEMMA HitKeeps == ASSUME IInv, NEW r \in Request, Hit(r) PROVE IInv'
<1>1. PICK e \in cache : response' = [response EXCEPT ![r] = e.answer]
  BY DEF Hit
<1>2. /\ stage[r] = "lookup"
      /\ Finish(r, 200)
      /\ UNCHANGED <<wired, req, msgs, version, result, shared, ledger, sent, known, faults>>
  BY DEF Hit, At, history
<1>3. e.answer \in Answer
  BY DEF IInv, TypeOK
<1>4. TypeOK'
  <2>1. response' \in [Request -> Answer \union {None}]
    BY <1>1, <1>3 DEF IInv, TypeOK
  <2>2. stage' \in [Request -> Stage] /\ status' \in [Request -> {0, 200, 404, 422, 429, 500}]
    BY <1>2, Stages DEF IInv, TypeOK, Finish
  <2>3. UNCHANGED <<wired, req, msgs, version, result, production, cache, rows, events, charged,
                    sent, known, faults>>
    BY <1>2 DEF shared, ledger
  <2>. QED
    BY <2>1, <2>2, <2>3 DEF IInv, TypeOK
<1>5. CacheIsKnown'
  BY <1>2 DEF IInv, CacheIsKnown, shared
<1>6. \A q \in Request \ {r} : response'[q] = response[q]
  BY <1>1 DEF IInv, TypeOK
<1>. QED
  BY <1>2, <1>4, <1>5, <1>6, Ended DEF Uncalled, shared

\* An answer of the provider becomes known with its question.
LEMMA CallKeeps == ASSUME IInv, NEW r \in Request, Call(r) PROVE IInv'
<1>1. PICK a \in Answer :
        /\ result' = [result EXCEPT ![r] = a]
        /\ response' = [response EXCEPT ![r] = a]
        /\ known' = known \union {[question |-> QuestionOf(r), answer |-> a]}
  BY DEF Call
<1>2. /\ stage[r] = "call"
      /\ sent' = [sent EXCEPT ![r] = msgs[r]]
      /\ Goto(r, "insert")
      /\ UNCHANGED <<wired, req, msgs, version, shared, ledger, faults>>
  BY DEF Call
<1>3. Progress(r) /\ Booked(r) /\ TypeOK
  BY DEF IInv
<1>4. msgs[r] \in Messages
  BY <1>2, <1>3 DEF TypeOK, Progress, Uncalled
<1>5. QuestionOf(r) \in Question
  BY <1>3, <1>4 DEF QuestionOf, Question, TypeOK
<1>6. TypeOK'
  <2>1. /\ result' \in [Request -> Answer \union {None}]
        /\ response' \in [Request -> Answer \union {None}]
    BY <1>1, <1>3 DEF TypeOK
  <2>2. known' \subseteq [question : Question, answer : Answer]
    BY <1>1, <1>3, <1>5 DEF TypeOK
  <2>3. sent' \in [Request -> Messages \union {None}]
    BY <1>2, <1>3, <1>4 DEF TypeOK
  <2>4. stage' \in [Request -> Stage]
    BY <1>2, <1>3, Stages DEF TypeOK, Goto
  <2>. QED
    BY <1>2, <1>3, <2>1, <2>2, <2>3, <2>4 DEF TypeOK, Goto, shared, ledger
<1>7. CacheIsKnown'
  BY <1>1, <1>2 DEF IInv, CacheIsKnown, shared
<1>8. /\ stage'[r] = "insert" /\ result'[r] = a /\ response'[r] = a
      /\ \A q \in Request \ {r} :
           stage'[q] = stage[q] /\ result'[q] = result[q] /\ response'[q] = response[q]
  BY <1>1, <1>2, <1>3 DEF TypeOK, Goto
<1>9. QuestionOf(r)' = QuestionOf(r)
  BY <1>2 DEF QuestionOf
<1>10. Progress(r)'
  <2>1. a # None
    BY ChatAssumption
  <2>2. [question |-> QuestionOf(r), answer |-> a] \in known'
    BY <1>1
  <2>. QED
    BY <1>2, <1>3, <1>8, <1>9, <2>1, <2>2
       DEF Progress, Unasked, Uncalled, Called, Streamed, Goto
<1>11. Booked(r)'
  BY <1>2, <1>3, <1>8 DEF Booked, Progress, Uncalled, Goto, ledger
<1>. QED
  BY <1>1, <1>2, <1>6, <1>7, <1>8, <1>10, <1>11, OneRequest DEF Goto, ledger

\* A call that raises ends the request.
LEMMA CallFailsKeeps == ASSUME IInv, NEW r \in Request, CallFails(r) PROVE IInv'
<1>1. /\ stage[r] = "call"
      /\ Finish(r, 500)
      /\ faults' = [faults EXCEPT ![r] = @ \union {stage[r]}]
      /\ sent' = [sent EXCEPT ![r] = msgs[r]]
      /\ UNCHANGED <<wired, req, msgs, version, result, response, shared, ledger, known>>
  BY DEF CallFails, Raised
<1>2. faults \in [Request -> SUBSET Running]
  BY DEF IInv, TypeOK
<1>3. faults' \in [Request -> SUBSET Running]
  BY <1>1, <1>2, Stages
<1>4. sent' \in [Request -> Messages \union {None}]
  BY <1>1 DEF IInv, TypeOK
<1>5. TypeOK'
  BY <1>1, <1>3, <1>4, Stages DEF IInv, TypeOK, Finish, shared, ledger
<1>6. CacheIsKnown'
  BY <1>1 DEF IInv, CacheIsKnown, shared
<1>. QED
  BY <1>1, <1>2, <1>5, <1>6, Ended DEF Uncalled, shared

\* The books: a write, or the fault that prevents it.
LEMMA BooksKeep ==
  ASSUME IInv, NEW r \in Request, Insert(r) \/ Publish(r) \/ Charge(r)
  PROVE  IInv'
<1> DEFINE Frame == UNCHANGED <<wired, req, msgs, version, result, response, shared,
                                sent, known>>
<1>1. /\ Progress(r) /\ Booked(r)
      /\ rows \subseteq Request /\ events \subseteq Request /\ charged \subseteq Request
      /\ faults \in [Request -> SUBSET Running]
      /\ stage \in [Request -> Stage]
  BY DEF IInv, TypeOK
<1>2. /\ Frame
      /\ stage[r] \in {"insert", "publish", "charge"}
      /\ \/ faults' = faults
         \/ faults' = [faults EXCEPT ![r] = @ \union {stage[r]}]
      /\ "recorder" \in wired
  BY NeedsOf, Stages DEF Insert, Publish, Charge, At, Raised
<1>3. /\ faults' \in [Request -> SUBSET Running]
      /\ \A q \in Request \ {r} : faults'[q] = faults[q]
      /\ faults[r] \subseteq faults'[r]
  BY <1>1, <1>2, Stages
<1>4. QuestionOf(r)' = QuestionOf(r)
  BY <1>2 DEF QuestionOf
<1>5. result[r] # None
  BY <1>1, <1>2 DEF Progress, Called
<1>6. ASSUME NEW next \in Called, Goto(r, next), stage'[r] = next
      PROVE  Progress(r)'
  BY <1>1, <1>2, <1>4, <1>6 DEF Progress, Unasked, Uncalled, Called, Streamed, Goto
<1>7. status[r] = 0
  BY <1>1, <1>2 DEF Progress, Called
<1>8. CASE Insert(r)
  <2>1. /\ stage[r] = "insert"
        /\ UNCHANGED <<events, charged>>
        /\ r \notin charged
    BY <1>1, <1>8 DEF Insert, At, Booked
  <2>2. CASE rows' = rows \union {r} /\ Goto(r, "publish") /\ UNCHANGED faults
    <3>1. ASSUME stage'[r] = "publish" PROVE Progress(r)' /\ Booked(r)'
      <4>1. Progress(r)'
        BY <1>6, <2>2, <3>1 DEF Called
      <4>2. Booked(r)'
        BY <1>2, <1>5, <1>7, <2>1, <2>2, <3>1 DEF Booked, Goto
      <4>. QED
        BY <4>1, <4>2
    <3>. QED
      BY <1>1, <1>2, <1>3, <2>1, <2>2, <3>1, GoneOn, Stages
  <2>3. CASE UNCHANGED rows /\ Goto(r, "guard") /\ Raised(r)
    <3>1. "insert" \in faults'[r]
      BY <1>1, <2>1, <2>3 DEF Raised
    <3>2. ASSUME stage'[r] = "guard" PROVE Progress(r)' /\ Booked(r)'
      BY <1>1, <1>2, <1>5, <1>6, <1>7, <2>1, <2>3, <3>1, <3>2 DEF Booked, Goto, Called
    <3>. QED
      BY <1>1, <1>2, <1>3, <2>1, <2>3, <3>2, GoneOn, Stages
  <2>. QED
    BY <1>8, <2>2, <2>3 DEF Insert
<1>9. CASE Publish(r)
  <2>1. /\ stage[r] = "publish"
        /\ UNCHANGED <<rows, charged>>
        /\ Goto(r, "charge")
        /\ events' = events \union {r} \/ events' = events
        /\ r \notin charged /\ r \in rows
    BY <1>1, <1>2, <1>9 DEF Publish, At, Booked
  <2>2. ASSUME stage'[r] = "charge" PROVE Progress(r)' /\ Booked(r)'
    BY <1>2, <1>5, <1>6, <1>7, <2>1, <2>2 DEF Booked, Goto, Called
  <2>. QED
    BY <1>1, <1>2, <1>3, <2>1, <2>2, GoneOn, Stages
<1>10. CASE Charge(r)
  <2>1. /\ stage[r] = "charge"
        /\ UNCHANGED <<rows, events>>
        /\ Goto(r, "guard")
        /\ r \in rows
    BY <1>1, <1>2, <1>10 DEF Charge, At, Booked
  <2>2. \/ charged' = charged \union {r}
        \/ charged' = charged /\ "charge" \in faults'[r]
    BY <1>1, <1>10, <2>1 DEF Charge, Raised
  <2>3. ASSUME stage'[r] = "guard" PROVE Progress(r)' /\ Booked(r)'
    <3>1. Progress(r)'
      BY <1>6, <2>1, <2>3 DEF Called
    <3>2. Booked(r)'
      BY <1>2, <1>5, <1>7, <2>1, <2>2, <2>3 DEF Booked, Goto
    <3>. QED
      BY <3>1, <3>2
  <2>. QED
    BY <1>1, <1>2, <1>3, <2>1, <2>2, <2>3, GoneOn, Stages
<1>. QED
  BY <1>8, <1>9, <1>10

\* What is stored was answered to a question of the key's tenant, model and
\* messages.
LEMMA StoreKeeps == ASSUME IInv, NEW r \in Request, Store(r) PROVE IInv'
<1>1. /\ stage[r] = "store"
      /\ cache' = {e \in cache : e.key # BuildKey(r)}
                    \union {[key |-> BuildKey(r), answer |-> response[r]]}
      /\ Finish(r, 200)
      /\ UNCHANGED <<wired, req, msgs, version, result, response, production, ledger,
                     sent, known, faults>>
  BY DEF Store, At, history
<1> DEFINE entry == [key |-> BuildKey(r), answer |-> response[r]]
           given == [question |-> QuestionOf(r), answer |-> result[r]]
<1>2. Progress(r) /\ TypeOK
  BY DEF IInv
<1>3. given \in known /\ response[r] = result[r] /\ result[r] # None /\ msgs[r] # None
  BY <1>1, <1>2 DEF Progress, Called
<1>4. GivenTo(entry, given)
  BY <1>3 DEF GivenTo, BuildKey, QuestionOf
<1>5. CacheIsKnown'
  <2>1. \A e \in cache' : e \in cache \/ e = entry
    BY <1>1
  <2>2. \A e \in cache' : \E k \in known : GivenTo(e, k)
    <3> HIDE DEF entry, given
    <3>. QED
      BY <2>1, <1>3, <1>4 DEF IInv, CacheIsKnown
  <2>. QED
    BY <1>1, <2>2 DEF CacheIsKnown, GivenTo
<1>6. TypeOK'
  <2>1. BuildKey(r) \in CacheKey /\ response[r] \in Answer
    BY <1>2, <1>3 DEF TypeOK, BuildKey, CacheKey
  <2>2. cache' \subseteq [key : CacheKey, answer : Answer]
    BY <1>1, <1>2, <2>1 DEF TypeOK
  <2>. QED
    BY <1>1, <1>2, <2>2, Stages DEF TypeOK, Finish, ledger
<1>. QED
  BY <1>1, <1>5, <1>6, Ended

\* A stream opens with its 200, and is cut or ends without another status.
LEMMA StreamKeeps ==
  ASSUME IInv, NEW r \in Request, Open(r) \/ Pull(r) \/ EndStream(r)
  PROVE  IInv'
<1>1. /\ Progress(r) /\ Booked(r)
      /\ stage[r] \in Streamed
      /\ UNCHANGED <<wired, req, msgs, version, result, response, shared, ledger, known>>
  BY DEF IInv, Open, Pull, EndStream, history, Streamed
<1>2. /\ stage \in [Request -> Stage] /\ sent \in [Request -> Messages \union {None}]
      /\ msgs \in [Request -> Messages \union {None}]
      /\ status \in [Request -> {0, 200, 404, 422, 429, 500}]
      /\ faults \in [Request -> SUBSET Running]
  BY DEF IInv, TypeOK
<1>3. CacheIsKnown'
  BY <1>1 DEF IInv, CacheIsKnown, shared
<1>4. QuestionOf(r)' = QuestionOf(r)
  BY <1>1 DEF QuestionOf
<1>5. result[r] = None
  BY <1>1 DEF Progress
<1>6. CASE Open(r)
  <2>1. /\ stage' = [stage EXCEPT ![r] = "frames"]
        /\ status' = [status EXCEPT ![r] = 200]
        /\ stage[r] = "stream"
        /\ UNCHANGED <<sent, faults>>
    BY <1>6 DEF Open, history
  <2>2. TypeOK'
    BY <1>1, <2>1, Stages DEF IInv, TypeOK, shared, ledger
  <2>3. /\ stage'[r] = "frames" /\ status'[r] = 200
        /\ \A q \in Request \ {r} : stage'[q] = stage[q] /\ status'[q] = status[q]
    BY <1>2, <2>1
  <2>4. Progress(r)'
    BY <1>1, <1>4, <2>1, <2>3 DEF Progress, Unasked, Uncalled, Called, Streamed
  <2>5. Booked(r)'
    BY <1>1, <1>5, <2>1, <2>3 DEF Booked, ledger
  <2>. QED
    BY <1>1, <1>3, <2>1, <2>2, <2>3, <2>4, <2>5, OneRequest DEF ledger
<1>7. CASE Pull(r)
  <2>1. /\ sent' = [sent EXCEPT ![r] = msgs[r]]
        /\ UNCHANGED <<stage, status, faults>>
    BY <1>7 DEF Pull
  <2>2. sent' \in [Request -> Messages \union {None}]
    BY <1>2, <2>1
  <2>3. TypeOK'
    BY <1>1, <2>1, <2>2 DEF IInv, TypeOK, shared, ledger
  <2>4. Progress(r)' /\ Booked(r)'
    BY <1>1, <1>4, <2>1 DEF Progress, Booked, ledger
  <2>. QED
    BY <1>1, <1>3, <2>1, <2>3, <2>4, OneRequest DEF ledger
<1>8. CASE EndStream(r)
  <2>1. /\ Goto(r, "done")
        /\ stage[r] = "frames"
        /\ faults' \in {faults, [faults EXCEPT ![r] = @ \union {"frames"}]}
        /\ UNCHANGED sent
    BY <1>8 DEF EndStream
  <2>2. /\ faults' \in [Request -> SUBSET Running]
        /\ \A q \in Request \ {r} : faults'[q] = faults[q]
    BY <1>2, <2>1, Stages
  <2>3. ASSUME stage'[r] = "done" PROVE Progress(r)' /\ Booked(r)'
    <3>1. status[r] = 200
      BY <1>1, <2>1 DEF Progress
    <3>2. Progress(r)'
      BY <2>3 DEF Progress, Unasked, Uncalled, Called, Streamed
    <3>3. Booked(r)'
      BY <1>1, <1>5, <2>1, <2>3, <3>1 DEF Booked, ledger, Goto
    <3>. QED
      BY <3>2, <3>3
  <2>4. rows \subseteq Request /\ events \subseteq Request /\ charged \subseteq Request
    BY DEF IInv, TypeOK
  <2>. QED
    BY <1>1, <2>1, <2>2, <2>3, <2>4, GoneOn, Stages DEF ledger
<1>. QED
  BY <1>6, <1>7, <1>8

\* A promotion or an expired entry changes no request.
LEMMA EnvironmentKeeps ==
  ASSUME IInv, (\E v \in Version : Promote(v)) \/ (\E e \in cache : Expire(e))
  PROVE  IInv'
<1>1. /\ UNCHANGED <<wired, req, stage, msgs, version, result, response, status, ledger, history>>
      /\ production' \in Version
      /\ cache' \subseteq cache
  BY DEF Promote, Expire, IInv, TypeOK
<1>2. TypeOK'
  BY <1>1 DEF IInv, TypeOK, ledger, history
<1>3. CacheIsKnown'
  BY <1>1 DEF IInv, CacheIsKnown, history
<1>4. ASSUME NEW r \in Request PROVE Progress(r)' /\ Booked(r)'
  <2>1. Progress(r) /\ Booked(r)
    BY DEF IInv
  <2>2. QuestionOf(r)' = QuestionOf(r)
    BY <1>1 DEF QuestionOf
  <2>. QED
    BY <1>1, <2>1, <2>2 DEF Progress, Booked, ledger, history
<1>. QED
  BY <1>2, <1>3, <1>4 DEF IInv

\* Every step of a request keeps the invariant.
LEMMA RequestKeeps ==
  ASSUME IInv, NEW r \in Request, Receive(r) \/ Step(r) \/ Lose(r)
  PROVE  IInv'
<1>1. ASSUME Receive(r) PROVE IInv'
  <2>1. /\ stage[r] = "idle"
        /\ Finish(r, 404) \/ Goto(r, "limit")
        /\ UNCHANGED <<wired, req, msgs, version, result, response, shared, ledger, history>>
    BY <1>1 DEF Receive
  <2>. QED
    BY <2>1, MoveKeeps, RefusalKeeps, Stages DEF Unasked
<1>2. ASSUME Lose(r) PROVE IInv'
  BY <1>2, MoveKeeps, Stages DEF Lose
<1>3. ASSUME Limit(r) PROVE IInv'
  BY <1>3, MoveKeeps, RefusalKeeps, BreakKeeps, Stages DEF Limit, At, Unasked
<1>4. ASSUME Budget(r) PROVE IInv'
  <2>1. stage[r] = "budget"
    BY <1>4 DEF Budget, At
  <2>2. CASE Break(r)
    BY <2>1, <2>2, BreakKeeps, Stages DEF Unasked
  <2>3. CASE ~Break(r)
    <3>1. /\ Finish(r, 429) \/ Goto(r, "prepare")
          /\ UNCHANGED <<wired, req, msgs, version, result, response, shared, ledger, history>>
      BY <1>4, <2>3 DEF Budget
    <3>. QED
      BY <2>1, <3>1, MoveKeeps, RefusalKeeps, Stages DEF Unasked
  <2>. QED
    BY <2>2, <2>3
<1>5. ASSUME RejectPre(r) PROVE IInv'
  BY <1>5, RefusalKeeps DEF RejectPre, Unasked
<1>6. ASSUME BadPrompt(r) PROVE IInv'
  BY <1>6, BreakKeeps, Stages DEF BadPrompt, Unasked
<1>7. ASSUME Miss(r) PROVE IInv'
  BY <1>7, MoveKeeps, Stages DEF Miss, At, Uncalled
<1>8. ASSUME LookupFails(r) PROVE IInv'
  BY <1>8, BreakKeeps, Stages DEF LookupFails, At, Uncalled
<1>9. ASSUME UnknownModel(r) PROVE IInv'
  BY <1>9, RefusalKeeps DEF UnknownModel, Uncalled
<1>10. ASSUME Guard(r) PROVE IInv'
  <2>1. /\ stage[r] = "guard"
        /\ Finish(r, 422) \/ Goto(r, "store")
        /\ UNCHANGED <<wired, req, msgs, version, result, response, shared, ledger, history>>
    BY <1>10 DEF Guard, At
  <2>. QED
    BY <2>1, MoveKeeps, RefusalKeeps, Stages
<1>11. ASSUME StoreFails(r) PROVE IInv'
  BY <1>11, BreakKeeps, Stages DEF StoreFails, At
<1>. QED
  BY <1>1, <1>2, <1>3, <1>4, <1>5, <1>6, <1>7, <1>8, <1>9, <1>10, <1>11,
     SkipKeeps, PrepareKeeps, HitKeeps, CallKeeps, CallFailsKeeps, BooksKeep,
     StoreKeeps, StreamKeeps DEF Step

\* Every step of the specification keeps the invariant, and so does a stutter.
LEMMA StepIInv == IInv /\ [Next]_vars => IInv'
<1>. SUFFICES ASSUME IInv, [Next]_vars PROVE IInv'
  OBVIOUS
<1>1. CASE Next
  BY <1>1, RequestKeeps, EnvironmentKeeps DEF Next
<1>2. CASE UNCHANGED vars
  <2>1. UNCHANGED <<wired, req, stage, msgs, version, result, response, status,
                    production, cache, rows, events, charged, sent, known, faults>>
    BY <1>2 DEF vars, shared, ledger, history
  <2>2. TypeOK' /\ CacheIsKnown'
    BY <2>1 DEF IInv, TypeOK, CacheIsKnown
  <2>3. ASSUME NEW r \in Request PROVE Progress(r)' /\ Booked(r)'
    <3>1. Progress(r) /\ Booked(r)
      BY DEF IInv
    <3>. QED
      BY <2>1, <3>1 DEF Progress, Booked, QuestionOf
  <2>. QED
    BY <2>2, <2>3 DEF IInv
<1>. QED
  BY <1>1, <1>2

\* The invariant holds, for any requests, tenants, deployments and faults.
THEOREM Invariance == Spec => []IInv
BY InitIInv, StepIInv, PTL DEF Spec

\* Type correctness.
THEOREM TypeCorrect == Spec => []TypeOK
<1>1. IInv => TypeOK
  BY DEF IInv
<1>. QED
  BY <1>1, Invariance, PTL

\* What was charged or published has a row, a row has a call, and only a
\* fault leaves a finished call unrecorded or uncharged.
THEOREM BooksCorrect == Spec => []BilledIsRecorded
<1>1. IInv => BilledIsRecorded
  BY DEF IInv, TypeOK, Booked, BilledIsRecorded
<1>. QED
  BY <1>1, Invariance, PTL

\* "Accounting never fails the request."
THEOREM AccountingCorrect == Spec => []AccountingNeverFails
<1>1. IInv => AccountingNeverFails
  BY DEF IInv, Booked, AccountingNeverFails
<1>. QED
  BY <1>1, Invariance, PTL

-----------------------------------------------------------------------------
(* What providers see.                                                     *)

\* What the pre-chain lets through of some text, if it is wired.
Guarded(m) ==
  "guards" \in wired =>
    \E t \in Text : RunChain(PreChain, t) # Rejected /\ m.text = RunChain(PreChain, t)

\* A request's messages are guarded, and so are the ones a provider got.
GInv ==
  \A r \in Request :
    /\ msgs[r] # None => Guarded(msgs[r])
    /\ sent[r] # None => Guarded(sent[r])

\* Only preparation writes messages; a provider gets a request's own.
LEMMA MessagesFrame ==
  ASSUME IInv, [Next]_vars
  PROVE  /\ wired' = wired
         /\ \/ msgs' = msgs
            \/ \E r \in Request : Prepare(r)
         /\ \/ sent' = sent
            \/ \E r \in Request : sent' = [sent EXCEPT ![r] = msgs[r]] /\ msgs' = msgs
<1>1. ASSUME NEW r \in Request, Receive(r) \/ Skip(r) \/ Lose(r) \/ Limit(r) \/ Budget(r)
                                \/ RejectPre(r) \/ BadPrompt(r)
      PROVE  UNCHANGED <<wired, msgs, sent>>
  BY <1>1 DEF Receive, Skip, Lose, Limit, Budget, RejectPre, BadPrompt, Break, history
<1>2. ASSUME NEW r \in Request, Hit(r) \/ Miss(r) \/ LookupFails(r) \/ UnknownModel(r)
                                \/ Insert(r) \/ Publish(r) \/ Charge(r) \/ Guard(r)
                                \/ Store(r) \/ StoreFails(r) \/ Open(r) \/ EndStream(r)
      PROVE  UNCHANGED <<wired, msgs, sent>>
  BY <1>2 DEF Hit, Miss, LookupFails, UnknownModel, Insert, Publish, Charge, Guard,
              Store, StoreFails, Open, EndStream, Break, history
<1>3. ASSUME NEW r \in Request, Prepare(r) PROVE UNCHANGED <<wired, sent>>
  BY <1>3 DEF Prepare, history
<1>4. ASSUME NEW r \in Request, Call(r) \/ CallFails(r) \/ Pull(r)
      PROVE  UNCHANGED <<wired, msgs>> /\ sent' = [sent EXCEPT ![r] = msgs[r]]
  BY <1>4 DEF Call, CallFails, Pull
<1>5. ASSUME \/ \E v \in Version : Promote(v)
             \/ \E e \in cache : Expire(e)
             \/ UNCHANGED vars
      PROVE  UNCHANGED <<wired, msgs, sent>>
  BY <1>5 DEF Promote, Expire, vars, history
<1>. QED
  BY <1>1, <1>2, <1>3, <1>4, <1>5 DEF Next, Step

\* Preparation leaves what the pre-chain leaves of a text.
LEMMA PrepareGuards ==
  ASSUME IInv, NEW r \in Request, Prepare(r)
  PROVE  /\ \A q \in Request \ {r} : msgs'[q] = msgs[q]
         /\ Guarded(msgs'[r])
<1>1. PICK guarded, v :
        /\ guarded # Rejected
        /\ msgs' = [msgs EXCEPT ![r] = [text |-> guarded, prompt |-> v]]
        /\ "guards" \in wired => guarded = RunChain(PreChain, req[r].text)
  BY DEF Prepare
<1>2. msgs \in [Request -> Messages \union {None}] /\ req[r].text \in Text
  BY ChatAssumption DEF IInv, TypeOK
<1>3. msgs'[r].text = guarded
  BY <1>1, <1>2
<1>. QED
  BY <1>1, <1>2, <1>3 DEF Guarded

\* The invariant holds at first, ...
LEMMA InitGInv == Init => GInv
BY DEF Init, GInv

\* ... and every step keeps it.
LEMMA StepGInv == IInv /\ GInv /\ [Next]_vars => GInv'
<1>. SUFFICES ASSUME IInv, GInv, [Next]_vars, NEW r \in Request
              PROVE  /\ msgs'[r] # None => Guarded(msgs[r])'
                     /\ sent'[r] # None => Guarded(sent[r])'
  BY DEF GInv
<1>1. wired' = wired
  BY MessagesFrame
<1>2. /\ Guarded(msgs[r])' <=> Guarded(msgs'[r])
      /\ Guarded(sent[r])' <=> Guarded(sent'[r])
  BY <1>1 DEF Guarded
<1>3. /\ msgs[r] # None => Guarded(msgs[r])
      /\ sent[r] # None => Guarded(sent[r])
      /\ sent \in [Request -> Messages \union {None}]
  BY DEF GInv, IInv, TypeOK
<1>4. msgs'[r] # None => Guarded(msgs'[r])
  BY <1>3, MessagesFrame, PrepareGuards
<1>5. sent'[r] # None => Guarded(sent'[r])
  BY <1>3, MessagesFrame
<1>. QED
  BY <1>2, <1>4, <1>5

\* What providers are sent was let through by the whole pre-chain.
LEMMA SentIsGuarded == Spec => []GInv
BY InitGInv, StepGInv, Invariance, PTL DEF Spec

\* A provider sees no text that a guard which holds would change or reject,
\* whatever the other guards of the pre-chain are.
THEOREM EachGuardHolds ==
  ASSUME NEW i \in 1 .. Len(PreChain), GuardHolds(PreChain, i)
  PROVE  Spec => [](\A r \in Request :
                      sent[r] # None /\ "guards" \in wired =>
                        PreChain[i][sent[r].text] = sent[r].text)
<1>1. GInv => \A r \in Request :
                sent[r] # None /\ "guards" \in wired =>
                  PreChain[i][sent[r].text] = sent[r].text
  BY ChainKeeps, ChainAssumption DEF GInv, Guarded
<1>. QED
  BY <1>1, SentIsGuarded, PTL

\* If every guard holds, "the provider never sees raw PII", nor anything else
\* that the pre-chain would not let through as it is.
THEOREM GuardedCorrect ==
  ASSUME \A i \in 1 .. Len(PreChain) : GuardHolds(PreChain, i)
  PROVE  Spec => []ProviderSeesGuarded
<1>1. GInv => ProviderSeesGuarded
  BY ChainSettles, ChainAssumption DEF GInv, Guarded, ProviderSeesGuarded
<1>. QED
  BY <1>1, SentIsGuarded, PTL

-----------------------------------------------------------------------------
(* The deployed guards, as Guards has them, hold: "the provider never sees *)
(* raw PII", whatever is asked and however long.                           *)

\* The categories of the fast path.
Fast == {"EMAIL", "CREDIT_CARD", "SSN", "PHONE"}

\* The first k of the first numbers.
LEMMA FirstNumbers ==
  ASSUME NEW n \in Nat, NEW k \in 1 .. n
  PROVE  /\ 1 .. k \in SUBSET (1 .. n) /\ 1 .. k # {}
         /\ Max(1 .. k) = k
         /\ (1 .. k) \ {k} = 1 .. (k - 1)
<1>1. k \in Nat \ {0} /\ 1 .. k \in SUBSET (1 .. k) /\ k \in 1 .. k
  OBVIOUS
<1>2. Max(1 .. k) = k
  BY <1>1, MaxOfFirst
<1>. QED
  BY <1>1, <1>2

\* What RedactText carries from pattern to pattern, and what a pattern makes of it.
AccOf(Word, P) == [text : Seq(Word), counts : [P -> Nat]]

RedactedAs(mark, a, c) ==
  [text |-> G!Sub(c, mark[c], a.text),
   counts |-> [a.counts EXCEPT ![c] = G!Hits(c, a.text)]]

\* The words a pattern finds.
Found(c, t) == {i \in DOMAIN t : c \in G!Matches(t[i])}

\* They are finitely many.
LEMMA FoundIs ==
  ASSUME NEW Word, NEW t \in Seq(Word), NEW c
  PROVE  IsFiniteSet(Found(c, t)) /\ G!Hits(c, t) = Cardinality(Found(c, t))
         /\ G!Hits(c, t) \in Nat
<1>1. DOMAIN t = 1 .. Len(t) /\ Len(t) \in Nat
  OBVIOUS
<1>2. IsFiniteSet(1 .. Len(t)) /\ Found(c, t) \subseteq 1 .. Len(t)
  BY <1>1, FS_Interval DEF Found
<1>3. IsFiniteSet(Found(c, t))
  BY <1>2, FS_Subset
<1>4. G!Hits(c, t) = Cardinality(Found(c, t))
  BY DEF G!Hits, G!Cardinality, Cardinality, Found
<1>. QED
  BY <1>3, <1>4, FS_CardinalityType

\* One pattern's marks stand where it matched.
LEMMA SubstIs ==
  ASSUME NEW Word, NEW t \in Seq(Word), NEW c, NEW m \in Word
  PROVE  /\ G!Sub(c, m, t) \in Seq(Word)
         /\ DOMAIN G!Sub(c, m, t) = DOMAIN t
         /\ \A i \in DOMAIN t :
              G!Sub(c, m, t)[i] = IF i \in Found(c, t) THEN m ELSE t[i]
<1>1. /\ Len(t) \in Nat /\ DOMAIN t = 1 .. Len(t)
      /\ \A i \in 1 .. Len(t) : t[i] \in Word
  OBVIOUS
<1>. QED
  BY <1>1 DEF G!Sub, Found

\* A pattern leaves a text and counts.
LEMMA RedactedAsIs ==
  ASSUME NEW Word, NEW P, NEW mark, \A d \in P : mark[d] \in Word,
         NEW a \in AccOf(Word, P), NEW c \in P
  PROVE  RedactedAs(mark, a, c) \in AccOf(Word, P)
<1>1. a.text \in Seq(Word) /\ a.counts \in [P -> Nat] /\ mark[c] \in Word
  BY DEF AccOf
<1>2. G!Sub(c, mark[c], a.text) \in Seq(Word) /\ G!Hits(c, a.text) \in Nat
  BY <1>1, SubstIs, FoundIs
<1>3. [a.counts EXCEPT ![c] = G!Hits(c, a.text)] \in [P -> Nat]
  BY <1>1, <1>2
<1>. QED
  BY <1>1, <1>2, <1>3 DEF RedactedAs, AccOf

\* The patterns are listed once each, and what stands for their matches is not
\* matched.
Markable(Word, P, pats, mark) ==
  /\ pats \in Seq(P) /\ G!ToSet(pats) = P
  /\ \A i, j \in 1 .. Len(pats) : pats[i] = pats[j] => i = j
  /\ \A c \in P : mark[c] \in Word
  /\ \A c, d \in P : d \notin G!Matches(mark[c])

\* RedactText applies the patterns, one after the other.
LEMMA RedactRuns ==
  ASSUME NEW Word, NEW P, NEW pats, NEW mark, Markable(Word, P, pats, mark), NEW t \in Seq(Word)
  PROVE  \E run : /\ run[0] = [text |-> t, counts |-> [c \in P |-> 0]]
                  /\ run[Len(pats)] = G!RedactText(mark, pats, t)
                  /\ \A n \in 1 .. Len(pats) :
                       run[n] = RedactedAs(mark, run[n - 1], pats[n])
<1> DEFINE last == Len(pats)
           x == [text |-> t, counts |-> [c \in G!ToSet(pats) |-> 0]]
           step == [n \in 1 .. last |-> [a \in AccOf(Word, P) |-> RedactedAs(mark, a, pats[n])]]
           Is(f) == f = [s \in SUBSET (DOMAIN pats) |->
                           IF s = {} THEN x
                           ELSE RedactedAs(mark, f[s \ {Max(s)}], pats[Max(s)])]
<1>0. /\ last \in Nat /\ DOMAIN pats = 1 .. last
      /\ \A n \in 1 .. last : pats[n] \in P
      /\ G!ToSet(pats) = P /\ \A d \in P : mark[d] \in Word
  BY DEF Markable
<1> HIDE DEF last
<1>1. x \in AccOf(Word, P)
  BY <1>0 DEF AccOf
<1>2. step \in [1 .. last -> [AccOf(Word, P) -> AccOf(Word, P)]]
  <2>1. \A n \in 1 .. last, a \in AccOf(Word, P) : RedactedAs(mark, a, pats[n]) \in AccOf(Word, P)
    BY <1>0, RedactedAsIs
  <2>. QED
    BY <2>1
<1>3. PICK f : IsFoldIn(AccOf(Word, P), f, step, last, x)
  <2> HIDE DEF step, x
  <2>. QED
    BY <1>0, <1>1, <1>2, FoldExists
<1>5. Is(f)
  <2>1. f = [s \in SUBSET (1 .. last) |->
               IF s = {} THEN x ELSE step[Max(s)][f[s \ {Max(s)}]]]
    BY <1>3 DEF IsFoldIn, IsFold
  <2>2. ASSUME NEW s \in SUBSET (1 .. last), s # {}
        PROVE  step[Max(s)][f[s \ {Max(s)}]] = RedactedAs(mark, f[s \ {Max(s)}], pats[Max(s)])
    BY <1>0, <1>3, <2>2, MaxIsIn DEF IsFoldIn
  <2> HIDE DEF step, x
  <2>. QED
    BY <1>0, <2>1, <2>2
<1>6. G!RedactText(mark, pats, t) = (CHOOSE g : Is(g))[DOMAIN pats]
  BY DEF G!RedactText, G!FoldLeft, G!MapThenFoldSet, RedactedAs, G!Max, Max
<1> DEFINE g == CHOOSE g : Is(g)
           run == [n \in 0 .. last |-> g[1 .. n]]
<1>7. Is(g)
  <2> HIDE DEF Is
  <2>. QED
    BY <1>5, Zenon
<1> HIDE DEF g
<1>8. g[{}] = x
  BY <1>7
<1>9. ASSUME NEW n \in 1 .. last
      PROVE  g[1 .. n] = RedactedAs(mark, g[1 .. (n - 1)], pats[n])
  <2>1. /\ 1 .. n \in SUBSET (1 .. last) /\ 1 .. n # {}
        /\ Max(1 .. n) = n /\ (1 .. n) \ {n} = 1 .. (n - 1)
    BY <1>0, FirstNumbers
  <2>. QED
    BY <1>0, <1>7, <2>1
<1>10. 1 .. 0 = {}
  OBVIOUS
<1>11. /\ run[last] = G!RedactText(mark, pats, t)
       /\ run[0] = [text |-> t, counts |-> [c \in P |-> 0]]
  BY <1>0, <1>6, <1>8, <1>10 DEF g
<1>13. ASSUME NEW n \in 1 .. last PROVE run[n] = RedactedAs(mark, run[n - 1], pats[n])
  <2>1. n - 1 \in 0 .. last /\ n \in 0 .. last
    BY <1>0
  <2>. QED
    BY <1>9, <2>1
<1>. QED
  BY <1>11, <1>13 DEF last

\* The words that the first n patterns find.
Reach(pats, n, t) == {i \in DOMAIN t : \E m \in 1 .. n : pats[m] \in G!Matches(t[i])}

\* What n patterns with their marks make of a text: a mark for every word that one
\* of them finds, counted once, under the first that does.
After(Word, P, pats, mark, t, n, b) ==
  /\ b \in AccOf(Word, P) /\ DOMAIN b.text = DOMAIN t
  /\ \A i \in DOMAIN t :
       IF i \in Reach(pats, n, t) THEN \E c \in P : b.text[i] = mark[c] ELSE b.text[i] = t[i]
  /\ \A m \in 1 .. n :
       b.counts[pats[m]] = Cardinality(Reach(pats, m, t)) - Cardinality(Reach(pats, m - 1, t))
  /\ (\A m \in 1 .. n : b.counts[pats[m]] = 0) => Reach(pats, n, t) = {}

\* The next pattern does its part.
LEMMA AfterNext ==
  ASSUME NEW Word, NEW P, NEW pats \in Seq(P), NEW mark, \A d \in P : mark[d] \in Word,
         \A i, j \in 1 .. Len(pats) : pats[i] = pats[j] => i = j,
         \A c, d \in P : d \notin G!Matches(mark[c]),
         NEW t \in Seq(Word), NEW n \in 1 .. Len(pats),
         NEW b, After(Word, P, pats, mark, t, n - 1, b)
  PROVE  After(Word, P, pats, mark, t, n, RedactedAs(mark, b, pats[n]))
<1> DEFINE c == pats[n]
           r == RedactedAs(mark, b, c)
           new == Found(c, b.text)
<1>0. c \in P /\ n \in Nat /\ Len(pats) \in Nat
  OBVIOUS
<1>1. b \in AccOf(Word, P) /\ b.text \in Seq(Word) /\ b.counts \in [P -> Nat] /\ mark[c] \in Word
      /\ DOMAIN b.text = DOMAIN t /\ DOMAIN t = 1 .. Len(t) /\ Len(t) \in Nat
  BY <1>0 DEF After, AccOf
<1>2. /\ r \in AccOf(Word, P)
      /\ r.text = G!Sub(c, mark[c], b.text)
      /\ r.counts = [b.counts EXCEPT ![c] = G!Hits(c, b.text)]
  BY <1>0, <1>1, RedactedAsIs DEF RedactedAs
<1> HIDE DEF r, c
<1>3. /\ DOMAIN r.text = DOMAIN t
      /\ \A i \in DOMAIN t : r.text[i] = IF i \in new THEN mark[c] ELSE b.text[i]
      /\ IsFiniteSet(new) /\ G!Hits(c, b.text) = Cardinality(new)
  <2> HIDE DEF new
  <2>1. /\ DOMAIN G!Sub(c, mark[c], b.text) = DOMAIN b.text
        /\ \A i \in DOMAIN b.text :
             G!Sub(c, mark[c], b.text)[i] = IF i \in Found(c, b.text) THEN mark[c] ELSE b.text[i]
    BY <1>1, SubstIs
  <2>2. IsFiniteSet(Found(c, b.text)) /\ G!Hits(c, b.text) = Cardinality(Found(c, b.text))
    BY <1>1, FoundIs
  <2>. QED
    BY <1>1, <1>2, <2>1, <2>2 DEF new
<1>4. \A i \in DOMAIN t : i \in new <=> i \notin Reach(pats, n - 1, t) /\ c \in G!Matches(t[i])
  <2>1. ASSUME NEW i \in DOMAIN t, i \in Reach(pats, n - 1, t) PROVE i \notin new
    BY <1>0, <2>1 DEF After, new, Found
  <2>2. ASSUME NEW i \in DOMAIN t, i \notin Reach(pats, n - 1, t)
        PROVE  i \in new <=> c \in G!Matches(t[i])
    BY <1>1, <2>2 DEF After, new, Found
  <2>. QED
    BY <2>1, <2>2
<1>5. /\ Reach(pats, n, t) = Reach(pats, n - 1, t) \union new
      /\ Reach(pats, n - 1, t) \intersect new = {}
  <2>1. \A m \in 1 .. n : m \in 1 .. (n - 1) \/ m = n
    BY <1>0
  <2>2. \A m \in 1 .. (n - 1) : m \in 1 .. n
    BY <1>0
  <2>3. n \in 1 .. n
    BY <1>0
  <2>4. new \subseteq DOMAIN t
    BY <1>1 DEF new, Found
  <2> HIDE DEF new
  <2>. QED
    BY <1>4, <2>1, <2>2, <2>3, <2>4 DEF Reach, c
<1> HIDE DEF new
<1>6. Cardinality(new) = Cardinality(Reach(pats, n, t)) - Cardinality(Reach(pats, n - 1, t))
  <2>1. Reach(pats, n - 1, t) \subseteq 1 .. Len(t)
    BY <1>1 DEF Reach
  <2>2. IsFiniteSet(Reach(pats, n - 1, t))
    <3>1. IsFiniteSet(1 .. Len(t))
      BY <1>1, FS_Interval
    <3>. QED
      BY <2>1, <3>1, FS_Subset
  <2>3. Cardinality(Reach(pats, n - 1, t) \union new)
          = Cardinality(Reach(pats, n - 1, t)) + Cardinality(new)
            - Cardinality(Reach(pats, n - 1, t) \intersect new)
    BY <1>3, <2>2, FS_Union
  <2>4. Cardinality(Reach(pats, n - 1, t)) \in Nat /\ Cardinality(new) \in Nat
    BY <1>3, <2>2, FS_CardinalityType
  <2>5. Cardinality(Reach(pats, n - 1, t) \intersect new) = 0
    BY <1>5, FS_EmptySet
  <2>. QED
    BY <1>5, <2>3, <2>4, <2>5
<1>7. ASSUME NEW m \in 1 .. n
      PROVE  r.counts[pats[m]] = IF m = n THEN Cardinality(new) ELSE b.counts[pats[m]]
  <2>1. m \in 1 .. Len(pats) /\ n \in 1 .. Len(pats) /\ pats[m] \in P
    BY <1>0
  <2>2. m # n => pats[m] # c
    BY <2>1 DEF c
  <2>. QED
    BY <1>0, <1>1, <1>2, <1>3, <2>1, <2>2 DEF c
<1>8. ASSUME NEW m \in 1 .. n
      PROVE  r.counts[pats[m]] = Cardinality(Reach(pats, m, t)) - Cardinality(Reach(pats, m - 1, t))
  <2>1. CASE m = n
    BY <1>6, <1>7, <2>1
  <2>2. CASE m # n
    <3>1. m \in 1 .. (n - 1)
      BY <1>0, <2>2
    <3>. QED
      BY <1>7, <2>2, <3>1 DEF After
  <2>. QED
    BY <2>1, <2>2
<1>9. ASSUME \A m \in 1 .. n : r.counts[pats[m]] = 0 PROVE Reach(pats, n, t) = {}
  <2>1. ASSUME NEW m \in 1 .. (n - 1) PROVE b.counts[pats[m]] = 0
    <3>1. m \in 1 .. n /\ m # n
      BY <1>0
    <3>. QED
      BY <1>7, <1>9, <3>1
  <2>2. Reach(pats, n - 1, t) = {}
    BY <2>1 DEF After
  <2>3. Cardinality(new) = 0
    <3>1. n \in 1 .. n
      BY <1>0
    <3>. QED
      BY <1>7, <1>9, <3>1
  <2>4. new = {}
    BY <1>3, <2>3, FS_EmptySet
  <2>. QED
    BY <1>5, <2>2, <2>4
<1>10. ASSUME NEW i \in DOMAIN t
       PROVE  IF i \in Reach(pats, n, t) THEN \E d \in P : r.text[i] = mark[d] ELSE r.text[i] = t[i]
  BY <1>0, <1>3, <1>5 DEF After
<1>. QED
  BY <1>2, <1>3, <1>8, <1>9, <1>10 DEF After, r, c

\* A text whose words of PII all have a mark, and whose other words are as they were.
Redone(Word, P, pats, mark, t, a) ==
  /\ After(Word, P, pats, mark, t, Len(pats), a)
  /\ G!Pii(pats, t) = Reach(pats, Len(pats), t)
  /\ G!Pii(pats, a.text) = {}
  /\ (\A c \in P : a.counts[c] = 0) => a.text = t

\* That is what redaction makes of every text.
LEMMA RedactWell ==
  ASSUME NEW Word, NEW P, NEW pats, NEW mark, Markable(Word, P, pats, mark),
         NEW t \in Seq(Word)
  PROVE  Redone(Word, P, pats, mark, t, G!RedactText(mark, pats, t))
<1> DEFINE last == Len(pats)
           a == G!RedactText(mark, pats, t)
<1>0. /\ last \in Nat /\ DOMAIN pats = 1 .. last
      /\ \A n \in 1 .. last : pats[n] \in P
      /\ \A c \in P : \E n \in 1 .. last : c = pats[n]
      /\ G!ToSet(pats) = P /\ \A c, d \in P : d \notin G!Matches(mark[c])
  BY DEF G!ToSet, Markable
<1>1. PICK run : /\ run[0] = [text |-> t, counts |-> [c \in P |-> 0]]
                 /\ run[last] = a
                 /\ \A n \in 1 .. last : run[n] = RedactedAs(mark, run[n - 1], pats[n])
  BY RedactRuns DEF last, a
<1> HIDE DEF last, a
<1> DEFINE T == {n \in Nat : n <= last => After(Word, P, pats, mark, t, n, run[n])}
<1>2. 0 \in T
  <2>1. 1 .. 0 = {} /\ Reach(pats, 0, t) = {}
    BY DEF Reach
  <2>. QED
    BY <1>1, <2>1 DEF After, AccOf
<1>3. ASSUME NEW n \in T PROVE n + 1 \in T
  <2> SUFFICES ASSUME n + 1 <= last PROVE After(Word, P, pats, mark, t, n + 1, run[n + 1])
    OBVIOUS
  <2>1. PICK k \in 1 .. last : k = n + 1 /\ k - 1 = n
    BY <1>0
  <2>2. After(Word, P, pats, mark, t, k - 1, run[k - 1])
    BY <1>0, <2>1
  <2>3. run[k] = RedactedAs(mark, run[k - 1], pats[k])
    BY <1>1, <2>1
  <2> HIDE DEF T
  <2>4. After(Word, P, pats, mark, t, k, RedactedAs(mark, run[k - 1], pats[k]))
    BY <2>2, AfterNext DEF last, Markable
  <2>. QED
    BY <2>1, <2>3, <2>4
<1> HIDE DEF T
<1>4. T = Nat
  BY <1>2, <1>3, SetInduction DEF T
<1>5. After(Word, P, pats, mark, t, last, a)
  <2>1. last \in T
    BY <1>0, <1>4
  <2>. QED
    BY <1>0, <1>1, <2>1 DEF T
<1>6. G!Pii(pats, t) = Reach(pats, last, t)
  BY <1>0 DEF G!Pii, Reach
<1>7. DOMAIN a.text = DOMAIN t /\ a.text \in Seq(Word)
  BY <1>5 DEF After, AccOf
<1>8. ASSUME NEW i \in DOMAIN t, NEW c \in P PROVE c \notin G!Matches(a.text[i])
  <2>1. CASE i \in Reach(pats, last, t)
    BY <1>0, <1>5, <2>1 DEF After
  <2>2. CASE i \notin Reach(pats, last, t)
    BY <1>0, <1>5, <2>2 DEF After, Reach
  <2>. QED
    BY <2>1, <2>2
<1>9. G!Pii(pats, a.text) = {}
  BY <1>0, <1>7, <1>8 DEF G!Pii
<1>10. ASSUME \A c \in P : a.counts[c] = 0 PROVE a.text = t
  <2>1. Reach(pats, last, t) = {}
    BY <1>0, <1>5, <1>10 DEF After
  <2>2. \A i \in DOMAIN t : a.text[i] = t[i]
    BY <1>5, <2>1 DEF After
  <2>. QED
    BY <1>7, <2>2
<1>. QED
  BY <1>5, <1>6, <1>9, <1>10 DEF Redone, last, a

\* The categories of the other path, and all of them.
Ner == {"PERSON", "ADDRESS", "IBAN", "IP_ADDRESS"}
All == Fast \union Ner

\* A list of four patterns, in this order.
FourOf(pats, a, b, c, d) ==
  /\ pats \in Seq({a, b, c, d}) /\ Len(pats) = 4
  /\ pats[1] = a /\ pats[2] = b /\ pats[3] = c /\ pats[4] = d
  /\ G!ToSet(pats) = {a, b, c, d}

\* What the lists of patterns list, and what stands for a category.
LEMMA ListsAre ==
  /\ FourOf(G!Patterns, "EMAIL", "CREDIT_CARD", "SSN", "PHONE")
  /\ FourOf(G!NerPatterns, "PERSON", "ADDRESS", "IBAN", "IP_ADDRESS")
  /\ G!Patterns \o G!NerPatterns \in Seq(All)
  /\ G!ToSet(G!Patterns \o G!NerPatterns) = All
  /\ \A c \in All : /\ G!Placeholder[c] = c /\ G!Marker[c] = "REDACTED"
                    /\ G!Matches(c) = {} /\ c \notin G!Imperatives
  /\ \A Word : Fast \subseteq Word => Markable(Word, Fast, G!Patterns, G!Placeholder)
  /\ \A Word : Ner \subseteq Word => Markable(Word, Ner, G!NerPatterns, G!Placeholder)
  /\ \A Word : "REDACTED" \in Word =>
       Markable(Word, All, G!Patterns \o G!NerPatterns, G!Marker)
<1> DEFINE all == G!Patterns \o G!NerPatterns
<1>1. FourOf(G!Patterns, "EMAIL", "CREDIT_CARD", "SSN", "PHONE")
  <2>1. /\ G!Patterns \in Seq({"EMAIL", "CREDIT_CARD", "SSN", "PHONE"}) /\ Len(G!Patterns) = 4
        /\ G!Patterns[1] = "EMAIL" /\ G!Patterns[2] = "CREDIT_CARD" /\ G!Patterns[3] = "SSN"
        /\ G!Patterns[4] = "PHONE" /\ DOMAIN G!Patterns = 1 .. 4
    BY DEF G!Patterns
  <2>2. G!ToSet(G!Patterns) = {"EMAIL", "CREDIT_CARD", "SSN", "PHONE"}
    BY <2>1 DEF G!ToSet
  <2>. QED
    BY <2>1, <2>2 DEF FourOf
<1>2. FourOf(G!NerPatterns, "PERSON", "ADDRESS", "IBAN", "IP_ADDRESS")
  <2>1. /\ G!NerPatterns \in Seq({"PERSON", "ADDRESS", "IBAN", "IP_ADDRESS"})
        /\ Len(G!NerPatterns) = 4
        /\ G!NerPatterns[1] = "PERSON" /\ G!NerPatterns[2] = "ADDRESS"
        /\ G!NerPatterns[3] = "IBAN" /\ G!NerPatterns[4] = "IP_ADDRESS"
        /\ DOMAIN G!NerPatterns = 1 .. 4
    BY DEF G!NerPatterns
  <2>2. G!ToSet(G!NerPatterns) = {"PERSON", "ADDRESS", "IBAN", "IP_ADDRESS"}
    BY <2>1 DEF G!ToSet
  <2>. QED
    BY <2>1, <2>2 DEF FourOf
<1>3. /\ Len(all) = 8
      /\ all[1] = "EMAIL" /\ all[2] = "CREDIT_CARD" /\ all[3] = "SSN" /\ all[4] = "PHONE"
      /\ all[5] = "PERSON" /\ all[6] = "ADDRESS" /\ all[7] = "IBAN" /\ all[8] = "IP_ADDRESS"
  BY DEF G!Patterns, G!NerPatterns
<1>4. all \in Seq(All)
  <2>1. G!Patterns \in Seq(All) /\ G!NerPatterns \in Seq(All)
    BY <1>1, <1>2 DEF FourOf, All, Fast, Ner
  <2>. QED
    BY <2>1
<1> HIDE DEF all
<1>5. DOMAIN all = 1 .. 8
  BY <1>3, <1>4
<1>6. \A i \in 1 .. 8 : i \in {1, 2, 3, 4, 5, 6, 7, 8}
  OBVIOUS
<1>7. G!ToSet(all) = All
  <2>1. ASSUME NEW c \in All PROVE \E i \in 1 .. 8 : all[i] = c
    BY <1>3 DEF All, Fast, Ner
  <2>2. \A i \in 1 .. 8 : all[i] \in All
    BY <1>3, <1>6 DEF All, Fast, Ner
  <2>. QED
    BY <1>5, <2>1, <2>2 DEF G!ToSet
<1>8. ASSUME NEW c \in All
      PROVE  /\ G!Placeholder[c] = c /\ G!Marker[c] = "REDACTED"
             /\ G!Matches(c) = {} /\ c \notin G!Imperatives
  <2>1. G!Categories = All
    BY <1>7 DEF G!Categories, all
  <2>2. G!Matches(c) = {} /\ c \notin G!Imperatives
    BY DEF G!Matches, All, Fast, Ner, G!Imperatives
  <2>. QED
    BY <2>1, <2>2 DEF G!Placeholder, G!Marker
<1>9. G!Matches("REDACTED") = {}
  BY DEF G!Matches
<1>10. ASSUME NEW i \in 1 .. 8, NEW j \in 1 .. 8, all[i] = all[j] PROVE i = j
  BY <1>3, <1>6, <1>10
<1>11. /\ \A c \in G!ToSet(G!Patterns) : c \in All
       /\ \A c \in G!ToSet(G!NerPatterns) : c \in All
  BY <1>1, <1>2 DEF FourOf, All, Fast, Ner
<1>12. ASSUME NEW Word, Fast \subseteq Word
       PROVE  Markable(Word, Fast, G!Patterns, G!Placeholder)
  <2>1. \A i \in 1 .. 4 : i \in {1, 2, 3, 4}
    OBVIOUS
  <2>. QED
    BY <1>1, <1>8, <1>11, <1>12, <2>1 DEF Markable, FourOf, Fast, All
<1>13. ASSUME NEW Word, Ner \subseteq Word
       PROVE  Markable(Word, Ner, G!NerPatterns, G!Placeholder)
  <2>1. \A i \in 1 .. 4 : i \in {1, 2, 3, 4}
    OBVIOUS
  <2>. QED
    BY <1>2, <1>8, <1>11, <1>13, <2>1 DEF Markable, FourOf, Ner, All
<1>14. ASSUME NEW Word, "REDACTED" \in Word
       PROVE  Markable(Word, All, all, G!Marker)
  BY <1>3, <1>4, <1>7, <1>8, <1>9, <1>10, <1>14 DEF Markable
<1>. QED
  BY <1>1, <1>2, <1>4, <1>7, <1>8, <1>12, <1>13, <1>14 DEF all

\* The texts of the service, as the guardrails read them: lists of messages.
Conversation(Role, Word) == Seq([role : Role, content : Seq(Word)])

\* f adds up the numbers at each set of the first n positions.
IsSum(f, w, n) ==
  f = [s \in SUBSET (1 .. n) |-> IF s = {} THEN 0 ELSE f[s \ {Max(s)}] + w[Max(s)]]

\* Numbers can be added up.
LEMMA SumExists ==
  ASSUME NEW n \in Nat, NEW w \in [1 .. n -> Nat]
  PROVE  \E f : IsSum(f, w, n)
<1> DEFINE step == [i \in 1 .. n |-> [k \in Nat |-> k + w[i]]]
<1>1. step \in [1 .. n -> [Nat -> Nat]]
  OBVIOUS
<1>2. PICK f : IsFoldIn(Nat, f, step, n, 0)
  <2> HIDE DEF step
  <2>. QED
    BY <1>1, FoldExists
<1>3. f = [s \in SUBSET (1 .. n) |-> IF s = {} THEN 0 ELSE step[Max(s)][f[s \ {Max(s)}]]]
  BY <1>2 DEF IsFoldIn, IsFold
<1>4. ASSUME NEW s \in SUBSET (1 .. n), s # {}
      PROVE  step[Max(s)][f[s \ {Max(s)}]] = f[s \ {Max(s)}] + w[Max(s)]
  <2>1. f[s \ {Max(s)}] \in Nat /\ Max(s) \in 1 .. n
    BY <1>2, <1>4, MaxIsIn DEF IsFoldIn
  <2>. QED
    BY <2>1
<1> HIDE DEF step
<1>5. IsSum(f, w, n)
  BY <1>3, <1>4 DEF IsSum
<1>. QED
  BY <1>5

\* The sums on the way: each is the last one and one more number.
Adds(run, w, n) ==
  /\ run \in [0 .. n -> Nat] /\ run[0] = 0
  /\ \A i \in 1 .. n : run[i] = run[i - 1] + w[i]

SumsTo(w, n, total) == \E run : Adds(run, w, n) /\ run[n] = total

\* What adds up set by set adds up in a run.
LEMMA SumRuns ==
  ASSUME NEW n \in Nat, NEW w, w \in [1 .. n -> Nat],
         NEW g, IsSum(g, w, n)
  PROVE  SumsTo(w, n, g[1 .. n])
<1> DEFINE run == [i \in 0 .. n |-> g[1 .. i]]
           T == {i \in Nat : i <= n => run[i] \in Nat}
<1>1. g[{}] = 0 /\ 1 .. 0 = {}
  BY DEF IsSum
<1>2. ASSUME NEW i \in 1 .. n PROVE g[1 .. i] = g[1 .. (i - 1)] + w[i]
  <2>1. /\ 1 .. i \in SUBSET (1 .. n) /\ 1 .. i # {}
        /\ Max(1 .. i) = i /\ (1 .. i) \ {i} = 1 .. (i - 1)
    BY FirstNumbers
  <2>. QED
    BY <2>1 DEF IsSum
<1>3. run[0] = 0 /\ run[n] = g[1 .. n]
  <2>1. 0 \in 0 .. n /\ n \in 0 .. n
    OBVIOUS
  <2>. QED
    BY <1>1, <2>1
<1>4. ASSUME NEW i \in 1 .. n PROVE run[i] = run[i - 1] + w[i]
  <2>1. i \in 0 .. n /\ i - 1 \in 0 .. n
    OBVIOUS
  <2>. QED
    BY <1>2, <2>1
<1>5. run = [i \in 0 .. n |-> run[i]]
  OBVIOUS
<1> HIDE DEF run
<1>6. 0 \in T
  BY <1>3
<1>7. ASSUME NEW i \in T PROVE i + 1 \in T
  <2> SUFFICES ASSUME i + 1 <= n PROVE run[i + 1] \in Nat
    OBVIOUS
  <2>1. i + 1 \in 1 .. n /\ (i + 1) - 1 = i /\ run[i] \in Nat
    OBVIOUS
  <2>2. run[i + 1] = run[i] + w[i + 1] /\ w[i + 1] \in Nat
    BY <1>4, <2>1
  <2>. QED
    BY <2>1, <2>2
<1> HIDE DEF T
<1>8. T = Nat
  BY <1>6, <1>7, SetInduction DEF T
<1>9. \A i \in 0 .. n : run[i] \in Nat
  BY <1>8 DEF T
<1>10. Adds(run, w, n)
  BY <1>3, <1>4, <1>5, <1>9 DEF Adds
<1>. QED
  BY <1>3, <1>10 DEF SumsTo

\* The messages as RedactText leaves them.
EachOf(pats, ms) == [i \in DOMAIN ms |-> G!RedactText(G!Placeholder, pats, ms[i].content)]

\* A scan that redacted message by message, and added the counts up.
Scanned(Role, Word, P, pats, ms, each) ==
  /\ Len(ms) \in Nat /\ DOMAIN ms = 1 .. Len(ms)
  /\ \A i \in DOMAIN ms :
       /\ ms[i] \in [role : Role, content : Seq(Word)]
       /\ After(Word, P, pats, G!Placeholder, ms[i].content, Len(pats), each[i])
       /\ G!Pii(pats, ms[i].content) = Reach(pats, Len(pats), ms[i].content)
       /\ G!Pii(pats, each[i].text) = {}
       /\ (\A c \in P : each[i].counts[c] = 0) => each[i].text = ms[i].content
  /\ G!Scan(pats, ms).messages
       = [i \in DOMAIN ms |-> [ms[i] EXCEPT !.content = each[i].text]]
  /\ G!Scan(pats, ms).counts = [c \in P |-> G!Scan(pats, ms).counts[c]]
  /\ \A c \in P : SumsTo([i \in 1 .. Len(ms) |-> each[i].counts[c]], Len(ms),
                        G!Scan(pats, ms).counts[c])

\* Every scan is one.
LEMMA ScanWell ==
  ASSUME NEW Role, NEW Word, NEW P, NEW pats, Markable(Word, P, pats, G!Placeholder),
         NEW ms \in Conversation(Role, Word)
  PROVE  Scanned(Role, Word, P, pats, ms, EachOf(pats, ms))
<1> DEFINE Message == [role : Role, content : Seq(Word)]
           last == Len(ms)
           each == EachOf(pats, ms)
<1>1. /\ last \in Nat /\ DOMAIN ms = 1 .. last
      /\ \A i \in 1 .. last : ms[i] \in Message
  <2>1. ms \in Seq(Message)
    BY DEF Conversation
  <2> HIDE DEF Message
  <2>. QED
    BY <2>1
<1>2. ASSUME NEW i \in 1 .. last
      PROVE  /\ After(Word, P, pats, G!Placeholder, ms[i].content, Len(pats), each[i])
             /\ G!Pii(pats, ms[i].content) = Reach(pats, Len(pats), ms[i].content)
             /\ G!Pii(pats, each[i].text) = {}
             /\ (\A c \in P : each[i].counts[c] = 0) => each[i].text = ms[i].content
  <2>1. ms[i].content \in Seq(Word)
    BY <1>1
  <2>2. each[i] = G!RedactText(G!Placeholder, pats, ms[i].content)
    BY <1>1 DEF EachOf
  <2> DEFINE t == ms[i].content
             a == each[i]
  <2> HIDE DEF Message, last, each
  <2>3. Redone(Word, P, pats, G!Placeholder, t, a)
    BY <2>1, <2>2, RedactWell
  <2>. QED
    BY <2>3 DEF Redone
<1>3. ASSUME NEW i \in 1 .. last, NEW c \in P PROVE each[i].counts[c] \in Nat
  BY <1>2 DEF After, AccOf
<1>4. DOMAIN each = 1 .. last
  BY <1>1 DEF EachOf
<1> DEFINE Is(f, c) == f = [s \in SUBSET (DOMAIN each) |->
                              IF s = {} THEN 0
                              ELSE f[s \ {Max(s)}] + each[Max(s)].counts[c]]
           sum(c) == CHOOSE f : Is(f, c)
<1>5. /\ G!Scan(pats, ms).messages
           = [i \in DOMAIN ms |-> [ms[i] EXCEPT !.content = each[i].text]]
      /\ G!Scan(pats, ms).counts = [c \in G!ToSet(pats) |-> sum(c)[DOMAIN each]]
  BY DEF G!Scan, EachOf, G!FoldLeft, G!MapThenFoldSet, G!Max, Max
<1>0. G!ToSet(pats) = P
  BY DEF Markable
<1>6. ASSUME NEW c \in P
      PROVE  SumsTo([i \in 1 .. last |-> each[i].counts[c]], last, sum(c)[1 .. last])
  <2> DEFINE w == [i \in 1 .. last |-> each[i].counts[c]]
             g == sum(c)
  <2> HIDE DEF last
  <2>1. w \in [1 .. last -> Nat] /\ \A i \in 1 .. last : w[i] = each[i].counts[c]
    BY <1>3
  <2> HIDE DEF w
  <2>2. PICK f : IsSum(f, w, last)
    BY <1>1, <2>1, SumExists
  <2>3. Is(f, c)
    BY <1>1, <1>4, <2>1, <2>2, MaxIsIn DEF IsSum
  <2>4. Is(g, c)
    <3> HIDE DEF Is
    <3>. QED
      BY <2>3, Zenon
  <2> HIDE DEF g
  <2>5. IsSum(g, w, last)
    BY <1>1, <1>4, <2>1, <2>4, MaxIsIn DEF IsSum
  <2> HIDE DEF Is, sum
  <2>6. SumsTo(w, last, g[1 .. last])
    <3>1. last \in Nat /\ w \in [1 .. last -> Nat] /\ IsSum(g, w, last)
      BY <1>1, <2>1, <2>5
    <3>. QED
      BY <3>1, SumRuns
  <2>. QED
    BY <2>6 DEF g, w
<1> HIDE DEF sum
<1>7. ASSUME NEW c \in P PROVE sum(c)[1 .. last] = G!Scan(pats, ms).counts[c]
  BY <1>0, <1>4, <1>5
<1>8. /\ Len(ms) \in Nat /\ DOMAIN ms = 1 .. Len(ms)
      /\ G!Scan(pats, ms).counts = [c \in P |-> G!Scan(pats, ms).counts[c]]
  BY <1>0, <1>1, <1>5
<1> HIDE DEF last, Message, Is
<1>9. ASSUME NEW c \in P
      PROVE  SumsTo([i \in 1 .. Len(ms) |-> each[i].counts[c]], Len(ms),
                    G!Scan(pats, ms).counts[c])
  BY <1>6, <1>7 DEF last
<1>10. \A i \in DOMAIN ms :
         /\ ms[i] \in [role : Role, content : Seq(Word)]
         /\ After(Word, P, pats, G!Placeholder, ms[i].content, Len(pats), each[i])
         /\ G!Pii(pats, ms[i].content) = Reach(pats, Len(pats), ms[i].content)
         /\ G!Pii(pats, each[i].text) = {}
         /\ (\A c \in P : each[i].counts[c] = 0) => each[i].text = ms[i].content
  BY <1>1, <1>2 DEF Message
<1> HIDE DEF sum
<1>11. G!Scan(pats, ms).messages = [i \in DOMAIN ms |-> [ms[i] EXCEPT !.content = each[i].text]]
  BY <1>5
<1>. QED
  BY <1>8, <1>9, <1>10, <1>11 DEF Scanned

\* The words of PII in a text are finitely many.
LEMMA PiiFinite ==
  ASSUME NEW Word, NEW t \in Seq(Word), NEW pats
  PROVE  IsFiniteSet(G!Pii(pats, t)) /\ Cardinality(G!Pii(pats, t)) \in Nat
<1>1. Len(t) \in Nat /\ G!Pii(pats, t) \subseteq 1 .. Len(t)
  BY DEF G!Pii
<1>2. IsFiniteSet(1 .. Len(t))
  BY <1>1, FS_Interval
<1>3. IsFiniteSet(G!Pii(pats, t))
  BY <1>1, <1>2, FS_Subset
<1>. QED
  BY <1>3, FS_CardinalityType

\* The words of PII in the messages, added up.
Total(pats, ms) ==
  G!FoldLeft(LAMBDA n, m : n + Cardinality(G!Pii(pats, m.content)), 0, ms)

\* It is the sum over the messages, one after the other.
LEMMA TotalWell ==
  ASSUME NEW Role, NEW Word, NEW pats, NEW ms \in Conversation(Role, Word)
  PROVE  SumsTo([i \in 1 .. Len(ms) |-> Cardinality(G!Pii(pats, ms[i].content))], Len(ms),
                Total(pats, ms))
<1> DEFINE Message == [role : Role, content : Seq(Word)]
           last == Len(ms)
<1>1. /\ last \in Nat /\ DOMAIN ms = 1 .. last
      /\ \A i \in 1 .. last : ms[i] \in Message
  <2>1. ms \in Seq(Message)
    BY DEF Conversation
  <2> HIDE DEF Message
  <2>. QED
    BY <2>1
<1> DEFINE w == [i \in 1 .. last |-> Cardinality(G!Pii(pats, ms[i].content))]
           Is(f) == f = [s \in SUBSET (DOMAIN ms) |->
                           IF s = {} THEN 0
                           ELSE f[s \ {Max(s)}] + Cardinality(G!Pii(pats, ms[Max(s)].content))]
           g == CHOOSE f : Is(f)
<1>2. Total(pats, ms) = g[DOMAIN ms]
  BY DEF Total, G!FoldLeft, G!MapThenFoldSet, G!Max, Max
<1>3. w \in [1 .. last -> Nat]
  <2>1. ASSUME NEW i \in 1 .. last PROVE Cardinality(G!Pii(pats, ms[i].content)) \in Nat
    <3>1. ms[i].content \in Seq(Word)
      BY <1>1
    <3>. QED
      BY <3>1, PiiFinite
  <2>. QED
    BY <2>1
<1>4. \A i \in 1 .. last : w[i] = Cardinality(G!Pii(pats, ms[i].content))
  OBVIOUS
<1> HIDE DEF w, last
<1>5. PICK f : IsSum(f, w, last)
  BY <1>1, <1>3, SumExists
<1>6. Is(f)
  BY <1>1, <1>4, <1>5, MaxIsIn DEF IsSum
<1>7. Is(g)
  <2> HIDE DEF Is
  <2>. QED
    BY <1>6, Zenon
<1> HIDE DEF g
<1>8. IsSum(g, w, last)
  BY <1>1, <1>4, <1>7, MaxIsIn DEF IsSum
<1> HIDE DEF Is
<1>9. SumsTo(w, last, g[1 .. last])
  <2>1. last \in Nat /\ w \in [1 .. last -> Nat] /\ IsSum(g, w, last)
    BY <1>1, <1>3, <1>8
  <2>. QED
    BY <2>1, SumRuns
<1>10. g[1 .. last] = Total(pats, ms)
  BY <1>1, <1>2 DEF last
<1>. QED
  BY <1>9, <1>10 DEF last, w

\* The letters of the messages, added up.
LEMMA CharsWell ==
  ASSUME NEW Role, NEW Word, NEW ms \in Conversation(Role, Word)
  PROVE  SumsTo([i \in 1 .. Len(ms) |-> Len(ms[i].content)], Len(ms), G!TotalChars(ms))
<1> DEFINE Message == [role : Role, content : Seq(Word)]
           last == Len(ms)
<1>1. /\ last \in Nat /\ DOMAIN ms = 1 .. last
      /\ \A i \in 1 .. last : ms[i] \in Message
  <2>1. ms \in Seq(Message)
    BY DEF Conversation
  <2> HIDE DEF Message
  <2>. QED
    BY <2>1
<1> DEFINE w == [i \in 1 .. last |-> Len(ms[i].content)]
           Is(f) == f = [s \in SUBSET (DOMAIN ms) |->
                           IF s = {} THEN 0
                           ELSE f[s \ {Max(s)}] + Len(ms[Max(s)].content)]
           g == CHOOSE f : Is(f)
<1>2. G!TotalChars(ms) = g[DOMAIN ms]
  BY DEF G!TotalChars, G!FoldLeft, G!MapThenFoldSet, G!Max, Max
<1>3. w \in [1 .. last -> Nat]
  BY <1>1
<1>4. \A i \in 1 .. last : w[i] = Len(ms[i].content)
  OBVIOUS
<1> HIDE DEF w, last
<1>5. PICK f : IsSum(f, w, last)
  BY <1>1, <1>3, SumExists
<1>6. Is(f)
  BY <1>1, <1>4, <1>5, MaxIsIn DEF IsSum
<1>7. Is(g)
  <2> HIDE DEF Is
  <2>. QED
    BY <1>6, Zenon
<1> HIDE DEF g
<1>8. IsSum(g, w, last)
  BY <1>1, <1>4, <1>7, MaxIsIn DEF IsSum
<1> HIDE DEF Is
<1>9. SumsTo(w, last, g[1 .. last])
  <2>1. last \in Nat /\ w \in [1 .. last -> Nat] /\ IsSum(g, w, last)
    BY <1>1, <1>3, <1>8
  <2>. QED
    BY <2>1, SumRuns
<1>10. g[1 .. last] = G!TotalChars(ms)
  BY <1>1, <1>2 DEF last
<1>. QED
  BY <1>9, <1>10 DEF last, w

\* What a sum of natural numbers is: a natural number, zero when they all are, and
\* the sum of four sums when each of them is one.
LEMMA SumIs ==
  ASSUME NEW n \in Nat, NEW w, NEW total, SumsTo(w, n, total), w \in [1 .. n -> Nat]
  PROVE  total \in Nat /\ (total = 0 <=> \A i \in 1 .. n : w[i] = 0)
<1>1. PICK run : Adds(run, w, n) /\ run[n] = total
  BY DEF SumsTo
<1> DEFINE T == {k \in Nat : k <= n => (run[k] = 0 <=> \A i \in 1 .. k : w[i] = 0)}
<1>2. 0 \in T
  <2>1. 1 .. 0 = {} /\ run[0] = 0
    BY <1>1 DEF Adds
  <2>. QED
    BY <2>1
<1>3. ASSUME NEW k \in T PROVE k + 1 \in T
  <2> SUFFICES ASSUME k + 1 <= n
               PROVE  run[k + 1] = 0 <=> \A i \in 1 .. k + 1 : w[i] = 0
    OBVIOUS
  <2>1. PICK m \in 1 .. n : m = k + 1 /\ m - 1 = k
    OBVIOUS
  <2>2. run[m] = run[k] + w[m] /\ run[k] \in Nat /\ w[m] \in Nat
    <3>1. k \in 0 .. n
      OBVIOUS
    <3> HIDE DEF T
    <3>2. run[m] = run[m - 1] + w[m]
      BY <1>1 DEF Adds
    <3>3. run[k] \in Nat
      BY <1>1, <3>1 DEF Adds
    <3>. QED
      BY <2>1, <3>2, <3>3
  <2>3. run[k] = 0 <=> \A i \in 1 .. k : w[i] = 0
    BY <2>1
  <2>4. \A i : i \in 1 .. m <=> i \in 1 .. k \/ i = m
    BY <2>1
  <2> HIDE DEF T
  <2>. QED
    BY <2>1, <2>2, <2>3, <2>4
<1> HIDE DEF T
<1>4. T = Nat
  BY <1>2, <1>3, SetInduction DEF T
<1>5. run[n] = 0 <=> \A i \in 1 .. n : w[i] = 0
  BY <1>4 DEF T
<1>. QED
  BY <1>1, <1>5 DEF Adds

\* Each of w's first n weights is the sum of those of four others.
FourWeights(n, w, w1, w2, w3, w4) ==
  \A i \in 1 .. n : /\ w1[i] \in Nat /\ w2[i] \in Nat /\ w3[i] \in Nat /\ w4[i] \in Nat
                    /\ w[i] = w1[i] + w2[i] + w3[i] + w4[i]

\* The total of sums of four weights is the sum of their totals.
LEMMA SumOfFour ==
  ASSUME NEW n \in Nat, NEW w, NEW w1, NEW w2, NEW w3, NEW w4, FourWeights(n, w, w1, w2, w3, w4),
         NEW total, SumsTo(w, n, total),
         NEW t1, SumsTo(w1, n, t1), NEW t2, SumsTo(w2, n, t2),
         NEW t3, SumsTo(w3, n, t3), NEW t4, SumsTo(w4, n, t4)
  PROVE  total = t1 + t2 + t3 + t4
<1>0. PICK r : Adds(r, w, n) /\ r[n] = total
  BY DEF SumsTo
<1>1. PICK r1 : Adds(r1, w1, n) /\ r1[n] = t1
  BY DEF SumsTo
<1>2. PICK r2 : Adds(r2, w2, n) /\ r2[n] = t2
  BY DEF SumsTo
<1>3. PICK r3 : Adds(r3, w3, n) /\ r3[n] = t3
  BY DEF SumsTo
<1>4. PICK r4 : Adds(r4, w4, n) /\ r4[n] = t4
  BY DEF SumsTo
<1> DEFINE T == {k \in Nat : k <= n => r[k] = r1[k] + r2[k] + r3[k] + r4[k]}
<1>5. 0 \in T
  BY <1>0, <1>1, <1>2, <1>3, <1>4 DEF Adds
<1>6. ASSUME NEW k \in T PROVE k + 1 \in T
  <2> SUFFICES ASSUME k + 1 <= n
               PROVE  r[k + 1] = r1[k + 1] + r2[k + 1] + r3[k + 1] + r4[k + 1]
    OBVIOUS
  <2>1. PICK m \in 1 .. n : m = k + 1 /\ m - 1 = k /\ k \in 0 .. n
    OBVIOUS
  <2>2. /\ r[m] = r[k] + w[m] /\ r1[m] = r1[k] + w1[m] /\ r2[m] = r2[k] + w2[m]
        /\ r3[m] = r3[k] + w3[m] /\ r4[m] = r4[k] + w4[m]
        /\ r1[k] \in Nat /\ r2[k] \in Nat /\ r3[k] \in Nat /\ r4[k] \in Nat
    BY <1>0, <1>1, <1>2, <1>3, <1>4, <2>1 DEF Adds
  <2>3. r[k] = r1[k] + r2[k] + r3[k] + r4[k]
    BY <2>1
  <2>4. /\ w1[m] \in Nat /\ w2[m] \in Nat /\ w3[m] \in Nat /\ w4[m] \in Nat
        /\ w[m] = w1[m] + w2[m] + w3[m] + w4[m]
    BY DEF FourWeights
  <2> HIDE DEF T
  <2>. QED
    BY <2>1, <2>2, <2>3, <2>4
<1> HIDE DEF T
<1>7. T = Nat
  BY <1>5, <1>6, SetInduction DEF T
<1>8. r[n] = r1[n] + r2[n] + r3[n] + r4[n]
  BY <1>7 DEF T
<1>. QED
  BY <1>0, <1>1, <1>2, <1>3, <1>4, <1>8

\* A scan that found nothing leaves every text as it is.
LEMMA NothingFound ==
  ASSUME NEW Role, NEW Word, NEW P, NEW pats, NEW ms, NEW each,
         Scanned(Role, Word, P, pats, ms, each), ~ G!Found(G!Scan(pats, ms))
  PROVE  \A i \in DOMAIN ms : each[i].text = ms[i].content
<1> SUFFICES ASSUME NEW i \in DOMAIN ms PROVE each[i].text = ms[i].content
  OBVIOUS
<1> DEFINE last == Len(ms)
           scan == G!Scan(pats, ms)
<1>1. /\ last \in Nat /\ DOMAIN ms = 1 .. last
      /\ \A k \in DOMAIN ms :
           /\ After(Word, P, pats, G!Placeholder, ms[k].content, Len(pats), each[k])
           /\ (\A c \in P : each[k].counts[c] = 0) => each[k].text = ms[k].content
      /\ scan.counts = [c \in P |-> scan.counts[c]]
      /\ \A c \in P : SumsTo([k \in 1 .. last |-> each[k].counts[c]], last, scan.counts[c])
  BY DEF Scanned
<1>2. ~ G!Found(scan)
  OBVIOUS
<1> HIDE DEF last, scan
<1>3. DOMAIN scan.counts = P
  BY <1>1
<1>4. ASSUME NEW c \in P PROVE each[i].counts[c] = 0
  <2> DEFINE w == [k \in 1 .. last |-> each[k].counts[c]]
  <2>1. w \in [1 .. last -> Nat]
    BY <1>1 DEF After, AccOf
  <2>2. SumsTo(w, last, scan.counts[c])
    BY <1>1
  <2>3. ~ (scan.counts[c] > 0)
    BY <1>2, <1>3 DEF G!Found
  <2> HIDE DEF w
  <2>4. scan.counts[c] \in Nat /\ (scan.counts[c] = 0 <=> \A k \in 1 .. last : w[k] = 0)
    BY <1>1, <2>1, <2>2, SumIs
  <2>5. w[i] = 0
    BY <1>1, <2>3, <2>4
  <2>. QED
    BY <1>1, <2>5 DEF w
<1>. QED
  BY <1>1, <1>4

\* No message of a text commands the model.
Unflagged(t) == \A i \in DOMAIN t : G!ToSet(t[i].content) \intersect G!Imperatives = {}

\* No message of a text has a word that the fast patterns match.
Clean(t) == \A i \in DOMAIN t : G!Pii(G!Patterns, t[i].content) = {}

\* The label of a match is None if no message commands anything.
LEMMA LabelIs ==
  ASSUME NEW ms
  PROVE  /\ G!MatchedLabel(ms) = None <=> Unflagged(ms)
         /\ G!MatchedLabel(ms) # None => G!MatchedLabel(ms) \in G!Imperatives
<1> DEFINE flagged == {i \in DOMAIN ms : G!ToSet(ms[i].content) \intersect G!Imperatives # {}}
<1>1. flagged = {} <=> Unflagged(ms)
  BY DEF Unflagged
<1>2. G!MatchedLabel(ms) = IF flagged = {} THEN None
                           ELSE IF "ignore" \in G!ToSet(ms[G!Min(flagged)].content)
                                THEN "ignore" ELSE "reveal"
  BY DEF G!MatchedLabel
<1>. QED
  BY <1>1, <1>2, ReasonAssumption DEF G!Imperatives

\* The same messages, with no word of PII left.
Redacts(ms, out) ==
  /\ DOMAIN out = DOMAIN ms
  /\ \A i \in DOMAIN ms :
       LET was == ms[i].content
           is == out[i].content
       IN /\ out[i].role = ms[i].role
          /\ DOMAIN is = DOMAIN was
          /\ G!Pii(G!Patterns, is) = {}
          /\ \A k \in DOMAIN was \ G!Pii(G!Patterns, was) : is[k] = was[k]

\* They are what the PII guardrail sends on.
LEMMA SentIs ==
  ASSUME NEW Role, NEW Word, All \subseteq Word, NEW ms \in Conversation(Role, Word),
         NEW ctx, ctx = [messages |-> ms, result |-> None],
         NEW out, out = G!PiiGuardrail("redact", ctx)
  PROVE  out.reject = None /\ Redacts(ms, out.ctx.messages)
<1> DEFINE pats == G!Patterns
           scan == G!Scan(pats, ms)
           each == EachOf(pats, ms)
           red == [i \in DOMAIN ms |-> [ms[i] EXCEPT !.content = each[i].text]]
           last == Len(ms)
           Message == [role : Role, content : Seq(Word)]
<1>1. Markable(Word, Fast, pats, G!Placeholder)
  BY ListsAre DEF All
<1>2. /\ last \in Nat /\ DOMAIN ms = 1 .. last
      /\ \A i \in DOMAIN ms :
              /\ ms[i] \in Message
              /\ After(Word, Fast, pats, G!Placeholder, ms[i].content, Len(pats), each[i])
              /\ G!Pii(pats, ms[i].content) = Reach(pats, Len(pats), ms[i].content)
              /\ G!Pii(pats, each[i].text) = {}
              /\ (\A c \in Fast : each[i].counts[c] = 0) => each[i].text = ms[i].content
      /\ scan.messages = red
      /\ DOMAIN scan.counts = Fast
      /\ \A c \in Fast : SumsTo([i \in 1 .. last |-> each[i].counts[c]], last, scan.counts[c])
  <2> HIDE DEF pats, each
  <2>1. Scanned(Role, Word, Fast, pats, ms, each)
    BY <1>1, ScanWell DEF each
  <2>. QED
    BY <2>1 DEF Scanned
<1> HIDE DEF pats, scan, each
<1>3. ASSUME ~ G!Found(scan), NEW i \in DOMAIN ms PROVE each[i].text = ms[i].content
  <2>1. ~ G!Found(G!Scan(pats, ms))
    BY <1>3 DEF scan
  <2>2. Scanned(Role, Word, Fast, pats, ms, each)
    BY <1>1, ScanWell DEF each
  <2>. QED
    BY <2>1, <2>2, NothingFound
<1>4. /\ out.reject = None
      /\ out.ctx.messages = IF G!Found(scan) THEN red ELSE ms
  <2>1. ctx.messages = ms /\ [ctx EXCEPT !.messages = scan.messages].messages = red
    BY <1>2
  <2> HIDE DEF red
  <2>2. out = IF G!Found(scan)
              THEN [ctx |-> [ctx EXCEPT !.messages = scan.messages], reject |-> None]
              ELSE [ctx |-> ctx, reject |-> None]
    BY <2>1 DEF G!PiiGuardrail, G!Pass, scan, pats
  <2>. QED
    BY <2>1, <2>2
<1>5. ASSUME NEW i \in DOMAIN ms
      PROVE  /\ out.ctx.messages[i].role = ms[i].role
             /\ out.ctx.messages[i].content = each[i].text
  <2>1. red[i].role = ms[i].role /\ red[i].content = each[i].text
    BY <1>2
  <2>. QED
    BY <1>3, <1>4, <2>1
<1>6. DOMAIN out.ctx.messages = DOMAIN ms
  BY <1>4
<1>7. ASSUME NEW i \in DOMAIN ms
      PROVE  /\ DOMAIN each[i].text = DOMAIN ms[i].content
             /\ G!Pii(pats, each[i].text) = {}
             /\ \A k \in DOMAIN ms[i].content \ G!Pii(pats, ms[i].content) :
                  each[i].text[k] = ms[i].content[k]
  <2>1. /\ After(Word, Fast, pats, G!Placeholder, ms[i].content, Len(pats), each[i])
        /\ G!Pii(pats, ms[i].content) = Reach(pats, Len(pats), ms[i].content)
        /\ G!Pii(pats, each[i].text) = {}
    BY <1>2
  <2>2. /\ DOMAIN each[i].text = DOMAIN ms[i].content
        /\ \A k \in DOMAIN ms[i].content \ Reach(pats, Len(pats), ms[i].content) :
             each[i].text[k] = ms[i].content[k]
    BY <2>1 DEF After
  <2>. QED
    BY <2>1, <2>2
<1> HIDE DEF red, last, Message
<1>8. ASSUME NEW i \in DOMAIN ms
      PROVE  /\ out.ctx.messages[i].role = ms[i].role
             /\ DOMAIN out.ctx.messages[i].content = DOMAIN ms[i].content
             /\ G!Pii(pats, out.ctx.messages[i].content) = {}
             /\ \A k \in DOMAIN ms[i].content \ G!Pii(pats, ms[i].content) :
                  out.ctx.messages[i].content[k] = ms[i].content[k]
  BY <1>5, <1>7
<1> DEFINE to == out.ctx.messages
<1>9. Redacts(ms, to)
  <2> HIDE DEF to
  <2>1. DOMAIN to = DOMAIN ms
    BY <1>6 DEF to
  <2>2. ASSUME NEW i \in DOMAIN ms
        PROVE  /\ to[i].role = ms[i].role
               /\ DOMAIN to[i].content = DOMAIN ms[i].content
               /\ G!Pii(G!Patterns, to[i].content) = {}
               /\ \A k \in DOMAIN ms[i].content \ G!Pii(G!Patterns, ms[i].content) :
                    to[i].content[k] = ms[i].content[k]
    BY <1>8 DEF to, pats
  <2>. QED
    BY <2>1, <2>2 DEF Redacts
<1>. QED
  BY <1>4, <1>9

\* A deployed guard, in the chain that _build_guardrails wires.
Guarding(name, max) ==
  [t \in Text |->
     LET out == G!Check(name, [max |-> max, mode |-> "redact"],
                        [messages |-> t, result |-> None])
     IN IF out.reject = None THEN out.ctx.messages ELSE Rejected]

DeployedPre(max) == [i \in DOMAIN G!Pre |-> Guarding(G!Pre[i], max)]

\* The injection guardrail passes an unflagged text as it is, and no other.
LEMMA InjectionIs ==
  ASSUME NEW t \in Text, NEW max, None \notin G!Imperatives
  PROVE  Guarding("injection", max)[t] = IF Unflagged(t) THEN t ELSE Rejected
<1> DEFINE ctx == [messages |-> t, result |-> None]
           flagged == {i \in DOMAIN t : G!ToSet(t[i].content) \intersect G!Imperatives # {}}
<1>1. G!Check("injection", [max |-> max, mode |-> "redact"], ctx) = G!InjectionGuardrail(ctx)
  BY DEF G!Check
<1>2. flagged = {} <=> Unflagged(t)
  BY DEF Unflagged
<1>3. G!MatchedLabel(t) = IF flagged = {} THEN None
                          ELSE IF "ignore" \in G!ToSet(t[G!Min(flagged)].content)
                               THEN "ignore" ELSE "reveal"
  BY DEF G!MatchedLabel
<1>4. G!MatchedLabel(t) = None <=> Unflagged(t)
  BY <1>2, <1>3 DEF G!Imperatives
<1>5. ctx.messages = t
  OBVIOUS
<1>6. G!InjectionGuardrail(ctx) = IF Unflagged(t) THEN [ctx |-> ctx, reject |-> None]
                                  ELSE [ctx |-> ctx, reject |-> G!MatchedLabel(t)]
  BY <1>4, <1>5 DEF G!InjectionGuardrail, G!Pass, G!Reject
<1>. QED
  BY <1>1, <1>4, <1>5, <1>6 DEF Guarding

\* The PII guardrail leaves a clean text of the same shape, which commands
\* nothing that the text did not; and a clean text as it is.
LEMMA PiiGuardIs ==
  ASSUME NEW Role, NEW Word, Fast \subseteq Word, Text = Conversation(Role, Word),
         NEW t \in Text, NEW max,
         NEW u, u = Guarding("pii", max)[t], Rejected \notin Text
  PROVE  /\ u \in Text /\ Clean(u)
         /\ Unflagged(t) => Unflagged(u)
         /\ Clean(t) => u = t
<1> DEFINE ctx == [messages |-> t, result |-> None]
           pats == G!Patterns
           scan == G!Scan(pats, t)
           each == EachOf(pats, t)
           red == [i \in DOMAIN t |-> [t[i] EXCEPT !.content = each[i].text]]
           Message == [role : Role, content : Seq(Word)]
<1>1. G!Check("pii", [max |-> max, mode |-> "redact"], ctx) = G!PiiGuardrail("redact", ctx)
  BY DEF G!Check
<1>2. Scanned(Role, Word, Fast, pats, t, each)
  <2>1. Markable(Word, Fast, pats, G!Placeholder)
    BY ListsAre
  <2> HIDE DEF pats
  <2>. QED
    BY <2>1, ScanWell
<1>3. u = IF G!Found(scan) THEN red ELSE t
  <2>1. scan.messages = red
    BY <1>2 DEF Scanned
  <2> HIDE DEF red, scan
  <2>2. ctx.messages = t /\ [ctx EXCEPT !.messages = scan.messages].messages = red
    BY <2>1
  <2>3. G!PiiGuardrail("redact", ctx)
          = IF G!Found(scan) THEN [ctx |-> [ctx EXCEPT !.messages = scan.messages], reject |-> None]
            ELSE [ctx |-> ctx, reject |-> None]
    BY <2>2 DEF G!PiiGuardrail, G!Pass, scan
  <2> HIDE DEF ctx
  <2>4. Guarding("pii", max)[t] = IF G!Found(scan) THEN red ELSE t
    BY <1>1, <2>2, <2>3 DEF Guarding, ctx
  <2>. QED
    BY <2>4
<1>4. t \in Seq(Message) /\ DOMAIN t = 1 .. Len(t) /\ Len(t) \in Nat
  BY DEF Conversation
<1> HIDE DEF scan
<1>5. ASSUME NEW i \in DOMAIN t
      PROVE  /\ t[i] \in Message /\ t[i].content \in Seq(Word)
             /\ each[i].text \in Seq(Word) /\ DOMAIN each[i].text = DOMAIN t[i].content
             /\ G!Pii(pats, each[i].text) = {}
             /\ \A k \in DOMAIN t[i].content :
                  \/ each[i].text[k] = t[i].content[k]
                  \/ k \in G!Pii(pats, t[i].content) /\ each[i].text[k] \in Fast
  <2> HIDE DEF pats, each
  <2>1. /\ t[i] \in Message
        /\ After(Word, Fast, pats, G!Placeholder, t[i].content, Len(pats), each[i])
        /\ G!Pii(pats, t[i].content) = Reach(pats, Len(pats), t[i].content)
        /\ G!Pii(pats, each[i].text) = {}
    BY <1>2 DEF Scanned
  <2>2. \A c \in Fast : G!Placeholder[c] \in Fast
    BY ListsAre DEF All
  <2>. QED
    BY <2>1, <2>2 DEF After, AccOf
<1>6. ~ G!Found(scan) => \A i \in DOMAIN t : each[i].text = t[i].content
  <2> HIDE DEF pats, each
  <2>. QED
    BY <1>2, NothingFound DEF scan
<1> HIDE DEF pats, each
<1>7. red \in Text
  <2>1. \A i \in DOMAIN t : [t[i] EXCEPT !.content = each[i].text] \in Message
    BY <1>5
  <2> HIDE DEF Message
  <2>2. red \in Seq(Message)
    BY <1>4, <2>1
  <2>. QED
    BY <2>2 DEF Conversation, Message
<1>8. /\ DOMAIN red = DOMAIN t
      /\ \A i \in DOMAIN t : red[i].content = each[i].text
  BY <1>5
<1>9. ASSUME \A i \in DOMAIN t : each[i].text = t[i].content PROVE red = t
  <2>1. ASSUME NEW i \in DOMAIN t PROVE red[i] = t[i]
    <3>1. t[i] \in Message /\ red[i] = [t[i] EXCEPT !.content = t[i].content]
      BY <1>5, <1>9
    <3>. QED
      BY <3>1
  <2>2. red \in Seq(Message)
    BY <1>7 DEF Conversation
  <2> HIDE DEF red, Message
  <2>. QED
    BY <1>4, <1>8, <2>1, <2>2
<1>10. u = red
  BY <1>3, <1>6, <1>9
<1> HIDE DEF red
<1>11. Clean(u)
  BY <1>5, <1>8, <1>10 DEF Clean, pats
<1>12. ASSUME Unflagged(t), NEW i \in DOMAIN t
       PROVE  G!ToSet(each[i].text) \intersect G!Imperatives = {}
  <2>1. \A c \in Fast : c \notin G!Imperatives
    BY ListsAre DEF All
  <2>. QED
    BY <1>5, <1>12, <2>1 DEF Unflagged, G!ToSet
<1>13. Unflagged(t) => Unflagged(u)
  BY <1>8, <1>10, <1>12 DEF Unflagged
<1>14. ASSUME Clean(t) PROVE u = t
  <2>1. ASSUME NEW i \in DOMAIN t PROVE each[i].text = t[i].content
    <3>1. G!Pii(pats, t[i].content) = {}
      BY <1>14 DEF Clean, pats
    <3>2. each[i].text \in Seq(Word) /\ t[i].content \in Seq(Word)
      BY <1>5
    <3>3. /\ DOMAIN each[i].text = DOMAIN t[i].content
          /\ \A k \in DOMAIN t[i].content : each[i].text[k] = t[i].content[k]
      BY <1>5, <3>1
    <3>. QED
      BY <3>2, <3>3
  <2>. QED
    BY <1>9, <1>10, <2>1
<1>. QED
  BY <1>7, <1>10, <1>11, <1>13, <1>14

\* The deployed guardrails for injections and for PII hold.
LEMMA DeployedHold ==
  ASSUME NEW Role, NEW Word, Fast \subseteq Word, Text = Conversation(Role, Word),
         None \notin G!Imperatives, Rejected \notin Text, NEW max
  PROVE  GuardHolds(DeployedPre(max), 2) /\ GuardHolds(DeployedPre(max), 3)
<1>1. /\ DeployedPre(max) = <<Guarding("size", max), Guarding("injection", max),
                              Guarding("pii", max)>>
      /\ Len(DeployedPre(max)) = 3
      /\ DeployedPre(max)[2] = Guarding("injection", max)
      /\ DeployedPre(max)[3] = Guarding("pii", max)
  BY DEF DeployedPre, G!Pre
<1>2. ASSUME NEW t \in Text
      PROVE  /\ Guarding("injection", max)[t] = IF Unflagged(t) THEN t ELSE Rejected
             /\ Guarding("pii", max)[t] \in Text
             /\ Clean(Guarding("pii", max)[t])
             /\ Unflagged(t) => Unflagged(Guarding("pii", max)[t])
             /\ Clean(t) => Guarding("pii", max)[t] = t
  BY InjectionIs, PiiGuardIs
<1>3. GuardHolds(DeployedPre(max), 2)
  <2>1. \A j \in 2 + 1 .. 3 : j = 3
    OBVIOUS
  <2>. QED
    BY <1>1, <1>2, <2>1 DEF GuardHolds
<1>4. GuardHolds(DeployedPre(max), 3)
  <2>1. 3 + 1 .. 3 = {}
    OBVIOUS
  <2>. QED
    BY <1>1, <1>2, <2>1 DEF GuardHolds
<1>. QED
  BY <1>3, <1>4

\* With the chain that _build_guardrails wires no provider is sent a message
\* with a word that the fast PII patterns match or an imperative, whatever the
\* texts are and whatever the cap on their size is.
THEOREM DeployedCorrect ==
  ASSUME NEW Role, NEW Word, Fast \subseteq Word, Text = Conversation(Role, Word),
         None \notin G!Imperatives, NEW max, PreChain = DeployedPre(max)
  PROVE  Spec => [](\A r \in Request :
                      sent[r] # None /\ "guards" \in wired =>
                        Clean(sent[r].text) /\ Unflagged(sent[r].text))
<1>1. /\ Rejected \notin Text /\ Len(PreChain) = 3
      /\ PreChain[2] = Guarding("injection", max) /\ PreChain[3] = Guarding("pii", max)
  BY ChatAssumption DEF DeployedPre, G!Pre
<1>2. GuardHolds(PreChain, 2) /\ GuardHolds(PreChain, 3)
  BY <1>1, DeployedHold
<1>3. ASSUME NEW t \in Text, RunChain(PreChain, t) # Rejected
      PROVE  Clean(RunChain(PreChain, t)) /\ Unflagged(RunChain(PreChain, t))
  <2> DEFINE u == RunChain(PreChain, t)
  <2>1. u \in Text /\ PreChain[2][u] = u /\ PreChain[3][u] = u
    BY <1>1, <1>2, <1>3, ChainKeeps, ChainAssumption
  <2> HIDE DEF u
  <2>2. Clean(u)
    BY <1>1, <2>1, PiiGuardIs
  <2>3. Unflagged(u)
    BY <1>1, <2>1, InjectionIs
  <2>. QED
    BY <2>2, <2>3 DEF u
<1>4. GInv => \A r \in Request :
                sent[r] # None /\ "guards" \in wired =>
                  Clean(sent[r].text) /\ Unflagged(sent[r].text)
  BY <1>3 DEF GInv, Guarded
<1>. QED
  BY <1>4, SentIsGuarded, PTL

-----------------------------------------------------------------------------
(* The chain, the log filter and the sanitizer keep what Guards promises,  *)
(* whatever is read and however long it is.                                *)

\* What one check of a chain makes of what is left.
Checked(how, acc, name) ==
  IF acc.reject # None THEN acc
  ELSE LET out == G!Check(name, how, acc.ctx)
       IN [ctx |-> out.ctx, reject |-> out.reject,
           counted |-> Append(acc.counted,
                              <<name, IF out.reject = None THEN "pass" ELSE "block">>)]

\* f holds what each set of the first n checks leaves, run in order.
IsPhase(f, chain, how, n, x) ==
  f = [s \in SUBSET (1 .. n) |->
         IF s = {} THEN x ELSE Checked(how, f[s \ {Max(s)}], chain[Max(s)])]

\* Every phase can be run, check after check.
LEMMA PhaseExists ==
  ASSUME NEW chain, NEW how, NEW x, NEW n \in Nat
  PROVE  \E f : IsPhase(f, chain, how, n, x)
<1> DEFINE T == {k \in Nat : \E f : IsPhase(f, chain, how, k, x)}
<1>1. 0 \in T
  <2> DEFINE f == [s \in SUBSET (1 .. 0) |-> x]
  <2>1. 1 .. 0 = {}
    OBVIOUS
  <2>2. IsPhase(f, chain, how, 0, x)
    BY <2>1 DEF IsPhase
  <2>. QED
    BY <2>2
<1>2. ASSUME NEW k \in T PROVE k + 1 \in T
  <2>1. PICK f : IsPhase(f, chain, how, k, x)
    OBVIOUS
  <2> DEFINE g == [s \in SUBSET (1 .. k + 1) |->
                     IF k + 1 \notin s THEN f[s]
                     ELSE Checked(how, f[s \ {k + 1}], chain[k + 1])]
  <2>2. ASSUME NEW s \in SUBSET (1 .. k + 1)
        PROVE  g[s] = IF s = {} THEN x ELSE Checked(how, g[s \ {Max(s)}], chain[Max(s)])
    <3>1. CASE k + 1 \in s
      <4>1. Max(s) = k + 1
        BY <3>1, MaxOfFirst
      <4>2. g[s \ {k + 1}] = f[s \ {k + 1}]
        OBVIOUS
      <4>. QED
        BY <3>1, <4>1, <4>2
    <3>2. CASE k + 1 \notin s
      <4>1. s \in SUBSET (1 .. k) /\ g[s] = f[s]
        BY <3>2
      <4>2. g[s \ {Max(s)}] = f[s \ {Max(s)}]
        BY <3>2
      <4>. QED
        BY <2>1, <4>1, <4>2 DEF IsPhase
    <3>. QED
      BY <3>1, <3>2
  <2> DEFINE h == [s \in SUBSET (1 .. k + 1) |->
                     IF s = {} THEN x ELSE Checked(how, g[s \ {Max(s)}], chain[Max(s)])]
  <2>3. \A s \in SUBSET (1 .. k + 1) : g[s] = h[s]
    BY <2>2
  <2>4. g = [s \in SUBSET (1 .. k + 1) |-> g[s]] /\ h = [s \in SUBSET (1 .. k + 1) |-> h[s]]
    OBVIOUS
  <2> HIDE DEF g
  <2>5. g = h
    <3> HIDE DEF h
    <3>. QED
      BY <2>3, <2>4
  <2>6. IsPhase(g, chain, how, k + 1, x)
    BY <2>5 DEF IsPhase
  <2>. QED
    BY <2>6
<1> HIDE DEF T
<1>3. T = Nat
  BY <1>1, <1>2, SetInduction DEF T
<1>. QED
  BY <1>3 DEF T

\* The courses a phase of a chain can take: what is left after each check.
Course(run, chain, how, ctx) ==
  /\ run[0] = [ctx |-> ctx, reject |-> None, counted |-> <<>>]
  /\ \A n \in 1 .. Len(chain) : run[n] = Checked(how, run[n - 1], chain[n])

\* A phase is run check by check.
LEMMA PhaseRuns ==
  ASSUME NEW S, NEW chain \in Seq(S), NEW how, NEW ctx
  PROVE  \E run : Course(run, chain, how, ctx) /\ run[Len(chain)] = G!Run(chain, how, ctx)
<1> DEFINE last == Len(chain)
           x == [ctx |-> ctx, reject |-> None, counted |-> <<>>]
           Is(f) == f = [s \in SUBSET (DOMAIN chain) |->
                           IF s = {} THEN x
                           ELSE Checked(how, f[s \ {Max(s)}], chain[Max(s)])]
           g == CHOOSE f : Is(f)
<1>1. last \in Nat /\ DOMAIN chain = 1 .. last
  OBVIOUS
<1>2. G!Run(chain, how, ctx) = g[DOMAIN chain]
  BY DEF G!Run, G!FoldLeft, G!MapThenFoldSet, Checked, G!Max, Max
<1> HIDE DEF last, x
<1>3. PICK f : IsPhase(f, chain, how, last, x)
  BY <1>1, PhaseExists
<1>4. Is(f)
  BY <1>1, <1>3 DEF IsPhase
<1>5. Is(g)
  <2> HIDE DEF Is
  <2>. QED
    BY <1>4, Zenon
<1> HIDE DEF g
<1> DEFINE run == [n \in 0 .. last |-> g[1 .. n]]
<1>6. g[{}] = x
  BY <1>5
<1>7. ASSUME NEW n \in 1 .. last PROVE g[1 .. n] = Checked(how, g[1 .. (n - 1)], chain[n])
  <2>1. /\ 1 .. n \in SUBSET (1 .. last) /\ 1 .. n # {}
        /\ Max(1 .. n) = n /\ (1 .. n) \ {n} = 1 .. (n - 1)
    BY <1>1, FirstNumbers
  <2>. QED
    BY <1>1, <1>5, <2>1
<1>8. 1 .. 0 = {}
  OBVIOUS
<1>9. run[0] = x /\ run[last] = G!Run(chain, how, ctx)
  <2>1. 0 \in 0 .. last /\ last \in 0 .. last
    BY <1>1
  <2>. QED
    BY <1>1, <1>2, <1>6, <1>8, <2>1
<1>10. ASSUME NEW n \in 1 .. last PROVE run[n] = Checked(how, run[n - 1], chain[n])
  <2>1. n - 1 \in 0 .. last /\ n \in 0 .. last
    BY <1>1
  <2>. QED
    BY <1>7, <2>1
<1>11. Course(run, chain, how, ctx)
  BY <1>9, <1>10 DEF Course, last, x
<1>. QED
  BY <1>9, <1>11 DEF last

\* What is counted of a check.
Outcome(reason) == IF reason = None THEN "pass" ELSE "block"

\* What a check that runs leaves.
Follows(after, acc, how, name) ==
  LET out == G!Check(name, how, acc.ctx)
  IN /\ after.ctx = out.ctx /\ after.reject = out.reject
     /\ after.counted = Append(acc.counted, <<name, Outcome(out.reject)>>)

\* A check runs if none has rejected, and counts its outcome.
LEMMA CheckRuns ==
  ASSUME NEW acc, NEW how, NEW name
  PROVE  /\ acc.reject # None => Checked(how, acc, name) = acc
         /\ acc.reject = None => Follows(Checked(how, acc, name), acc, how, name)
BY DEF Checked, Outcome, Follows

\* Two sequences of the same length and elements are one.
LEMMA SameSeq ==
  ASSUME NEW S, NEW s \in Seq(S), NEW t \in Seq(S), Len(s) = Len(t),
         \A i \in 1 .. Len(s) : s[i] = t[i]
  PROVE  s = t
OBVIOUS

\* What a sequence is with one more element.
LEMMA AppendIs ==
  ASSUME NEW S, NEW s \in Seq(S), NEW b \in S
  PROVE  /\ Append(s, b) \in Seq(S) /\ Len(Append(s, b)) = Len(s) + 1
         /\ \A i \in 1 .. Len(s) : Append(s, b)[i] = s[i]
         /\ Append(s, b)[Len(s) + 1] = b
OBVIOUS

\* Short sequences, with one more element.
LEMMA Appends ==
  ASSUME NEW a, NEW b, NEW c
  PROVE  /\ Append(<<>>, a) = <<a>> /\ Append(<<a>>, b) = <<a, b>>
         /\ Append(<<a, b>>, c) = <<a, b, c>>
<1> DEFINE S == {a, b, c}
<1>1. a \in S /\ b \in S /\ c \in S
  OBVIOUS
<1>2. Append(<<>>, a) = <<a>>
  OBVIOUS
<1>3. Append(<<a>>, b) = <<a, b>>
  <2>1. <<a>> \in Seq(S) /\ Len(<<a>>) = 1 /\ <<a>>[1] = a
    OBVIOUS
  <2>2. /\ <<a, b>> \in Seq(S) /\ Len(<<a, b>>) = 2
        /\ <<a, b>>[1] = a /\ <<a, b>>[2] = b
    OBVIOUS
  <2> DEFINE s == <<a>>
             t == <<a, b>>
             u == Append(s, b)
  <2> HIDE DEF S, s
  <2>3. u \in Seq(S) /\ Len(u) = 2 /\ u[1] = a /\ u[2] = b
    <3>1. /\ u \in Seq(S) /\ Len(u) = Len(s) + 1
          /\ \A i \in 1 .. Len(s) : u[i] = s[i]
          /\ u[Len(s) + 1] = b
      BY <1>1, <2>1, AppendIs DEF s
    <3> HIDE DEF u
    <3>2. Len(s) = 1 /\ s[1] = a
      BY <2>1 DEF s
    <3>. QED
      BY <3>1, <3>2
  <2> HIDE DEF u, t
  <2>4. t \in Seq(S) /\ Len(t) = 2 /\ t[1] = a /\ t[2] = b
    BY <2>2 DEF t
  <2>5. \A i \in 1 .. 2 : i = 1 \/ i = 2
    OBVIOUS
  <2>6. u = t
    BY <2>3, <2>4, <2>5, SameSeq
  <2>. QED
    BY <2>6 DEF u, t, s
<1>4. Append(<<a, b>>, c) = <<a, b, c>>
  <2>1. <<a, b>> \in Seq(S) /\ Len(<<a, b>>) = 2 /\ <<a, b>>[1] = a /\ <<a, b>>[2] = b
    OBVIOUS
  <2>2. /\ <<a, b, c>> \in Seq(S) /\ Len(<<a, b, c>>) = 3
        /\ <<a, b, c>>[1] = a /\ <<a, b, c>>[2] = b /\ <<a, b, c>>[3] = c
    OBVIOUS
  <2> DEFINE s == <<a, b>>
             t == <<a, b, c>>
             u == Append(s, c)
  <2> HIDE DEF S, s
  <2>3. u \in Seq(S) /\ Len(u) = 3 /\ u[1] = a /\ u[2] = b /\ u[3] = c
    <3>1. /\ u \in Seq(S) /\ Len(u) = Len(s) + 1
          /\ \A i \in 1 .. Len(s) : u[i] = s[i]
          /\ u[Len(s) + 1] = c
      BY <1>1, <2>1, AppendIs DEF s
    <3> HIDE DEF u
    <3>2. Len(s) = 2 /\ s[1] = a /\ s[2] = b
      BY <2>1 DEF s
    <3>. QED
      BY <3>1, <3>2
  <2> HIDE DEF u, t
  <2>4. t \in Seq(S) /\ Len(t) = 3 /\ t[1] = a /\ t[2] = b /\ t[3] = c
    BY <2>2 DEF t
  <2>5. \A i \in 1 .. 3 : i = 1 \/ i = 2 \/ i = 3
    OBVIOUS
  <2>6. u = t
    BY <2>3, <2>4, <2>5, SameSeq
  <2>. QED
    BY <2>6 DEF u, t, s
<1>. QED
  BY <1>2, <1>3, <1>4
\* Forwards holds of all messages and for every cap.
LEMMA ForwardsIs ==
  ASSUME NEW Role, NEW Word, All \subseteq Word, NEW ms \in Conversation(Role, Word),
         NEW max \in Nat
  PROVE  G!Forwards(max, ms)
<1> DEFINE how == [max |-> max, mode |-> "redact", verdict |-> "benign"]
           ctx == [messages |-> ms, result |-> None]
           out == G!Run(G!Pre, how, ctx)
           fits == G!TotalChars(ms) <= max
           pii == G!PiiGuardrail("redact", ctx)
<1>1. /\ G!Pre \in Seq({"size", "injection", "pii"}) /\ Len(G!Pre) = 3
      /\ G!Pre[1] = "size" /\ G!Pre[2] = "injection" /\ G!Pre[3] = "pii"
  BY DEF G!Pre
<1>2. PICK run : Course(run, G!Pre, how, ctx) /\ run[3] = out
  <2>1. \E run : Course(run, G!Pre, how, ctx) /\ run[Len(G!Pre)] = G!Run(G!Pre, how, ctx)
    BY <1>1, PhaseRuns
  <2>. QED
    BY <1>1, <2>1
<1> HIDE DEF out
<1>3. /\ run[0] = [ctx |-> ctx, reject |-> None, counted |-> <<>>]
      /\ run[1] = Checked(how, run[0], "size")
      /\ run[2] = Checked(how, run[1], "injection")
      /\ run[3] = Checked(how, run[2], "pii")
  <2>1. 1 \in 1 .. 3 /\ 2 \in 1 .. 3 /\ 3 \in 1 .. 3
    OBVIOUS
  <2> HIDE DEF how, ctx
  <2>2. \A n \in 1 .. 3 : run[n] = Checked(how, run[n - 1], G!Pre[n])
    BY <1>1, <1>2 DEF Course
  <2>3. run[0] = [ctx |-> ctx, reject |-> None, counted |-> <<>>]
    BY <1>2 DEF Course
  <2>. QED
    BY <1>1, <2>1, <2>2, <2>3
<1>4. G!TotalChars(ms) \in Nat
  <2> DEFINE w == [i \in 1 .. Len(ms) |-> Len(ms[i].content)]
             Message == [role : Role, content : Seq(Word)]
  <2>1. SumsTo(w, Len(ms), G!TotalChars(ms))
    BY CharsWell
  <2>2. ms \in Seq(Message)
    BY DEF Conversation
  <2>3. Len(ms) \in Nat /\ \A i \in 1 .. Len(ms) : ms[i] \in Message
    <3> HIDE DEF Message
    <3>. QED
      BY <2>2
  <2>4. w \in [1 .. Len(ms) -> Nat]
    BY <2>3
  <2> HIDE DEF w
  <2>. QED
    BY <2>1, <2>3, <2>4, SumIs
<1>5. /\ how.max = max /\ how.mode = "redact" /\ ctx.messages = ms
  OBVIOUS
<1>6. /\ G!Check("size", how, ctx).ctx = ctx
      /\ G!Check("size", how, ctx).reject = IF fits THEN None ELSE "too large"
      /\ "too large" # None
  <2>1. "too large" # None
    BY ReasonAssumption
  <2>2. G!TotalChars(ms) > max <=> ~ fits
    BY <1>4
  <2> HIDE DEF fits
  <2>. QED
    BY <1>5, <2>1, <2>2 DEF G!Check, G!SizeGuardrail, G!Pass, G!Reject
<1>7. /\ G!Check("injection", how, ctx).ctx = ctx
      /\ G!Check("injection", how, ctx).reject = G!MatchedLabel(ms)
  BY <1>5 DEF G!Check, G!InjectionGuardrail, G!Pass, G!Reject
<1>8. G!Check("pii", how, ctx) = pii
  BY <1>5 DEF G!Check
<1>9. pii.reject = None /\ Redacts(ms, pii.ctx.messages)
  BY SentIs
<1>10. G!MatchedLabel(ms) = None <=> Unflagged(ms)
  BY LabelIs
<1> HIDE DEF how, ctx, pii
<1>11. /\ run[1].ctx = ctx
       /\ run[1].reject = IF fits THEN None ELSE "too large"
       /\ run[1].counted = <<<<"size", Outcome(run[1].reject)>>>>
  <2>1. run[0].ctx = ctx /\ run[0].reject = None /\ run[0].counted = <<>>
    BY <1>3
  <2>2. Follows(run[1], run[0], how, "size")
    BY <1>3, <2>1, CheckRuns
  <2>3. /\ run[1].ctx = G!Check("size", how, ctx).ctx
        /\ run[1].reject = G!Check("size", how, ctx).reject
        /\ run[1].counted = Append(<<>>,
                                  <<"size", Outcome(G!Check("size", how, ctx).reject)>>)
    BY <2>1, <2>2 DEF Follows
  <2>. QED
    BY <1>6, <2>3, Appends
<1>12. ASSUME ~ fits
       PROVE  /\ out.ctx = ctx /\ out.reject # None
              /\ out.counted = <<<<"size", "block">>>>
  <2>1. run[1].reject # None
    BY <1>6, <1>11, <1>12
  <2>2. run[2] = run[1]
    BY <1>3, <2>1, CheckRuns
  <2>3. run[3] = run[1]
    BY <1>3, <2>1, <2>2, CheckRuns
  <2>. QED
    BY <1>2, <1>11, <2>1, <2>3 DEF Outcome
<1>13. ASSUME fits
       PROVE  /\ run[2].ctx = ctx
              /\ run[2].reject = G!MatchedLabel(ms)
              /\ run[2].counted = <<<<"size", "pass">>, <<"injection", Outcome(run[2].reject)>>>>
  <2>1. run[1].ctx = ctx /\ run[1].reject = None /\ run[1].counted = <<<<"size", "pass">>>>
    BY <1>11, <1>13 DEF Outcome
  <2>2. Follows(run[2], run[1], how, "injection")
    BY <1>3, <2>1, CheckRuns
  <2>3. /\ run[2].ctx = G!Check("injection", how, ctx).ctx
        /\ run[2].reject = G!Check("injection", how, ctx).reject
        /\ run[2].counted = Append(<<<<"size", "pass">>>>,
                                  <<"injection", Outcome(G!Check("injection", how, ctx).reject)>>)
    BY <2>1, <2>2 DEF Follows
  <2>. QED
    BY <1>7, <2>3, Appends
<1>14. ASSUME fits, ~ Unflagged(ms)
       PROVE  /\ out.ctx = ctx /\ out.reject # None
              /\ out.counted = <<<<"size", "pass">>, <<"injection", "block">>>>
  <2>1. run[2].reject # None
    BY <1>10, <1>13, <1>14
  <2>2. run[3] = run[2]
    BY <1>3, <2>1, CheckRuns
  <2>. QED
    BY <1>2, <1>13, <1>14, <2>1, <2>2 DEF Outcome
<1>15. ASSUME fits, Unflagged(ms)
       PROVE  /\ out.ctx = pii.ctx /\ out.reject = None
              /\ out.counted = <<<<"size", "pass">>, <<"injection", "pass">>, <<"pii", "pass">>>>
  <2>1. /\ run[2].ctx = ctx /\ run[2].reject = None
        /\ run[2].counted = <<<<"size", "pass">>, <<"injection", "pass">>>>
    BY <1>10, <1>13, <1>15 DEF Outcome
  <2>2. Follows(run[3], run[2], how, "pii")
    BY <1>3, <2>1, CheckRuns
  <2>3. /\ run[3].ctx = G!Check("pii", how, ctx).ctx
        /\ run[3].reject = G!Check("pii", how, ctx).reject
        /\ run[3].counted = Append(<<<<"size", "pass">>, <<"injection", "pass">>>>,
                                  <<"pii", Outcome(G!Check("pii", how, ctx).reject)>>)
    BY <2>1, <2>2 DEF Follows
  <2>. QED
    BY <1>2, <1>8, <1>9, <2>3, Appends DEF Outcome
<1> DEFINE onward == out.ctx.messages
           flagged == \E i \in DOMAIN ms : G!ToSet(ms[i].content) \intersect G!Imperatives # {}
<1>16. Unflagged(ms) <=> ~ flagged
  BY DEF Unflagged
<1>17. /\ out.reject = None <=> fits /\ Unflagged(ms)
       /\ out.reject # None => onward = ms
       /\ out.reject = None => onward = pii.ctx.messages
  <2>1. CASE ~ fits
    <3>1. out.reject # None /\ out.ctx = ctx
      BY <1>12, <2>1
    <3>. QED
      BY <1>5, <2>1, <3>1
  <2>2. CASE fits /\ ~ Unflagged(ms)
    <3>1. out.reject # None /\ out.ctx = ctx
      BY <1>14, <2>2
    <3>. QED
      BY <1>5, <2>2, <3>1
  <2>3. CASE fits /\ Unflagged(ms)
    BY <1>15, <2>3
  <2>. QED
    BY <2>1, <2>2, <2>3
<1>18. \A i \in DOMAIN out.counted :
         out.counted[i] = <<G!Pre[i], IF out.reject # None /\ i = Len(out.counted)
                                      THEN "block" ELSE "pass">>
  <2>1. CASE ~ fits
    <3>1. out.reject # None /\ out.counted = <<<<"size", "block">>>>
      BY <1>12, <2>1
    <3>2. DOMAIN out.counted = {1} /\ Len(out.counted) = 1 /\ out.counted[1] = <<"size", "block">>
      BY <3>1
    <3>. QED
      BY <1>1, <3>1, <3>2
  <2>2. CASE fits /\ ~ Unflagged(ms)
    <3>1. out.reject # None /\ out.counted = <<<<"size", "pass">>, <<"injection", "block">>>>
      BY <1>14, <2>2
    <3>2. /\ DOMAIN out.counted = {1, 2} /\ Len(out.counted) = 2
          /\ out.counted[1] = <<"size", "pass">> /\ out.counted[2] = <<"injection", "block">>
      BY <3>1
    <3>. QED
      BY <1>1, <3>1, <3>2
  <2>3. CASE fits /\ Unflagged(ms)
    <3>1. /\ out.reject = None
          /\ out.counted = <<<<"size", "pass">>, <<"injection", "pass">>, <<"pii", "pass">>>>
      BY <1>15, <2>3
    <3>2. /\ DOMAIN out.counted = {1, 2, 3}
          /\ out.counted[1] = <<"size", "pass">> /\ out.counted[2] = <<"injection", "pass">>
          /\ out.counted[3] = <<"pii", "pass">>
      BY <3>1
    <3>. QED
      BY <1>1, <3>1, <3>2
  <2>. QED
    BY <2>1, <2>2, <2>3
<1>19. out.reject = None => Redacts(ms, onward)
  <2> HIDE DEF onward
  <2>. QED
    BY <1>9, <1>17
<1> HIDE DEF onward, flagged
<1>20. /\ out.reject = None <=> fits /\ ~ flagged
       /\ out.reject # None => onward = ms
  BY <1>16, <1>17
<1>. QED
  BY <1>18, <1>19, <1>20 DEF G!Forwards, Redacts, out, how, ctx, onward, flagged

\* The numbers of all keys, added up.
SumOf(h) == G!MapThenSumSet(LAMBDA k : h[k], DOMAIN h)

\* Four keys and their numbers.
FourKeys(h, a, b, c, d) ==
  /\ h \in [{a, b, c, d} -> Nat]
  /\ a # b /\ a # c /\ a # d /\ b # c /\ b # d /\ c # d

\* What adding the numbers of four keys, in any order, comes to.
LEMMA FourAdded ==
  ASSUME NEW h, NEW a, NEW b, NEW c, NEW d, FourKeys(h, a, b, c, d)
  PROVE  SumOf(h) = h[a] + h[b] + h[c] + h[d]
<1> DEFINE S == {a, b, c, d}
           Part(s, k) == IF k \in s THEN h[k] ELSE 0
           Sum(s) == Part(s, a) + Part(s, b) + Part(s, c) + Part(s, d)
           Pick(s) == CHOOSE x \in s : TRUE
           Is(f) == f = [s \in SUBSET S |->
                           IF s = {} THEN 0 ELSE h[Pick(s)] + f[s \ {Pick(s)}]]
           g == CHOOSE f : Is(f)
           f == [s \in SUBSET S |-> Sum(s)]
<1>0. /\ h \in [S -> Nat]
      /\ a # b /\ a # c /\ a # d /\ b # c /\ b # d /\ c # d
  BY DEF FourKeys
<1>1. SumOf(h) = g[S]
  BY <1>0 DEF SumOf, G!MapThenSumSet, G!MapThenFoldSet
<1>2. h[a] \in Nat /\ h[b] \in Nat /\ h[c] \in Nat /\ h[d] \in Nat
  BY <1>0
<1>3. ASSUME NEW s \in SUBSET S, s # {}
      PROVE  /\ Pick(s) \in s /\ Pick(s) \in S /\ s \ {Pick(s)} \in SUBSET S
             /\ Sum(s) = h[Pick(s)] + Sum(s \ {Pick(s)})
  <2>1. Pick(s) \in s
    BY <1>3
  <2> DEFINE x == Pick(s)
             u == s \ {x}
  <2> HIDE DEF x, Pick
  <2>2. x \in s /\ x \in S
    BY <2>1 DEF x
  <2>3. Sum(s) = h[x] + Sum(u)
    <3>1. CASE x = a
      <4>1. Part(u, a) = 0 /\ Part(s, a) = h[a]
        BY <1>0, <2>2, <3>1
      <4>2. Part(u, b) = Part(s, b) /\ Part(u, c) = Part(s, c) /\ Part(u, d) = Part(s, d)
        BY <1>0, <3>1
      <4>. QED
        BY <1>2, <3>1, <4>1, <4>2
    <3>2. CASE x = b
      <4>1. Part(u, b) = 0 /\ Part(s, b) = h[b]
        BY <1>0, <2>2, <3>2
      <4>2. Part(u, a) = Part(s, a) /\ Part(u, c) = Part(s, c) /\ Part(u, d) = Part(s, d)
        BY <1>0, <3>2
      <4>. QED
        BY <1>2, <3>2, <4>1, <4>2
    <3>3. CASE x = c
      <4>1. Part(u, c) = 0 /\ Part(s, c) = h[c]
        BY <1>0, <2>2, <3>3
      <4>2. Part(u, a) = Part(s, a) /\ Part(u, b) = Part(s, b) /\ Part(u, d) = Part(s, d)
        BY <1>0, <3>3
      <4>. QED
        BY <1>2, <3>3, <4>1, <4>2
    <3>4. CASE x = d
      <4>1. Part(u, d) = 0 /\ Part(s, d) = h[d]
        BY <1>0, <2>2, <3>4
      <4>2. Part(u, a) = Part(s, a) /\ Part(u, b) = Part(s, b) /\ Part(u, c) = Part(s, c)
        BY <1>0, <3>4
      <4>. QED
        BY <1>2, <3>4, <4>1, <4>2
    <3>. QED
      BY <1>0, <2>2, <3>1, <3>2, <3>3, <3>4
  <2>4. u \in SUBSET S
    OBVIOUS
  <2>. QED
    BY <2>2, <2>3, <2>4 DEF x
<1>4. Sum({}) = 0
  OBVIOUS
<1> HIDE DEF Pick, Sum, S
<1>5. Is(f)
  <2>1. ASSUME NEW s \in SUBSET S
        PROVE  f[s] = IF s = {} THEN 0 ELSE h[Pick(s)] + f[s \ {Pick(s)}]
    BY <1>3, <1>4
  <2>. QED
    BY <2>1
<1>6. Is(g)
  <2> HIDE DEF Is, f
  <2>. QED
    BY <1>5, Zenon
<1> HIDE DEF g, f
<1> DEFINE T == {n \in Nat : \A s \in SUBSET S : Cardinality(s) = n => g[s] = Sum(s)}
<1>7. ASSUME NEW s \in SUBSET S PROVE IsFiniteSet(s)
  <2>1. IsFiniteSet(S)
    <3>1. IsFiniteSet({a})
      BY FS_Singleton
    <3>2. IsFiniteSet({a} \union {b})
      BY <3>1, FS_AddElement
    <3>3. IsFiniteSet(({a} \union {b}) \union {c})
      BY <3>2, FS_AddElement
    <3>4. IsFiniteSet((({a} \union {b}) \union {c}) \union {d})
      BY <3>3, FS_AddElement
    <3>5. S = (({a} \union {b}) \union {c}) \union {d}
      BY DEF S
    <3>. QED
      BY <3>4, <3>5
  <2>. QED
    BY <2>1, FS_Subset
<1>8. 0 \in T
  <2>1. ASSUME NEW s \in SUBSET S, Cardinality(s) = 0 PROVE g[s] = Sum(s)
    <3>1. s = {}
      BY <1>7, <2>1, FS_EmptySet
    <3>. QED
      BY <1>4, <1>6, <3>1
  <2>. QED
    BY <2>1
<1>9. ASSUME NEW n \in T PROVE n + 1 \in T
  <2>1. ASSUME NEW s \in SUBSET S, Cardinality(s) = n + 1 PROVE g[s] = Sum(s)
    <3>1. s # {}
      <4>1. Cardinality({}) = 0 /\ n + 1 # 0
        BY FS_EmptySet
      <4>. QED
        BY <2>1, <4>1
    <3>2. Pick(s) \in s /\ s \ {Pick(s)} \in SUBSET S
      BY <1>3, <3>1
    <3>3. Cardinality(s \ {Pick(s)}) = n
      <4>1. Cardinality(s \ {Pick(s)}) = Cardinality(s) - 1
        BY <1>7, <3>2, FS_RemoveElement
      <4>. QED
        BY <2>1, <4>1
    <3>4. g[s \ {Pick(s)}] = Sum(s \ {Pick(s)})
      BY <3>2, <3>3
    <3>. QED
      BY <1>3, <1>6, <3>1, <3>4
  <2>. QED
    BY <2>1
<1> HIDE DEF T
<1>10. T = Nat
  BY <1>8, <1>9, SetInduction DEF T
<1>11. g[S] = Sum(S)
  <2>1. IsFiniteSet(S) /\ S \in SUBSET S
    BY <1>7
  <2>2. Cardinality(S) \in T
    BY <1>10, <2>1, FS_CardinalityType
  <2>. QED
    BY <2>1, <2>2 DEF T
<1>12. Sum(S) = h[a] + h[b] + h[c] + h[d]
  BY <1>2 DEF Sum, S
<1>. QED
  BY <1>1, <1>11, <1>12

\* The context of a phase that starts.
Context(ms) == [messages |-> ms, result |-> None]

\* A chain of one check does what the check does.
LEMMA OneCheck ==
  ASSUME NEW name, NEW how, NEW ctx,
         NEW out, out = G!Run(<<name>>, how, ctx)
  PROVE  /\ out.ctx = G!Check(name, how, ctx).ctx
         /\ out.reject = G!Check(name, how, ctx).reject
<1> DEFINE chain == <<name>>
<1>1. chain \in Seq({name}) /\ Len(chain) = 1 /\ chain[1] = name
  OBVIOUS
<1> HIDE DEF chain
<1>2. PICK run : Course(run, chain, how, ctx) /\ run[Len(chain)] = G!Run(chain, how, ctx)
  BY <1>1, PhaseRuns
<1>3. run[0].ctx = ctx /\ run[0].reject = None /\ run[1] = Checked(how, run[0], name)
  <2>1. 1 \in 1 .. 1 /\ 1 - 1 = 0
    OBVIOUS
  <2>2. run[1] = Checked(how, run[1 - 1], chain[1])
    BY <1>1, <1>2, <2>1 DEF Course
  <2>. QED
    BY <1>1, <1>2, <2>1, <2>2 DEF Course
<1>4. Follows(run[1], run[0], how, name)
  BY <1>3, CheckRuns
<1>5. out = run[1]
  BY <1>1, <1>2 DEF chain
<1>. QED
  BY <1>3, <1>4, <1>5 DEF Follows

\* A scan with four patterns counts every word of PII once.
LEMMA FourCounted ==
  ASSUME NEW Role, NEW Word, NEW P, NEW pats, Markable(Word, P, pats, G!Placeholder),
         NEW a, NEW b, NEW c, NEW d, FourOf(pats, a, b, c, d),
         NEW ms \in Conversation(Role, Word),
         NEW h, h = G!Scan(pats, ms).counts
  PROVE  /\ h \in [P -> Nat] /\ P = {a, b, c, d}
         /\ a # b /\ a # c /\ a # d /\ b # c /\ b # d /\ c # d
         /\ Total(pats, ms) = h[a] + h[b] + h[c] + h[d]
<1> DEFINE each == EachOf(pats, ms)
           last == Len(ms)
           w(k) == [i \in 1 .. last |-> each[i].counts[k]]
           v == [i \in 1 .. last |-> Cardinality(G!Pii(pats, ms[i].content))]
<1>1. Scanned(Role, Word, P, pats, ms, each)
  BY ScanWell
<1>2. /\ pats[1] = a /\ pats[2] = b /\ pats[3] = c /\ pats[4] = d /\ Len(pats) = 4
      /\ P = {a, b, c, d}
  BY DEF FourOf, Markable
<1>3. a # b /\ a # c /\ a # d /\ b # c /\ b # d /\ c # d
  <2>1. 1 \in 1 .. 4 /\ 2 \in 1 .. 4 /\ 3 \in 1 .. 4 /\ 4 \in 1 .. 4
    OBVIOUS
  <2>2. \A i, j \in 1 .. 4 : pats[i] = pats[j] => i = j
    BY <1>2 DEF Markable
  <2>. QED
    BY <1>2, <2>1, <2>2
<1> HIDE DEF each
<1>4. /\ last \in Nat /\ DOMAIN ms = 1 .. last
      /\ h = [k \in P |-> h[k]]
      /\ \A k \in P : SumsTo(w(k), last, h[k])
  BY <1>1 DEF Scanned
<1>5. ASSUME NEW i \in 1 .. last
      PROVE  /\ ms[i].content \in Seq(Word) /\ each[i].counts \in [P -> Nat]
             /\ v[i] = each[i].counts[a] + each[i].counts[b] + each[i].counts[c] + each[i].counts[d]
  <2> DEFINE t == ms[i].content
             R(m) == Cardinality(Reach(pats, m, t))
  <2>1. /\ ms[i] \in [role : Role, content : Seq(Word)]
        /\ After(Word, P, pats, G!Placeholder, t, Len(pats), each[i])
        /\ G!Pii(pats, t) = Reach(pats, Len(pats), t)
    BY <1>1, <1>4 DEF Scanned
  <2>2. t \in Seq(Word) /\ each[i].counts \in [P -> Nat]
    BY <2>1 DEF After, AccOf
  <2>3. \A m \in 1 .. 4 : each[i].counts[pats[m]] = R(m) - R(m - 1)
    BY <1>2, <2>1 DEF After
  <2> HIDE DEF t
  <2>4. \A m \in {0, 1, 2, 3, 4} : R(m) \in Nat
    <3>1. ASSUME NEW m \in {0, 1, 2, 3, 4} PROVE R(m) \in Nat
      <4>1. Reach(pats, m, t) \subseteq 1 .. Len(t) /\ Len(t) \in Nat
        BY <2>2 DEF Reach
      <4>2. IsFiniteSet(1 .. Len(t))
        BY <4>1, FS_Interval
      <4>3. IsFiniteSet(Reach(pats, m, t))
        BY <4>1, <4>2, FS_Subset
      <4>. QED
        BY <4>3, FS_CardinalityType
    <3>. QED
      BY <3>1
  <2>5. R(0) = 0
    <3>1. 1 .. 0 = {}
      OBVIOUS
    <3>2. Reach(pats, 0, t) = {}
      BY <3>1 DEF Reach
    <3>. QED
      BY <3>2, FS_EmptySet
  <2> HIDE DEF R
  <2>6. /\ each[i].counts[a] = R(1) - R(0) /\ each[i].counts[b] = R(2) - R(1)
        /\ each[i].counts[c] = R(3) - R(2) /\ each[i].counts[d] = R(4) - R(3)
    <3>1. /\ 1 \in 1 .. 4 /\ 2 \in 1 .. 4 /\ 3 \in 1 .. 4 /\ 4 \in 1 .. 4
          /\ 1 - 1 = 0 /\ 2 - 1 = 1 /\ 3 - 1 = 2 /\ 4 - 1 = 3
      OBVIOUS
    <3>. QED
      BY <1>2, <2>3, <3>1
  <2>7. v[i] = R(4)
    BY <1>2, <2>1 DEF R, t
  <2>8. v[i] = each[i].counts[a] + each[i].counts[b] + each[i].counts[c] + each[i].counts[d]
    <3>1. R(1) \in Nat /\ R(2) \in Nat /\ R(3) \in Nat /\ R(4) \in Nat
      BY <2>4
    <3>2. \A p, q, x, y \in Nat : y = (p - 0) + (q - p) + (x - q) + (y - x)
      OBVIOUS
    <3>3. R(4) = (R(1) - 0) + (R(2) - R(1)) + (R(3) - R(2)) + (R(4) - R(3))
      BY <3>1, <3>2
    <3>. QED
      BY <2>5, <2>6, <2>7, <3>3
  <2>. QED
    BY <2>2, <2>8 DEF t
<1>6. ASSUME NEW k \in P PROVE w(k) \in [1 .. last -> Nat] /\ h[k] \in Nat
  <2>1. w(k) \in [1 .. last -> Nat]
    BY <1>5
  <2>2. SumsTo(w(k), last, h[k])
    BY <1>4
  <2> HIDE DEF w, last
  <2>3. h[k] \in Nat
    BY <1>4, <2>1, <2>2, SumIs
  <2>. QED
    BY <2>1, <2>3
<1>7. h \in [P -> Nat]
  BY <1>4, <1>6
<1>8. SumsTo(v, last, Total(pats, ms))
  BY TotalWell
<1>9. FourWeights(last, v, w(a), w(b), w(c), w(d))
  <2>1. ASSUME NEW i \in 1 .. last
        PROVE  /\ w(a)[i] \in Nat /\ w(b)[i] \in Nat /\ w(c)[i] \in Nat /\ w(d)[i] \in Nat
               /\ v[i] = w(a)[i] + w(b)[i] + w(c)[i] + w(d)[i]
    <3>1. \A k \in P : w(k)[i] = each[i].counts[k] /\ each[i].counts[k] \in Nat
      BY <1>5
    <3>2. v[i] = each[i].counts[a] + each[i].counts[b] + each[i].counts[c] + each[i].counts[d]
      BY <1>5
    <3>3. a \in P /\ b \in P /\ c \in P /\ d \in P
      BY <1>2
    <3> HIDE DEF w, v, last
    <3>. QED
      BY <3>1, <3>2, <3>3
  <2>. QED
    BY <2>1 DEF FourWeights
<1>10. /\ SumsTo(w(a), last, h[a]) /\ SumsTo(w(b), last, h[b])
       /\ SumsTo(w(c), last, h[c]) /\ SumsTo(w(d), last, h[d])
  BY <1>2, <1>4
<1> HIDE DEF w, v, last
<1>11. Total(pats, ms) = h[a] + h[b] + h[c] + h[d]
  BY <1>4, <1>8, <1>9, <1>10, SumOfFour
<1>. QED
  BY <1>2, <1>3, <1>7, <1>11

\* A guardrail that rejects what a scan with four patterns finds, with its counts.
LEMMA CountsReject ==
  ASSUME NEW Role, NEW Word, NEW P, NEW pats, Markable(Word, P, pats, G!Placeholder),
         NEW a, NEW b, NEW c, NEW d, FourOf(pats, a, b, c, d),
         NEW ms \in Conversation(Role, Word),
         None \notin [P -> Nat],
         NEW reject, reject = IF G!Found(G!Scan(pats, ms)) THEN G!Scan(pats, ms).counts ELSE None
  PROVE  /\ reject = None <=> Total(pats, ms) = 0
         /\ reject # None => Total(pats, ms) = SumOf(reject)
<1> DEFINE h == G!Scan(pats, ms).counts
<1>1. /\ h \in [P -> Nat] /\ P = {a, b, c, d}
      /\ a # b /\ a # c /\ a # d /\ b # c /\ b # d /\ c # d
      /\ Total(pats, ms) = h[a] + h[b] + h[c] + h[d]
  <2> HIDE DEF h
  <2>1. h = G!Scan(pats, ms).counts
    BY DEF h
  <2>. QED
    BY <2>1, FourCounted
<1>2. G!Found(G!Scan(pats, ms)) <=> \E k \in DOMAIN h : h[k] > 0
  BY DEF G!Found
<1> HIDE DEF h
<1>3. h[a] \in Nat /\ h[b] \in Nat /\ h[c] \in Nat /\ h[d] \in Nat
  BY <1>1
<1>4. (\E k \in DOMAIN h : h[k] > 0) <=> Total(pats, ms) # 0
  BY <1>1, <1>3
<1>5. reject = IF Total(pats, ms) # 0 THEN h ELSE None
  BY <1>2, <1>4 DEF h
<1>6. h # None
  BY <1>1
<1>7. SumOf(h) = h[a] + h[b] + h[c] + h[d]
  <2>1. FourKeys(h, a, b, c, d)
    BY <1>1 DEF FourKeys
  <2>. QED
    BY <2>1, FourAdded
<1>8. ASSUME reject # None
      PROVE  Total(pats, ms) = SumOf(reject)
  <2>1. reject = h
    BY <1>5, <1>8
  <2>. QED
    BY <1>1, <1>7, <2>1
<1>. QED
  BY <1>5, <1>6, <1>8

\* Rejects holds of both PII guardrails, whatever the messages.
LEMMA RejectsIs ==
  ASSUME NEW Role, NEW Word, All \subseteq Word, NEW ms \in Conversation(Role, Word)
  PROVE  G!Rejects(G!Patterns, "pii", ms) /\ G!Rejects(G!NerPatterns, "pii_ner", ms)
<1> DEFINE how == [max |-> 0, mode |-> "reject", verdict |-> "benign"]
           ctx == Context(ms)
           Reason(pats) == IF G!Found(G!Scan(pats, ms)) THEN G!Scan(pats, ms).counts ELSE None
<1>1. how.mode = "reject" /\ ctx.messages = ms
  BY DEF Context
<1>2. /\ None \notin [Fast -> Nat] /\ None \notin [Ner -> Nat]
      /\ FourOf(G!Patterns, "EMAIL", "CREDIT_CARD", "SSN", "PHONE")
      /\ FourOf(G!NerPatterns, "PERSON", "ADDRESS", "IBAN", "IP_ADDRESS")
      /\ Markable(Word, Fast, G!Patterns, G!Placeholder)
      /\ Markable(Word, Ner, G!NerPatterns, G!Placeholder)
  <2>1. G!ToSet(G!Patterns) = Fast /\ G!ToSet(G!NerPatterns) = Ner
    BY ListsAre DEF FourOf, Fast, Ner
  <2>2. ToSet(G!Patterns) = Fast /\ ToSet(G!NerPatterns) = Ner
    BY <2>1 DEF G!ToSet, ToSet
  <2>. QED
    BY <2>2, ListsAre, ReasonAssumption DEF All
<1>3. /\ G!Check("pii", how, ctx).ctx = ctx
      /\ G!Check("pii", how, ctx).reject = Reason(G!Patterns)
  BY <1>1 DEF G!Check, G!PiiGuardrail, G!Pass, G!Reject
<1>4. /\ G!Check("pii_ner", how, ctx).ctx = ctx
      /\ G!Check("pii_ner", how, ctx).reject = Reason(G!NerPatterns)
  BY <1>1 DEF G!Check, G!PiiNerGuardrail, G!Pass, G!Reject
<1> HIDE DEF how, ctx
<1>5. ASSUME NEW pats, NEW name, NEW P, NEW a, NEW b, NEW c, NEW d,
             Markable(Word, P, pats, G!Placeholder), FourOf(pats, a, b, c, d),
             None \notin [P -> Nat],
             G!Check(name, how, ctx).ctx = ctx, G!Check(name, how, ctx).reject = Reason(pats)
      PROVE  G!Rejects(pats, name, ms)
  <2> DEFINE out == G!Run(<<name>>, how, ctx)
  <2>1. out.ctx = ctx /\ out.reject = Reason(pats)
    BY <1>5, OneCheck
  <2> HIDE DEF out
  <2>2. /\ out.reject = None <=> Total(pats, ms) = 0
        /\ out.reject # None => Total(pats, ms) = SumOf(out.reject)
    BY <1>5, <2>1, CountsReject
  <2>3. out.ctx.messages = ms
    BY <1>1, <2>1
  <2>. QED
    BY <2>2, <2>3 DEF G!Rejects, SumOf, out, how, ctx, Context, Total, Cardinality, G!Cardinality
<1>. QED
  BY <1>2, <1>3, <1>4, <1>5

\* Screened holds of all messages.
LEMMA ScreenedIs == ASSUME NEW ms PROVE G!Screened(ms)
<1> SUFFICES ASSUME NEW verdict \in {"benign", "injection"}
             PROVE  G!Run(<<"injection", "injection_classifier">>,
                          [max |-> 0, mode |-> "redact", verdict |-> verdict],
                          [messages |-> ms, result |-> None]).reject = None
                      <=> G!MatchedLabel(ms) = None /\ verdict = "benign"
  BY DEF G!Screened
<1> DEFINE chain == <<"injection", "injection_classifier">>
           how == [max |-> 0, mode |-> "redact", verdict |-> verdict]
           ctx == [messages |-> ms, result |-> None]
           out == G!Run(chain, how, ctx)
<1>1. /\ chain \in Seq({"injection", "injection_classifier"}) /\ Len(chain) = 2
      /\ chain[1] = "injection" /\ chain[2] = "injection_classifier"
  OBVIOUS
<1>2. ctx.messages = ms /\ how.verdict = verdict
  OBVIOUS
<1> HIDE DEF chain
<1>3. PICK run : Course(run, chain, how, ctx) /\ run[Len(chain)] = out
  BY <1>1, PhaseRuns
<1> HIDE DEF how, ctx, out
<1>4. /\ run[0].ctx = ctx /\ run[0].reject = None
      /\ run[1] = Checked(how, run[0], "injection")
      /\ run[2] = Checked(how, run[1], "injection_classifier")
      /\ out = run[2]
  <2>1. 1 \in 1 .. 2 /\ 2 \in 1 .. 2 /\ 1 - 1 = 0 /\ 2 - 1 = 1
    OBVIOUS
  <2>2. \A n \in 1 .. 2 : run[n] = Checked(how, run[n - 1], chain[n])
    BY <1>1, <1>3 DEF Course
  <2>3. run[0] = [ctx |-> ctx, reject |-> None, counted |-> <<>>]
    BY <1>3 DEF Course
  <2>. QED
    BY <1>1, <1>3, <2>1, <2>2, <2>3
<1>5. /\ G!Check("injection", how, ctx).ctx = ctx
      /\ G!Check("injection", how, ctx).reject = G!MatchedLabel(ms)
  BY <1>2 DEF G!Check, G!InjectionGuardrail, G!Pass, G!Reject
<1>6. run[1].ctx = ctx /\ run[1].reject = G!MatchedLabel(ms)
  <2>1. Follows(run[1], run[0], how, "injection")
    BY <1>4, CheckRuns
  <2>. QED
    BY <1>4, <1>5, <2>1 DEF Follows
<1>7. CASE G!MatchedLabel(ms) # None
  BY <1>4, <1>6, <1>7, CheckRuns DEF out, chain, how, ctx
<1>8. CASE G!MatchedLabel(ms) = None
  <2>1. Follows(run[2], run[1], how, "injection_classifier")
    BY <1>4, <1>6, <1>8, CheckRuns
  <2>2. out.reject = G!Check("injection_classifier", how, ctx).reject
    BY <1>4, <1>6, <2>1 DEF Follows
  <2>3. "classified" # None
    BY ReasonAssumption
  <2>4. G!Check("injection_classifier", how, ctx).reject = None <=> verdict = "benign"
    BY <1>2, <1>8, <2>3 DEF G!Check, G!InjectionClassifierGuardrail, G!Pass, G!Reject
  <2>. QED
    BY <1>8, <2>2, <2>4 DEF out, chain, how, ctx
<1>. QED
  BY <1>7, <1>8

\* What the log filter makes of a text, wherever it is in a value.
LEMMA ValueIs ==
  ASSUME NEW v, NEW path \in DOMAIN v, NEW t, v[path] = [type |-> "str", is |-> t]
  PROVE  G!RedactValue(v)[path].is = G!RedactForLog(t)
<1>1. G!RedactValue(v)[path] = [v[path] EXCEPT !.is = G!RedactForLog(@)]
  BY DEF G!RedactValue
<1>. QED
  BY <1>1

\* LogsClean holds of all messages, if there is one.
LEMMA LogsCleanIs ==
  ASSUME NEW Role, NEW Word, "REDACTED" \in Word,
         NEW ms \in Conversation(Role, Word), Len(ms) >= 1
  PROVE  G!LogsClean(ms)
<1> DEFINE all == G!Patterns \o G!NerPatterns
           text(i) == [type |-> "str", is |-> ms[i].content]
           nested == {<<i, i>> : i \in DOMAIN ms}
           single == [path \in {<<>>} |-> text(1)]
           many == [path \in nested |-> text(path[1])]
           args == <<single, many>>
           record == G!Filter([msg |-> ms[1].content, args |-> args])
           Message == [role : Role, content : Seq(Word)]
<1>1. /\ Len(ms) \in Nat /\ DOMAIN ms = 1 .. Len(ms)
      /\ \A i \in 1 .. Len(ms) : ms[i] \in Message
  <2>1. ms \in Seq(Message)
    BY DEF Conversation
  <2> HIDE DEF Message
  <2>. QED
    BY <2>1
<1>2. ASSUME NEW i \in 1 .. Len(ms)
      PROVE  G!Pii(all, G!RedactForLog(ms[i].content)) = {}
  <2>1. ms[i].content \in Seq(Word)
    BY <1>1
  <2>2. Markable(Word, All, all, G!Marker)
    BY ListsAre DEF All
  <2> HIDE DEF all
  <2>3. Redone(Word, All, all, G!Marker, ms[i].content, G!RedactText(G!Marker, all, ms[i].content))
    BY <2>1, <2>2, RedactWell
  <2>. QED
    BY <2>3 DEF Redone, G!RedactForLog, all
<1>3. 1 \in 1 .. Len(ms)
  BY <1>1
<1>4. DOMAIN args = {1, 2} /\ args[1] = single /\ args[2] = many
  OBVIOUS
<1>5. DOMAIN single = {<<>>} /\ single[<<>>] = text(1)
  OBVIOUS
<1>6. DOMAIN many = nested /\ \A i \in 1 .. Len(ms) : many[<<i, i>>] = text(i)
  BY <1>1
<1> HIDE DEF args, all, single, many
<1>7. /\ record.msg = G!RedactForLog(ms[1].content)
      /\ DOMAIN record.args = {1, 2}
      /\ record.args[1] = G!RedactValue(single)
      /\ record.args[2] = G!RedactValue(many)
  BY <1>4 DEF G!Filter
<1>8. /\ DOMAIN G!RedactValue(single) = {<<>>}
      /\ DOMAIN G!RedactValue(many) = nested
  BY <1>5, <1>6 DEF G!RedactValue
<1>9. G!RedactValue(single)[<<>>].is = G!RedactForLog(ms[1].content)
  BY <1>5, ValueIs
<1>10. ASSUME NEW i \in 1 .. Len(ms)
       PROVE  G!RedactValue(many)[<<i, i>>].is = G!RedactForLog(ms[i].content)
  <2>1. <<i, i>> \in DOMAIN many /\ many[<<i, i>>] = text(i)
    BY <1>1, <1>6
  <2>. QED
    BY <2>1, ValueIs
<1> HIDE DEF record
<1>11. ASSUME NEW k \in DOMAIN record.args, NEW path \in DOMAIN record.args[k]
       PROVE  G!Pii(all, record.args[k][path].is) = {}
  <2>1. CASE k = 1
    BY <1>2, <1>3, <1>7, <1>8, <1>9, <2>1
  <2>2. CASE k = 2
    <3>1. PICK i \in 1 .. Len(ms) : path = <<i, i>>
      BY <1>1, <1>7, <1>8, <2>2
    <3>. QED
      BY <1>2, <1>7, <1>10, <2>2, <3>1
  <2>. QED
    BY <1>7, <2>1, <2>2
<1>12. G!Pii(all, record.msg) = {}
  BY <1>2, <1>3, <1>7
<1>. QED
  BY <1>11, <1>12 DEF G!LogsClean, record, args, all, single, many

\* Returns holds of every text.
LEMMA ReturnsIs ==
  ASSUME NEW text, text # None
  PROVE  G!Returns(text)
<1> DEFINE how == [max |-> 0, mode |-> "redact", verdict |-> "benign"]
           ctx == [messages |-> <<>>, result |-> text]
           out == G!Run(G!Post, how, ctx)
           broken == {i \in DOMAIN G!Policy : G!Policy[i] \in G!ToSet(text)}
<1>1. G!Post = <<"content_policy">> /\ ctx.result = text
  BY DEF G!Post
<1>2. out.reject = G!Check("content_policy", how, ctx).reject
  <2> HIDE DEF how, ctx
  <2>. QED
    BY <1>1, OneCheck
<1>3. G!Check("content_policy", how, ctx).reject
        = IF broken = {} THEN None ELSE G!Policy[G!Min(broken)]
  <2> HIDE DEF how
  <2>. QED
    BY <1>1 DEF G!Check, G!ContentPolicyGuardrail, G!Pass, G!Reject
<1>4. /\ DOMAIN G!Policy = {1, 2} /\ G!ToSet(G!Policy) = {G!Policy[1], G!Policy[2]}
      /\ G!Policy[1] = "prompt-leak" /\ G!Policy[2] = "credentials"
  BY DEF G!Policy, G!ToSet
<1>5. CASE broken = {}
  <2>1. G!ToSet(text) \intersect G!ToSet(G!Policy) = {}
    BY <1>4, <1>5
  <2>. QED
    BY <1>2, <1>3, <1>5, <2>1 DEF G!Returns
<1>6. CASE broken # {}
  <2>1. G!Min(broken) \in broken
    <3>1. \E x \in broken : \A y \in broken : x <= y
      <4>1. CASE 1 \in broken
        BY <1>4, <4>1
      <4>2. CASE 1 \notin broken
        <5>1. broken = {2}
          BY <1>4, <1>6, <4>2
        <5>. QED
          BY <5>1
      <4>. QED
        BY <4>1, <4>2
    <3> HIDE DEF broken
    <3>. QED
      BY <3>1 DEF G!Min
  <2>2. G!Policy[G!Min(broken)] \in G!ToSet(text) \intersect G!ToSet(G!Policy)
    BY <1>4, <2>1
  <2> HIDE DEF out, broken
  <2>3. out.reject \in G!ToSet(text) \intersect G!ToSet(G!Policy)
    BY <1>2, <1>3, <1>6, <2>2
  <2>. QED
    BY <2>3 DEF G!Returns, out
<1>. QED
  BY <1>5, <1>6

\* The words of a tool's output, and those that are not hidden.
Written(Word) == [word : Word, split : BOOLEAN, brackets : Nat]
Shown(Word) == [word : Word \ {"hidden"}, split : {FALSE}, brackets : Nat]

\* What is kept of a text with its next word.
Kept(kept, w) ==
  IF w.word = "hidden" THEN kept ELSE Append(kept, [w EXCEPT !.split = FALSE])

\* StripHidden goes through a text word by word.
LEMMA StripRuns ==
  ASSUME NEW Word, NEW t \in Seq(Written(Word))
  PROVE  \E run : /\ run[0] = <<>> /\ run[Len(t)] = G!StripHidden(t)
                  /\ \A n \in 1 .. Len(t) : run[n] = Kept(run[n - 1], t[n])
<1> DEFINE W == Written(Word)
           last == Len(t)
           step == [n \in 1 .. last |-> [kept \in Seq(W) |-> Kept(kept, t[n])]]
           Is(f) == f = [s \in SUBSET (DOMAIN t) |->
                           IF s = {} THEN <<>> ELSE Kept(f[s \ {Max(s)}], t[Max(s)])]
           g == CHOOSE f : Is(f)
<1>1. last \in Nat /\ DOMAIN t = 1 .. last /\ \A n \in 1 .. last : t[n] \in W
  <2> HIDE DEF W
  <2>1. t \in Seq(W)
    BY DEF W
  <2>. QED
    BY <2>1
<1>2. G!StripHidden(t) = g[DOMAIN t]
  BY DEF G!StripHidden, G!FoldLeft, G!MapThenFoldSet, Kept, G!Max, Max
<1> HIDE DEF last
<1>3. step \in [1 .. last -> [Seq(W) -> Seq(W)]]
  <2>1. ASSUME NEW n \in 1 .. last, NEW kept \in Seq(W) PROVE Kept(kept, t[n]) \in Seq(W)
    <3>1. [t[n] EXCEPT !.split = FALSE] \in W
      BY <1>1 DEF Written
    <3> HIDE DEF W
    <3>. QED
      BY <3>1 DEF Kept
  <2>. QED
    BY <2>1
<1> HIDE DEF W
<1>4. PICK f : IsFoldIn(Seq(W), f, step, last, <<>>)
  <2>1. <<>> \in Seq(W)
    OBVIOUS
  <2> HIDE DEF step
  <2>. QED
    BY <1>1, <1>3, <2>1, FoldExists
<1>5. Is(f)
  <2>1. f = [s \in SUBSET (1 .. last) |->
               IF s = {} THEN <<>> ELSE step[Max(s)][f[s \ {Max(s)}]]]
    BY <1>4 DEF IsFoldIn, IsFold
  <2>2. ASSUME NEW s \in SUBSET (1 .. last), s # {}
        PROVE  step[Max(s)][f[s \ {Max(s)}]] = Kept(f[s \ {Max(s)}], t[Max(s)])
    <3>1. f[s \ {Max(s)}] \in Seq(W) /\ Max(s) \in 1 .. last
      BY <1>1, <1>4, <2>2, MaxIsIn DEF IsFoldIn
    <3>. QED
      BY <3>1
  <2> HIDE DEF step
  <2>. QED
    BY <1>1, <2>1, <2>2
<1>6. Is(g)
  <2> HIDE DEF Is
  <2>. QED
    BY <1>5, Zenon
<1> HIDE DEF g, step
<1> DEFINE run == [n \in 0 .. last |-> g[1 .. n]]
<1>7. g[{}] = <<>> /\ 1 .. 0 = {}
  BY <1>6
<1>8. ASSUME NEW n \in 1 .. last PROVE g[1 .. n] = Kept(g[1 .. (n - 1)], t[n])
  <2>1. /\ 1 .. n \in SUBSET (1 .. last) /\ 1 .. n # {}
        /\ Max(1 .. n) = n /\ (1 .. n) \ {n} = 1 .. (n - 1)
    BY <1>1, FirstNumbers
  <2>. QED
    BY <1>1, <1>6, <2>1
<1>9. run[0] = <<>> /\ run[last] = G!StripHidden(t)
  <2>1. 0 \in 0 .. last /\ last \in 0 .. last
    BY <1>1
  <2>. QED
    BY <1>1, <1>2, <1>7, <2>1
<1>10. ASSUME NEW n \in 1 .. last PROVE run[n] = Kept(run[n - 1], t[n])
  <2>1. n - 1 \in 0 .. last /\ n \in 0 .. last
    BY <1>1
  <2>. QED
    BY <1>8, <2>1
<1>. QED
  BY <1>9, <1>10 DEF last

\* One more word is one more shown, or none.
LEMMA ShownIs ==
  ASSUME NEW t, NEW n \in Nat
  PROVE  /\ Cardinality(G!ShownUpTo(t, n)) \in Nat
         /\ t[n + 1].word = "hidden" => G!ShownUpTo(t, n + 1) = G!ShownUpTo(t, n)
         /\ t[n + 1].word # "hidden" =>
              /\ G!ShownUpTo(t, n + 1) = G!ShownUpTo(t, n) \union {n + 1}
              /\ Cardinality(G!ShownUpTo(t, n + 1)) = Cardinality(G!ShownUpTo(t, n)) + 1
<1> DEFINE U == G!ShownUpTo(t, n)
           V == G!ShownUpTo(t, n + 1)
<1>1. U \subseteq 1 .. n /\ n + 1 \notin U
  BY DEF G!ShownUpTo
<1>2. IsFiniteSet(1 .. n)
  BY FS_Interval
<1>3. \A j : j \in 1 .. n + 1 <=> j \in 1 .. n \/ j = n + 1
  OBVIOUS
<1>4. /\ t[n + 1].word = "hidden" => V = U
      /\ t[n + 1].word # "hidden" => V = U \union {n + 1}
  BY <1>3 DEF G!ShownUpTo
<1> HIDE DEF U, V
<1>5. IsFiniteSet(U)
  BY <1>1, <1>2, FS_Subset
<1>6. Cardinality(U) \in Nat /\ Cardinality(U \union {n + 1}) = Cardinality(U) + 1
  BY <1>1, <1>5, FS_CardinalityType, FS_AddElement
<1>. QED
  BY <1>4, <1>6 DEF U, V

\* What has been kept of the first n words: those that are shown, in order.
KeepsShown(Word, t, n, kept) ==
  /\ kept \in Seq(Shown(Word)) /\ Len(kept) = Cardinality(G!ShownUpTo(t, n))
  /\ \A i \in G!ShownUpTo(t, n) :
       /\ Cardinality(G!ShownUpTo(t, i)) \in 1 .. Len(kept)
       /\ kept[Cardinality(G!ShownUpTo(t, i))] = [t[i] EXCEPT !.split = FALSE]

\* It is so with the next word.
LEMMA KeptIs ==
  ASSUME NEW Word, NEW t, NEW n \in Nat, t[n + 1] \in Written(Word),
         NEW kept, KeepsShown(Word, t, n, kept)
  PROVE  KeepsShown(Word, t, n + 1, Kept(kept, t[n + 1]))
<1> DEFINE S == Shown(Word)
           w == t[n + 1]
           new == [w EXCEPT !.split = FALSE]
           c == Cardinality(G!ShownUpTo(t, n))
<1>1. /\ kept \in Seq(S) /\ Len(kept) = c
      /\ \A i \in G!ShownUpTo(t, n) :
           /\ Cardinality(G!ShownUpTo(t, i)) \in 1 .. Len(kept)
           /\ kept[Cardinality(G!ShownUpTo(t, i))] = [t[i] EXCEPT !.split = FALSE]
  BY DEF KeepsShown
<1>2. CASE w.word = "hidden"
  <2>1. Kept(kept, w) = kept /\ G!ShownUpTo(t, n + 1) = G!ShownUpTo(t, n)
    BY <1>2, ShownIs DEF Kept
  <2>. QED
    BY <1>1, <2>1 DEF KeepsShown
<1>3. CASE w.word # "hidden"
  <2>1. new \in S
    BY <1>3 DEF Written, Shown
  <2>2. /\ G!ShownUpTo(t, n + 1) = G!ShownUpTo(t, n) \union {n + 1}
        /\ Cardinality(G!ShownUpTo(t, n + 1)) = c + 1 /\ c \in Nat
    BY <1>3, ShownIs
  <2> DEFINE z == Kept(kept, w)
  <2>3. z = Append(kept, new)
    BY <1>3 DEF Kept
  <2> HIDE DEF S, w, c, new, z
  <2>4. /\ z \in Seq(S) /\ Len(z) = c + 1 /\ z[c + 1] = new
        /\ \A i \in 1 .. c : z[i] = kept[i]
    BY <1>1, <2>1, <2>3, AppendIs
  <2>5. ASSUME NEW i \in G!ShownUpTo(t, n + 1)
        PROVE  /\ Cardinality(G!ShownUpTo(t, i)) \in 1 .. Len(z)
               /\ z[Cardinality(G!ShownUpTo(t, i))] = [t[i] EXCEPT !.split = FALSE]
    <3>1. CASE i = n + 1
      BY <2>2, <2>4, <3>1 DEF new, w
    <3>2. CASE i # n + 1
      <4> DEFINE k == Cardinality(G!ShownUpTo(t, i))
      <4>1. k \in 1 .. Len(kept) /\ kept[k] = [t[i] EXCEPT !.split = FALSE]
        BY <1>1, <2>2, <3>2
      <4> HIDE DEF k
      <4>2. k \in 1 .. c /\ k \in 1 .. c + 1
        BY <1>1, <2>2, <4>1
      <4>3. k \in 1 .. Len(z) /\ z[k] = [t[i] EXCEPT !.split = FALSE]
        BY <2>4, <4>1, <4>2
      <4>. QED
        BY <4>3 DEF k
    <3>. QED
      BY <3>1, <3>2
  <2>. QED
    BY <2>2, <2>4, <2>5 DEF KeepsShown, S, w, z
<1>. QED
  BY <1>2, <1>3

\* It keeps what is shown, and leaves a text that hides nothing as it is.
LEMMA StripIs ==
  ASSUME NEW Word, NEW t \in Seq(Written(Word))
  PROVE  /\ KeepsShown(Word, t, Len(t), G!StripHidden(t))
         /\ (\A i \in DOMAIN t : t[i].word # "hidden" /\ ~ t[i].split) => G!StripHidden(t) = t
<1> DEFINE last == Len(t)
           W == Written(Word)
           z == G!StripHidden(t)
<1>1. last \in Nat /\ DOMAIN t = 1 .. last /\ \A n \in 1 .. last : t[n] \in W
  <2> HIDE DEF W
  <2>1. t \in Seq(W)
    BY DEF W
  <2>. QED
    BY <2>1
<1>2. PICK run : /\ run[0] = <<>> /\ run[last] = z
                 /\ \A n \in 1 .. last : run[n] = Kept(run[n - 1], t[n])
  BY StripRuns
<1> HIDE DEF last, z
<1>3. KeepsShown(Word, t, last, z)
  <2> DEFINE T == {n \in Nat : n <= last => KeepsShown(Word, t, n, run[n])}
  <2>1. 0 \in T
    <3>1. G!ShownUpTo(t, 0) = {}
      BY DEF G!ShownUpTo
    <3>2. <<>> \in Seq(Shown(Word)) /\ Len(<<>>) = 0
      OBVIOUS
    <3>3. KeepsShown(Word, t, 0, run[0])
      BY <1>2, <3>1, <3>2, FS_EmptySet DEF KeepsShown
    <3>. QED
      BY <3>3
  <2>2. ASSUME NEW n \in T PROVE n + 1 \in T
    <3> SUFFICES ASSUME n + 1 <= last PROVE KeepsShown(Word, t, n + 1, run[n + 1])
      OBVIOUS
    <3>1. n + 1 \in 1 .. last /\ (n + 1) - 1 = n /\ KeepsShown(Word, t, n, run[n])
      BY <1>1
    <3>2. run[n + 1] = Kept(run[n], t[n + 1])
      BY <1>2, <3>1
    <3>3. t[n + 1] \in Written(Word)
      BY <1>1, <3>1
    <3> HIDE DEF W
    <3>. QED
      BY <3>1, <3>2, <3>3, KeptIs
  <2> HIDE DEF T
  <2>3. T = Nat
    BY <2>1, <2>2, SetInduction DEF T
  <2>. QED
    BY <1>1, <1>2, <2>3 DEF T
<1>4. ASSUME \A i \in DOMAIN t : t[i].word # "hidden" /\ ~ t[i].split PROVE z = t
  <2>1. ASSUME NEW i \in 1 .. last
        PROVE  G!ShownUpTo(t, i) = 1 .. i /\ Cardinality(1 .. i) = i
    <3>1. \A j \in 1 .. i : j \in 1 .. last
      BY <1>1
    <3>2. Cardinality(1 .. i) = i
      BY FS_Interval
    <3>. QED
      BY <1>1, <1>4, <3>1, <3>2 DEF G!ShownUpTo
  <2>2. Len(z) = last
    <3>1. CASE last = 0
      <4>1. G!ShownUpTo(t, 0) = {}
        BY DEF G!ShownUpTo
      <4>. QED
        BY <1>3, <3>1, <4>1, FS_EmptySet DEF KeepsShown
    <3>2. CASE last # 0
      <4>1. last \in 1 .. last
        BY <1>1, <3>2
      <4>. QED
        BY <1>3, <2>1, <4>1 DEF KeepsShown
    <3>. QED
      BY <3>1, <3>2
  <2>3. ASSUME NEW i \in 1 .. last PROVE z[i] = t[i]
    <3>1. i \in G!ShownUpTo(t, last)
      BY <1>1, <1>4 DEF G!ShownUpTo
    <3>2. z[i] = [t[i] EXCEPT !.split = FALSE]
      BY <1>3, <2>1, <3>1 DEF KeepsShown
    <3>3. t[i] \in Written(Word) /\ t[i].split = FALSE
      BY <1>1, <1>4 DEF Written
    <3>. QED
      BY <3>2, <3>3 DEF Written
  <2>4. z \in Seq(W) /\ t \in Seq(W)
    <3>1. Shown(Word) \subseteq W
      BY DEF Shown, Written
    <3>2. z \in Seq(Shown(Word))
      BY <1>3 DEF KeepsShown
    <3> DEFINE S == Shown(Word)
    <3> HIDE DEF S, W
    <3>3. z \in Seq(W)
      BY <3>1, <3>2 DEF S
    <3>. QED
      BY <3>3 DEF W
  <2> HIDE DEF W
  <2>5. last = Len(t)
    BY DEF last
  <2>. QED
    BY <2>2, <2>3, <2>4, <2>5, SameSeq
<1>. QED
  BY <1>3, <1>4 DEF last, z

\* The smaller of two numbers is a bound for what is within both.
LEMMA MinOfTwo ==
  ASSUME NEW a \in Nat, NEW b \in Nat
  PROVE  \A j \in Nat : j <= G!Min({a, b}) <=> j <= a /\ j <= b
<1> DEFINE S == {a, b}
<1>1. \E x \in S : \A y \in S : x <= y
  <2>1. CASE a <= b
    BY <2>1
  <2>2. CASE ~ (a <= b)
    <3>1. b <= a
      BY <2>2
    <3>. QED
      BY <3>1
  <2>. QED
    BY <2>1, <2>2
<1>2. G!Min(S) \in S /\ \A y \in S : G!Min(S) <= y
  <2> HIDE DEF S
  <2>. QED
    BY <1>1 DEF G!Min
<1>. QED
  BY <1>2

\* What the sanitizer makes of a text whose shown words are s: it defuses the
\* forged roles and brackets what commands.
Sanitized(W, s, z) ==
  /\ z \in Seq(W) /\ Len(z) = Len(s)
  /\ \A i \in DOMAIN z :
       /\ z[i].word # "hidden" /\ ~ z[i].split
       /\ ~ G!ForgedRole(z, i)
       /\ G!Commands(z, i) => z[i].brackets > 0
       /\ z[i].word = IF G!ForgedRole(s, i) THEN "(defanged)" ELSE s[i].word

\* No word begins to command by what is defused or bracketed behind it.
LEMMA CommandsIs ==
  ASSUME NEW n \in Nat, NEW s, NEW z, Len(s) = n, Len(z) = n, NEW i \in 1 .. n,
         \A j \in 1 .. n : G!Is(z[j], "ignore") => G!Is(s[j], "ignore"),
         \A j \in 1 .. n : G!Is(z[j], "instructions") => G!Is(s[j], "instructions"),
         G!Commands(z, i)
  PROVE  G!Commands(s, i)
<1> DEFINE m == G!Min({n, i + G!Ahead})
<1>1. PICK j \in i + 1 .. m : G!Is(z[j], "instructions")
  BY DEF G!Commands
<1>2. j \in 1 .. n
  <2>1. i + G!Ahead \in Nat /\ i \in Nat /\ i >= 1
    BY DEF G!Ahead
  <2> HIDE DEF m
  <2>2. j \in Nat /\ j >= 1 /\ j <= m
    BY <2>1
  <2>. QED
    BY <2>1, <2>2, MinOfTwo DEF m
<1>. QED
  BY <1>1, <1>2 DEF G!Commands

\* Sanitizing does it.
LEMMA SanitizeIs ==
  ASSUME NEW Word, NEW t \in Seq(Written(Word)), NEW z, z = G!Sanitize(t)
  PROVE  Sanitized(Written(Word \union {"(defanged)"}), G!StripHidden(t), z)
<1> DEFINE s == G!StripHidden(t)
           d == G!DefuseForgedRoles(s)
           W == Written(Word \union {"(defanged)"})
           last == Len(s)
<1>1. last \in Nat /\ DOMAIN s = 1 .. last /\ \A i \in 1 .. last : s[i] \in Shown(Word)
  <2> DEFINE S == Shown(Word)
  <2>1. s \in Seq(S)
    BY StripIs DEF KeepsShown
  <2> HIDE DEF S, s
  <2>. QED
    BY <2>1 DEF S
<1>2. z = G!NeutralizeInjections(d)
  BY DEF G!Sanitize
<1> HIDE DEF s
<1>3. /\ d = [i \in 1 .. last |->
                IF G!ForgedRole(s, i) THEN [s[i] EXCEPT !.word = "(defanged)"] ELSE s[i]]
  BY <1>1 DEF G!DefuseForgedRoles
<1> HIDE DEF d, last
<1>4. ASSUME NEW i \in 1 .. last
      PROVE  /\ d[i] \in W /\ d[i].word # "hidden" /\ ~ d[i].split
             /\ d[i].brackets = s[i].brackets
             /\ d[i].word = IF G!ForgedRole(s, i) THEN "(defanged)" ELSE s[i].word
  <2>1. s[i] \in Shown(Word)
    BY <1>1
  <2>. QED
    BY <1>3, <2>1 DEF Shown, Written
<1>5. d \in Seq(W) /\ Len(d) = last /\ DOMAIN d = 1 .. last
  <2> HIDE DEF W
  <2>1. d \in [1 .. last -> W]
    BY <1>3, <1>4
  <2>. QED
    BY <1>1, <2>1
<1>6. z = [i \in 1 .. last |->
             IF G!Commands(d, i) THEN [d[i] EXCEPT !.brackets = @ + 1] ELSE d[i]]
  BY <1>2, <1>5 DEF G!NeutralizeInjections
<1>7. ASSUME NEW i \in 1 .. last
      PROVE  /\ z[i] \in W /\ z[i].word = d[i].word /\ z[i].split = d[i].split
             /\ z[i].brackets \in Nat
             /\ z[i].brackets = 0 => d[i].brackets = 0
             /\ G!Commands(d, i) => z[i].brackets > 0
  <2>1. d[i] \in W
    BY <1>4
  <2>2. z[i] = IF G!Commands(d, i) THEN [d[i] EXCEPT !.brackets = @ + 1] ELSE d[i]
    BY <1>6
  <2>. QED
    BY <2>1, <2>2 DEF Written
<1>8. z \in Seq(W) /\ Len(z) = last /\ DOMAIN z = 1 .. last
  <2>1. \A i \in 1 .. last : z[i] \in W
    BY <1>7
  <2> HIDE DEF W
  <2>2. z \in [1 .. last -> W]
    BY <1>6, <2>1
  <2>. QED
    BY <1>1, <2>2
<1> HIDE DEF W
<1>9. ASSUME NEW i \in 1 .. last PROVE ~ G!ForgedRole(z, i)
  <2> SUFFICES ASSUME G!ForgedRole(z, i) PROVE FALSE
    OBVIOUS
  <2>1. /\ z[i].word = "role:" /\ z[i].brackets = 0
        /\ i = 1 \/ z[i - 1].word = "nl"
    BY DEF G!ForgedRole, G!Is
  <2>2. s[i].word = "role:" /\ ~ G!ForgedRole(s, i) /\ s[i].brackets = 0
    BY <1>4, <1>7, <2>1
  <2>3. ~ s[i].split
    BY <1>1 DEF Shown
  <2>4. i = 1 \/ s[i - 1].word = "nl"
    <3>1. ASSUME i # 1 PROVE s[i - 1].word = "nl"
      <4>1. i - 1 \in 1 .. last /\ z[i - 1].word = "nl"
        BY <1>1, <2>1, <3>1
      <4>. QED
        BY <1>4, <1>7, <4>1
    <3>. QED
      BY <3>1
  <2>. QED
    BY <2>2, <2>3, <2>4 DEF G!ForgedRole, G!Is
<1>10. ASSUME NEW i \in 1 .. last, G!Commands(z, i) PROVE z[i].brackets > 0
  <2>1. \A j \in 1 .. last : \A w : G!Is(z[j], w) => G!Is(d[j], w)
    BY <1>7 DEF G!Is
  <2>2. G!Commands(d, i)
    BY <1>1, <1>5, <1>8, <1>10, <2>1, CommandsIs
  <2>. QED
    BY <1>7, <2>2
<1>11. Len(z) = Len(s)
  BY <1>8 DEF last
<1>. QED
  BY <1>4, <1>7, <1>8, <1>9, <1>10, <1>11 DEF Sanitized, W, s

\* What a sequence is with another one behind it.
Joins(u, S, s, t) == /\ u \in Seq(S) /\ Len(u) = Len(s) + Len(t)
                     /\ \A i \in 1 .. Len(s) : u[i] = s[i]
                     /\ \A i \in 1 .. Len(t) : u[Len(s) + i] = t[i]

\* Concatenation is one list after the other.
LEMMA ConcatIs ==
  ASSUME NEW S, NEW s, NEW t, s \in Seq(S), t \in Seq(S)
  PROVE  Joins(s \o t, S, s, t)
BY DEF Joins

\* A text between its fences.
LEMMA FenceIs ==
  ASSUME NEW W, NEW z \in Seq(W), NEW n, n = Len(z),
         NEW out, out = <<"BEGIN", "nl">> \o z \o <<"nl", "END">>
  PROVE  /\ n \in Nat /\ Len(out) = n + 4 /\ DOMAIN out = 1 .. n + 4
         /\ out[1] = "BEGIN" /\ out[2] = "nl" /\ out[n + 3] = "nl" /\ out[n + 4] = "END"
         /\ \A i \in 1 .. n : out[i + 2] = z[i]
         /\ SubSeq(out, 3, Len(out) - 2) = z
<1> DEFINE S == W \union {"BEGIN", "nl", "END"}
           a == <<"BEGIN", "nl">>
           b == <<"nl", "END">>
           az == a \o z
<1>1. n \in Nat /\ z \in Seq(S)
  OBVIOUS
<1>2. a \in Seq(S) /\ Len(a) = 2 /\ a[1] = "BEGIN" /\ a[2] = "nl"
  OBVIOUS
<1>3. b \in Seq(S) /\ Len(b) = 2 /\ b[1] = "nl" /\ b[2] = "END"
  OBVIOUS
<1>4. out = az \o b
  OBVIOUS
<1> HIDE DEF S, a, b
<1>5. /\ az \in Seq(S) /\ Len(az) = Len(a) + Len(z)
      /\ \A i \in 1 .. Len(a) : az[i] = a[i]
      /\ \A i \in 1 .. Len(z) : az[Len(a) + i] = z[i]
  <2> HIDE DEF az
  <2>1. a \in Seq(S) /\ z \in Seq(S)
    BY <1>1, <1>2
  <2>2. Joins(a \o z, S, a, z)
    BY <2>1, ConcatIs
  <2>3. Joins(az, S, a, z)
    BY <2>2 DEF az
  <2>. QED
    BY <2>3 DEF Joins
<1> HIDE DEF az
<1>6. /\ out \in Seq(S) /\ Len(out) = Len(az) + Len(b)
      /\ \A i \in 1 .. Len(az) : out[i] = az[i]
      /\ \A i \in 1 .. Len(b) : out[Len(az) + i] = b[i]
  <2>1. az \in Seq(S) /\ b \in Seq(S)
    BY <1>3, <1>5
  <2>2. Joins(az \o b, S, az, b)
    BY <2>1, ConcatIs
  <2>3. Joins(out, S, az, b)
    BY <1>4, <2>2
  <2>. QED
    BY <2>3 DEF Joins
<1>7. Len(az) = n + 2 /\ Len(out) = n + 4 /\ DOMAIN out = 1 .. n + 4
  BY <1>1, <1>2, <1>3, <1>5, <1>6
<1>8. out[1] = "BEGIN" /\ out[2] = "nl"
  <2>1. 1 \in 1 .. 2 /\ 2 \in 1 .. 2 /\ 1 \in 1 .. n + 2 /\ 2 \in 1 .. n + 2
    BY <1>1
  <2>. QED
    BY <1>2, <1>5, <1>6, <1>7, <2>1
<1>9. out[n + 3] = "nl" /\ out[n + 4] = "END"
  <2>1. 1 \in 1 .. 2 /\ 2 \in 1 .. 2 /\ (n + 2) + 1 = n + 3 /\ (n + 2) + 2 = n + 4
    BY <1>1
  <2>2. out[(n + 2) + 1] = b[1] /\ out[(n + 2) + 2] = b[2]
    BY <1>3, <1>6, <1>7, <2>1
  <2>. QED
    BY <1>3, <2>1, <2>2
<1>10. ASSUME NEW i \in 1 .. n PROVE out[i + 2] = z[i]
  <2>1. i + 2 \in 1 .. n + 2 /\ 2 + i = i + 2
    BY <1>1
  <2>2. az[2 + i] = z[i]
    BY <1>2, <1>5
  <2>. QED
    BY <1>6, <1>7, <2>1, <2>2
<1>11. SubSeq(out, 3, Len(out) - 2) = z
  <2> DEFINE body == SubSeq(out, 3, n + 2)
  <2>1. Len(out) - 2 = n + 2
    BY <1>1, <1>7
  <2>2. body \in Seq(S) /\ Len(body) = n /\ \A i \in 1 .. n : body[i] = out[i + 2]
    <3>1. \A i \in 3 .. n + 2 : out[i] \in S
      BY <1>6, <1>7
    <3>2. body = [i \in 1 .. n |-> out[i + 2]]
      <4>1. body = [i \in 1 .. (n + 2) - 3 + 1 |-> out[i + 3 - 1]]
        BY <1>1
      <4>2. (n + 2) - 3 + 1 = n
        BY <1>1
      <4>3. \A i \in 1 .. n : i + 3 - 1 = i + 2
        OBVIOUS
      <4>. QED
        BY <4>1, <4>2, <4>3
    <3>3. \A i \in 1 .. n : i + 2 \in 3 .. n + 2
      BY <1>1
    <3> HIDE DEF body
    <3>4. body \in [1 .. n -> S]
      BY <3>1, <3>2, <3>3
    <3>. QED
      BY <1>1, <3>2, <3>4
  <2> HIDE DEF body
  <2>3. body = z
    BY <1>1, <1>10, <2>2, SameSeq
  <2>. QED
    BY <2>1, <2>3 DEF body
<1>. QED
  BY <1>1, <1>7, <1>8, <1>9, <1>10, <1>11

\* Inert holds of every text.
LEMMA InertIs ==
  ASSUME NEW Word, NEW text \in Seq(Written(Word))
  PROVE  G!Inert(text)
<1> DEFINE s == G!StripHidden(text)
           z == G!Sanitize(text)
           n == Len(z)
           out == G!Fenced(text)
           again == G!Sanitize(z)
           More == Word \union {"(defanged)"}
           W == Written(More)
<1>1. Sanitized(W, s, z)
  BY SanitizeIs
<1>2. KeepsShown(Word, text, Len(text), s)
  BY StripIs
<1> HIDE DEF z, s, More, W
<1>3. out = <<G!Plain("BEGIN"), G!Plain("nl")>> \o z \o <<G!Plain("nl"), G!Plain("END")>>
  BY DEF G!Fenced, z
<1> HIDE DEF out
<1>4. z \in Seq(W) /\ DOMAIN z = 1 .. n /\ n = Len(s)
  BY <1>1 DEF Sanitized
<1>5. /\ n \in Nat /\ Len(out) = n + 4 /\ DOMAIN out = 1 .. n + 4
      /\ out[1] = G!Plain("BEGIN") /\ out[2] = G!Plain("nl")
      /\ out[n + 3] = G!Plain("nl") /\ out[n + 4] = G!Plain("END")
      /\ \A i \in 1 .. n : out[i + 2] = z[i]
      /\ SubSeq(out, 3, Len(out) - 2) = z
  BY <1>3, <1>4, FenceIs
<1> HIDE DEF n
<1>6. ASSUME NEW i \in 1 .. n + 4
      PROVE  \/ out[i] \in {G!Plain("BEGIN"), G!Plain("nl"), G!Plain("END")}
             \/ i - 2 \in 1 .. n /\ out[i] = z[i - 2]
  <2>1. CASE i - 2 \in 1 .. n
    <3>1. (i - 2) + 2 = i
      BY <1>5
    <3>. QED
      BY <1>5, <2>1, <3>1
  <2>2. CASE i - 2 \notin 1 .. n
    <3>1. i \in {1, 2, n + 3, n + 4}
      BY <1>5, <2>2
    <3>. QED
      BY <1>5, <3>1
  <2>. QED
    BY <2>1, <2>2
<1>7. ASSUME NEW i \in 1 .. n + 4, G!ForgedRole(out, i) PROVE FALSE
  <2>1. out[i].word = "role:" /\ ~ out[i].split /\ out[i].brackets = 0
    BY <1>7 DEF G!ForgedRole, G!Is
  <2>2. PICK m \in 1 .. n : m = i - 2 /\ m + 2 = i /\ out[i] = z[m]
    BY <1>5, <1>6, <2>1 DEF G!Plain
  <2>3. m = 1 \/ z[m - 1].word = "nl"
    <3>1. ASSUME m # 1 PROVE z[m - 1].word = "nl"
      <4>1. m - 1 \in 1 .. n /\ (m - 1) + 2 = i - 1 /\ i # 1
        BY <1>5, <2>2, <3>1
      <4>2. out[i - 1].word = "nl"
        BY <1>7, <4>1 DEF G!ForgedRole
      <4>3. out[(m - 1) + 2] = z[m - 1]
        BY <1>5, <4>1
      <4>. QED
        BY <4>1, <4>2, <4>3
    <3>. QED
      BY <3>1
  <2>4. G!ForgedRole(z, m)
    BY <2>1, <2>2, <2>3 DEF G!ForgedRole, G!Is
  <2>. QED
    BY <1>1, <1>4, <2>4 DEF Sanitized
<1>8. ASSUME NEW i \in 1 .. n + 4, G!Commands(out, i) PROVE out[i].brackets > 0
  <2> DEFINE mo == G!Min({Len(out), i + G!Ahead})
  <2>1. out[i].word = "ignore" /\ ~ out[i].split
    BY <1>8 DEF G!Commands, G!Is
  <2>2. PICK j \in i + 1 .. mo : out[j].word = "instructions" /\ ~ out[j].split
    BY <1>8 DEF G!Commands, G!Is
  <2>3. j \in Nat /\ j >= i + 1 /\ j <= Len(out) /\ j <= i + 2
    <3>1. Len(out) \in Nat /\ i + 2 \in Nat /\ i \in Nat
      BY <1>5
    <3>2. mo = G!Min({Len(out), i + 2})
      BY DEF G!Ahead
    <3> HIDE DEF mo
    <3>3. j \in Nat /\ j >= i + 1 /\ j <= mo
      BY <3>1
    <3>. QED
      BY <3>1, <3>2, <3>3, MinOfTwo
  <2>4. PICK m \in 1 .. n : m = i - 2 /\ out[i] = z[m]
    BY <1>6, <2>1 DEF G!Plain
  <2>5. j \in 1 .. n + 4
    BY <1>5, <2>3
  <2>6. PICK k \in 1 .. n : k = j - 2 /\ out[j] = z[k]
    BY <1>6, <2>2, <2>5 DEF G!Plain
  <2>7. k \in m + 1 .. G!Min({Len(z), m + G!Ahead})
    <3>1. k \in Nat /\ m \in Nat /\ k >= m + 1 /\ k <= n /\ k <= m + 2
      BY <1>5, <2>3, <2>4, <2>6
    <3> DEFINE b == m + 2
    <3>2. k <= G!Min({n, m + 2})
      <4>1. b \in Nat /\ k <= b
        BY <3>1
      <4> HIDE DEF b
      <4>2. k <= G!Min({n, b})
        BY <1>5, <3>1, <4>1, MinOfTwo
      <4>. QED
        BY <4>2 DEF b
    <3>3. G!Min({n, m + 2}) \in Nat
      <4>1. \E x \in {n, m + 2} : \A y \in {n, m + 2} : x <= y
        <5>1. n <= m + 2 \/ m + 2 <= n
          BY <1>5, <3>1
        <5>2. n <= n /\ m + 2 <= m + 2
          BY <1>5, <3>1
        <5>. QED
          BY <5>1, <5>2
      <4>2. G!Min({n, m + 2}) \in {n, m + 2}
        BY <4>1 DEF G!Min
      <4>. QED
        BY <1>5, <3>1, <4>2
    <3>4. G!Min({Len(z), m + G!Ahead}) = G!Min({n, m + 2})
      BY DEF n, G!Ahead
    <3> DEFINE top == G!Min({n, m + 2})
    <3>5. k <= top /\ top \in Nat
      BY <3>2, <3>3
    <3> HIDE DEF top
    <3>6. k \in m + 1 .. top
      BY <3>1, <3>5
    <3>. QED
      BY <3>4, <3>6 DEF top
  <2>8. G!Commands(z, m)
    BY <2>1, <2>2, <2>4, <2>6, <2>7 DEF G!Commands, G!Is
  <2>. QED
    BY <1>1, <1>4, <2>4, <2>8 DEF Sanitized
<1>9. ASSUME NEW i \in 1 .. n + 4 PROVE out[i].word # "hidden" /\ ~ out[i].split
  <2>1. CASE out[i] \in {G!Plain("BEGIN"), G!Plain("nl"), G!Plain("END")}
    BY <2>1 DEF G!Plain
  <2>2. CASE i - 2 \in 1 .. n /\ out[i] = z[i - 2]
    BY <1>1, <1>4, <2>2 DEF Sanitized
  <2>. QED
    BY <1>6, <2>1, <2>2
<1>10. /\ n = Cardinality(G!ShownUpTo(text, Len(text)))
       /\ \A i \in G!ShownUpTo(text, Len(text)) :
            LET is == z[Cardinality(G!ShownUpTo(text, i))].word
            IN is = text[i].word \/ <<text[i].word, is>> = <<"role:", "(defanged)">>
  <2>1. ASSUME NEW i \in G!ShownUpTo(text, Len(text)),
               NEW k, k = Cardinality(G!ShownUpTo(text, i))
        PROVE  z[k].word = text[i].word \/ <<text[i].word, z[k].word>> = <<"role:", "(defanged)">>
    <3>1. k \in 1 .. n /\ s[k] = [text[i] EXCEPT !.split = FALSE]
      BY <1>2, <1>4, <2>1 DEF KeepsShown
    <3>2. s[k].word = text[i].word
      <4>1. i \in DOMAIN text /\ text[i] \in Written(Word)
        <5> DEFINE V == Written(Word)
        <5>1. text \in Seq(V) /\ i \in 1 .. Len(text)
          BY DEF G!ShownUpTo
        <5> HIDE DEF V
        <5>. QED
          BY <5>1 DEF V
      <4>. QED
        BY <3>1, <4>1 DEF Written
    <3>3. z[k].word = IF G!ForgedRole(s, k) THEN "(defanged)" ELSE s[k].word
      BY <1>1, <1>4, <3>1 DEF Sanitized
    <3>. QED
      BY <3>2, <3>3 DEF G!ForgedRole, G!Is
  <2>. QED
    BY <1>2, <1>4, <2>1 DEF KeepsShown
<1>11. Len(again) = n /\ \A i \in 1 .. n : again[i].word = z[i].word
  <2>1. G!StripHidden(z) = z
    <3>1. \A i \in DOMAIN z : z[i].word # "hidden" /\ ~ z[i].split
      BY <1>1 DEF Sanitized
    <3>2. z \in Seq(Written(More))
      BY <1>4 DEF W
    <3>. QED
      BY <3>1, <3>2, StripIs
  <2>2. Sanitized(Written(More \union {"(defanged)"}), z, again)
    <3>1. z \in Seq(Written(More))
      BY <1>4 DEF W
    <3>. QED
      BY <2>1, <3>1, SanitizeIs
  <2> HIDE DEF again
  <2>3. Len(again) = n /\ DOMAIN again = 1 .. n
    BY <2>2 DEF Sanitized, n
  <2>4. ASSUME NEW i \in 1 .. n PROVE again[i].word = z[i].word
    <3>1. ~ G!ForgedRole(z, i)
      BY <1>1, <1>4 DEF Sanitized
    <3>. QED
      BY <2>2, <2>3, <3>1 DEF Sanitized
  <2>. QED
    BY <2>3, <2>4
<1>12. \A i \in DOMAIN out : /\ out[i].word # "hidden" /\ ~ out[i].split
                             /\ ~ G!ForgedRole(out, i)
                             /\ G!Commands(out, i) => out[i].brackets > 0
  BY <1>5, <1>7, <1>8, <1>9
<1> DEFINE body == SubSeq(out, 3, Len(out) - 2)
<1>13. body = z /\ Len(z) = n
  BY <1>5 DEF n
<1>14. /\ Len(body) = Cardinality(G!ShownUpTo(text, Len(text)))
       /\ \A i \in G!ShownUpTo(text, Len(text)) :
            LET is == body[Cardinality(G!ShownUpTo(text, i))].word
            IN is = text[i].word \/ <<text[i].word, is>> = <<"role:", "(defanged)">>
  BY <1>10, <1>13
<1>15. /\ Len(G!Sanitize(body)) = Len(body)
       /\ \A i \in DOMAIN body : G!Sanitize(body)[i].word = body[i].word
  BY <1>4, <1>11, <1>13
<1>. QED
  BY <1>12, <1>14, <1>15 DEF G!Inert, out, Cardinality, G!Cardinality

\* What a letter makes of the texts cut so far.
Cut(acc, l) == IF l = "/" THEN Append(acc, <<>>) ELSE [acc EXCEPT ![Len(acc)] = Append(@, l)]

\* There is always a last text to write on.
LEMMA CutIs ==
  ASSUME NEW Word, NEW acc \in Seq(Seq(Word)), Len(acc) >= 1, NEW l \in Word
  PROVE  Cut(acc, l) \in Seq(Seq(Word)) /\ Len(Cut(acc, l)) >= 1
<1> DEFINE S == Seq(Word)
           n == Len(acc)
<1>1. /\ n \in 1 .. n /\ n \in Nat /\ n >= 1 /\ DOMAIN acc = 1 .. n
      /\ \A i \in 1 .. n : acc[i] \in S
  OBVIOUS
<1>2. <<>> \in S /\ Append(acc[n], l) \in S
  <2>1. acc[n] \in S
    BY <1>1
  <2>. QED
    BY <2>1
<1> HIDE DEF S
<1>3. CASE l = "/"
  <2>1. acc \in Seq(S) /\ Cut(acc, l) = Append(acc, <<>>)
    BY <1>3 DEF Cut, S
  <2>2. Append(acc, <<>>) \in Seq(S) /\ Len(Append(acc, <<>>)) = n + 1
    BY <1>2, <2>1, AppendIs
  <2> HIDE DEF n
  <2>. QED
    BY <1>1, <2>1, <2>2 DEF S
<1>4. CASE l # "/"
  <2> DEFINE out == Cut(acc, l)
  <2>1. out = [acc EXCEPT ![n] = Append(acc[n], l)]
    BY <1>4 DEF Cut
  <2> HIDE DEF n, out
  <2>2. acc = [i \in 1 .. n |-> acc[i]]
    BY <1>1 DEF n
  <2>3. out \in [1 .. n -> S]
    BY <1>1, <1>2, <2>1, <2>2
  <2>4. out \in Seq(S) /\ Len(out) = n
    BY <1>1, <2>3
  <2>. QED
    BY <1>1, <2>4 DEF S, out
<1>. QED
  BY <1>3, <1>4

\* A request is a conversation of one message or more.
LEMMA RequestsAre ==
  ASSUME NEW Word, input \in Seq(Word)
  PROVE  Requests \in Conversation({"system", "user"}, Word) /\ Len(Requests) >= 1
<1> DEFINE Acc == {acc \in Seq(Seq(Word)) : Len(acc) >= 1}
           last == Len(input)
           step == [n \in 1 .. last |-> [acc \in Acc |-> Cut(acc, input[n])]]
           Is(f) == f = [s \in SUBSET (DOMAIN input) |->
                           IF s = {} THEN <<<<>>>> ELSE Cut(f[s \ {Max(s)}], input[Max(s)])]
           g == CHOOSE f : Is(f)
           texts == g[DOMAIN input]
<1>1. last \in Nat /\ DOMAIN input = 1 .. last /\ \A n \in 1 .. last : input[n] \in Word
  OBVIOUS
<1>2. Requests = [i \in DOMAIN texts |-> [role |-> IF i = 1 THEN "system" ELSE "user",
                                          content |-> texts[i]]]
  BY DEF Requests, FoldLeft, MapThenFoldSet, Cut, Max
<1> HIDE DEF last
<1>3. step \in [1 .. last -> [Acc -> Acc]]
  <2>1. ASSUME NEW n \in 1 .. last, NEW acc \in Acc PROVE Cut(acc, input[n]) \in Acc
    BY <1>1, CutIs
  <2>. QED
    BY <2>1
<1>4. <<<<>>>> \in Acc
  <2>1. <<>> \in Seq(Word)
    OBVIOUS
  <2> DEFINE S == Seq(Word)
  <2> HIDE DEF S
  <2>2. <<<<>>>> \in Seq(S) /\ Len(<<<<>>>>) = 1
    BY <2>1 DEF S
  <2>. QED
    BY <2>2 DEF S
<1> HIDE DEF Acc
<1>5. PICK f : IsFoldIn(Acc, f, step, last, <<<<>>>>)
  <2> HIDE DEF step
  <2>. QED
    BY <1>1, <1>3, <1>4, FoldExists
<1>6. Is(f)
  <2>1. f = [s \in SUBSET (1 .. last) |->
               IF s = {} THEN <<<<>>>> ELSE step[Max(s)][f[s \ {Max(s)}]]]
    BY <1>5 DEF IsFoldIn, IsFold
  <2>2. ASSUME NEW s \in SUBSET (1 .. last), s # {}
        PROVE  step[Max(s)][f[s \ {Max(s)}]] = Cut(f[s \ {Max(s)}], input[Max(s)])
    <3>1. f[s \ {Max(s)}] \in Acc /\ Max(s) \in 1 .. last
      BY <1>1, <1>5, <2>2, MaxIsIn DEF IsFoldIn
    <3>. QED
      BY <3>1
  <2> HIDE DEF step
  <2>. QED
    BY <1>1, <2>1, <2>2
<1>7. Is(g)
  <2> HIDE DEF Is
  <2>. QED
    BY <1>6, Zenon
<1> HIDE DEF g, step
<1> DEFINE run == [n \in 0 .. last |-> g[1 .. n]]
<1>8. ASSUME NEW n \in 1 .. last PROVE g[1 .. n] = Cut(g[1 .. (n - 1)], input[n])
  <2>1. /\ 1 .. n \in SUBSET (1 .. last) /\ 1 .. n # {}
        /\ Max(1 .. n) = n /\ (1 .. n) \ {n} = 1 .. (n - 1)
    BY <1>1, FirstNumbers
  <2>. QED
    BY <1>1, <1>7, <2>1
<1>9. g[1 .. 0] = <<<<>>>>
  <2>1. 1 .. 0 = {} /\ {} \in SUBSET (1 .. last)
    OBVIOUS
  <2>. QED
    BY <1>1, <1>7, <2>1
<1>10. texts \in Acc
  <2> DEFINE T == {n \in Nat : n <= last => g[1 .. n] \in Acc}
  <2>1. 0 \in T
    BY <1>4, <1>9
  <2>2. ASSUME NEW n \in T PROVE n + 1 \in T
    <3> SUFFICES ASSUME n + 1 <= last PROVE g[1 .. (n + 1)] \in Acc
      OBVIOUS
    <3>1. PICK k \in 1 .. last : k = n + 1 /\ k - 1 = n
      BY <1>1
    <3>2. g[1 .. (k - 1)] \in Acc
      BY <1>1, <3>1
    <3>3. Cut(g[1 .. (k - 1)], input[k]) \in Acc
      BY <1>1, <3>2, CutIs DEF Acc
    <3>. QED
      BY <1>8, <3>1, <3>3
  <2>3. last \in T
    BY <1>1, <2>1, <2>2, SetInduction
  <2>. QED
    BY <1>1, <2>3
<1> HIDE DEF texts
<1>11. /\ texts \in Seq(Seq(Word)) /\ Len(texts) \in Nat /\ Len(texts) >= 1
       /\ DOMAIN texts = 1 .. Len(texts)
       /\ \A i \in 1 .. Len(texts) : texts[i] \in Seq(Word)
  BY <1>10 DEF Acc
<1> DEFINE Message == [role : {"system", "user"}, content : Seq(Word)]
<1>12. Requests \in [1 .. Len(texts) -> Message]
  <2> DEFINE S == Seq(Word)
             size == Len(texts)
  <2>1. size \in Nat /\ DOMAIN texts = 1 .. size /\ \A i \in 1 .. size : texts[i] \in S
    BY <1>11
  <2> HIDE DEF S, size
  <2>. QED
    BY <1>2, <2>1 DEF S, size
<1> HIDE DEF Message
<1>13. Requests \in Seq(Message) /\ Len(Requests) = Len(texts)
  BY <1>11, <1>12
<1>. QED
  BY <1>11, <1>13 DEF Conversation, Message

\* Whatever the words are, a request, an answer and a tool output are clean.
THEOREM GuardsClean ==
  ASSUME NEW Role, NEW Word, All \union {"REDACTED"} \subseteq Word,
         NEW messages \in Conversation(Role, Word), Len(messages) >= 1
  PROVE  /\ \A max \in Nat : G!Forwards(max, messages)
         /\ G!Rejects(G!Patterns, "pii", messages)
         /\ G!Rejects(G!NerPatterns, "pii_ner", messages)
         /\ G!Screened(messages)
         /\ G!LogsClean(messages)
         /\ \A text \in Seq(Written(Word)) : G!Inert(text)
         /\ \A text : text # None => G!Returns(text)
<1>1. All \subseteq Word /\ "REDACTED" \in Word
  OBVIOUS
<1>2. \A max \in Nat : G!Forwards(max, messages)
  BY <1>1, ForwardsIs
<1>3. G!Rejects(G!Patterns, "pii", messages) /\ G!Rejects(G!NerPatterns, "pii_ner", messages)
  BY <1>1, RejectsIs
<1>4. G!Screened(messages)
  BY ScreenedIs
<1>5. G!LogsClean(messages)
  BY <1>1, LogsCleanIs
<1>6. \A text \in Seq(Written(Word)) : G!Inert(text)
  BY InertIs
<1>7. \A text : text # None => G!Returns(text)
  BY ReturnsIs
<1>. QED
  BY <1>2, <1>3, <1>4, <1>5, <1>6, <1>7

\* The subject stays, and an input is of its letters.
InputInv == subject \in DOMAIN Alphabet /\ input \in Seq(Alphabet[subject])

\* NextLetter adds one.
LEMMA InputIsTyped == SpecInput => []InputInv
<1>1. InitInput => InputInv
  BY DEF InitInput, InputInv
<1>2. InputInv /\ [NextLetter]_inputVars => InputInv'
  <2> SUFFICES ASSUME InputInv, [NextLetter]_inputVars PROVE InputInv'
    OBVIOUS
  <2>1. CASE NextLetter
    <3> DEFINE S == Alphabet[subject]
    <3>1. PICK letter \in S : input' = Append(input, letter)
      BY <2>1 DEF NextLetter
    <3>2. subject' = subject /\ input \in Seq(S)
      BY <2>1 DEF NextLetter, InputInv
    <3> HIDE DEF S
    <3>3. input' \in Seq(S)
      BY <3>1, <3>2
    <3>4. input' \in Seq(Alphabet[subject])
      BY <3>3 DEF S
    <3>. QED
      BY <3>2, <3>4 DEF InputInv
  <2>2. CASE UNCHANGED inputVars
    BY <2>2 DEF inputVars, InputInv
  <2>. QED
    BY <2>1, <2>2
<1>. QED
  BY <1>1, <1>2, PTL DEF SpecInput

\* What the guardrails let out is clean, for requests and outputs of any length.
THEOREM OutgoingCorrect == SpecInput => []OutgoingIsClean
<1>1. ASSUME InputInv PROVE OutgoingIsClean
  <2>1. ASSUME subject = "request"
        PROVE  /\ \A max \in 1 .. 3 : G!Forwards(max, Requests)
               /\ G!Rejects(G!Patterns, "pii", Requests)
               /\ G!Rejects(G!NerPatterns, "pii_ner", Requests)
               /\ G!Screened(Requests)
               /\ G!LogsClean(Requests)
               /\ G!Returns(input)
    <3> DEFINE Word == Alphabet.request \union All \union {"REDACTED"}
    <3>1. input \in Seq(Alphabet.request)
      BY <1>1, <2>1 DEF InputInv
    <3>2. input # None
      BY <3>1, ReasonAssumption, Zenon
    <3>3. input \in Seq(Word)
      <4> DEFINE R == Alphabet.request
      <4>1. R \subseteq Word
        OBVIOUS
      <4> HIDE DEF R, Word
      <4>2. input \in Seq(R)
        BY <3>1 DEF R
      <4>. QED
        BY <4>1, <4>2
    <3>4. All \union {"REDACTED"} \subseteq Word
      OBVIOUS
    <3> HIDE DEF Word
    <3>5. Requests \in Conversation({"system", "user"}, Word) /\ Len(Requests) >= 1
      BY <3>3, RequestsAre
    <3>6. \A max \in 1 .. 3 : max \in Nat
      OBVIOUS
    <3>. QED
      BY <3>2, <3>4, <3>5, <3>6, GuardsClean
  <2>2. ASSUME subject = "tool_output" PROVE G!Inert(ToolOutput)
    <3> DEFINE Letters == Alphabet[subject]
               Word == Letters \union {"role:", "ignore"}
               n == Len(input)
    <3>1. n \in Nat /\ DOMAIN input = 1 .. n /\ \A i \in 1 .. n : input[i] \in Letters
      <4>1. input \in Seq(Letters)
        BY <1>1 DEF InputInv
      <4> HIDE DEF Letters
      <4>. QED
        BY <4>1
    <3> HIDE DEF n, Letters
    <3>2. DOMAIN ToolOutput = 1 .. n /\ \A i \in 1 .. n : ToolOutput[i] \in Written(Word)
      BY <3>1 DEF ToolOutput, Written, G!Plain
    <3>3. ToolOutput = [i \in 1 .. n |-> ToolOutput[i]]
      BY <3>1 DEF ToolOutput
    <3> DEFINE W == Written(Word)
    <3> HIDE DEF W
    <3>4. ToolOutput \in [1 .. n -> W]
      BY <3>2, <3>3 DEF W
    <3>5. ToolOutput \in Seq(W)
      BY <3>1, <3>4
    <3>. QED
      BY <3>5, InertIs DEF W
  <2>. QED
    BY <2>1, <2>2 DEF OutgoingIsClean
<1>. QED
  BY <1>1, InputIsTyped, PTL

-----------------------------------------------------------------------------
(* The contract, for a post-chain that only rejects.                       *)

\* The post-guardrails of the deployed chain do not rewrite an answer.
OnlyRejects == \A a \in Answer : RunChain(PostChain, a) \in {a, Rejected}

\* What is about to be stored, and what is cached, passed the post-chain.
VInv ==
  /\ \A r \in Request : stage[r] = "store" => response[r] \in Vetted
  /\ \A e \in cache : e.answer \in Vetted

\* The initial states satisfy it.
LEMMA InitVInv == Init => VInv
BY DEF Init, VInv

\* A request comes to its store past the post-chain, or without one.
LEMMA GuardVets ==
  ASSUME OnlyRejects, IInv, NEW r \in Request, Guard(r) \/ Skip(r),
         stage'[r] = "store", stage[r] # "store"
  PROVE  response[r] \in Vetted
<1>1. stage \in [Request -> Stage] /\ response \in [Request -> Answer \union {None}]
  BY DEF IInv, TypeOK
<1>2. Progress(r)
  BY DEF IInv
<1>3. stage[r] = "guard"
  <2>1. ASSUME Skip(r) PROVE stage[r] = "guard"
    <3>1. stage[r] \in DOMAIN Needs /\ Goto(r, Follow[stage[r]])
      BY <2>1 DEF Skip
    <3>2. Follow[stage[r]] = "store"
      BY <1>1, <3>1 DEF Goto
    <3>. QED
      BY <3>1, <3>2, Stages, FollowOf
  <2>. QED
    BY <2>1 DEF Guard, At
<1>4. response[r] = result[r] /\ result[r] \in Answer
  BY <1>1, <1>2, <1>3 DEF Progress, Called
<1>5. "guards" \in wired => RunChain(PostChain, result[r]) = result[r]
  <2>1. ASSUME Guard(r) PROVE RunChain(PostChain, result[r]) # Rejected
    <3>1. CASE RunChain(PostChain, result[r]) = Rejected
      <4>1. stage'[r] = "done"
        BY <1>1, <2>1, <3>1 DEF Guard, Finish
      <4>. QED
        BY <4>1
    <3>. QED
      BY <3>1
  <2>2. ASSUME Skip(r) PROVE "guards" \notin wired
    BY <1>3, <2>2, NeedsOf DEF Skip
  <2>. QED
    BY <1>4, <2>1, <2>2 DEF OnlyRejects
<1>. QED
  BY <1>4, <1>5 DEF Vetted

\* No other step of a request brings it to its store.
LEMMA OnlyGuardStores ==
  ASSUME IInv, NEW r \in Request, Receive(r) \/ Step(r) \/ Lose(r),
         stage'[r] = "store", stage[r] # "store"
  PROVE  Guard(r) \/ Skip(r)
<1>1. stage \in [Request -> Stage]
  BY DEF IInv, TypeOK
<1>2. ASSUME NEW code, Finish(r, code) PROVE FALSE
  BY <1>1, <1>2 DEF Finish
<1>3. ASSUME NEW next, Goto(r, next), next # "store" PROVE FALSE
  BY <1>1, <1>3 DEF Goto
<1>4. ~Open(r) /\ ~Pull(r) /\ ~EndStream(r)
  <2>1. ~Open(r)
    BY <1>1 DEF Open
  <2>2. ~Pull(r)
    BY DEF Pull
  <2>. QED
    BY <1>3, <2>1, <2>2 DEF EndStream
<1>5. ~Receive(r) /\ ~Lose(r)
  BY <1>2, <1>3 DEF Receive, Lose
<1>6. ~Limit(r) /\ ~Budget(r) /\ ~Prepare(r) /\ ~RejectPre(r) /\ ~BadPrompt(r)
  BY <1>2, <1>3 DEF Limit, Budget, Prepare, RejectPre, BadPrompt, Break, AfterPrepare
<1>7. ~Hit(r) /\ ~Miss(r) /\ ~LookupFails(r) /\ ~UnknownModel(r) /\ ~Call(r) /\ ~CallFails(r)
  BY <1>2, <1>3 DEF Hit, Miss, LookupFails, UnknownModel, Call, CallFails, Break
<1>8. ~Insert(r) /\ ~Publish(r) /\ ~Charge(r) /\ ~Store(r) /\ ~StoreFails(r)
  BY <1>2, <1>3 DEF Insert, Publish, Charge, Store, StoreFails, Break
<1>. QED
  BY <1>4, <1>5, <1>6, <1>7, <1>8 DEF Step

\* A step changes the response of a request on its way to the store only by
\* bringing it there, touches one request only, and caches what is stored.
LEMMA StepFrame ==
  ASSUME IInv, NEW r \in Request, Receive(r) \/ Step(r) \/ Lose(r)
  PROVE  /\ UNCHANGED <<wired, req>>
         /\ \A q \in Request \ {r} : stage'[q] = stage[q] /\ response'[q] = response[q]
         /\ stage'[r] = "store" => response'[r] = response[r]
         /\ \/ cache' \subseteq cache
            \/ /\ stage[r] = "store"
               /\ cache' \subseteq cache \union
                    {[key |-> BuildKey(r), answer |-> response[r]]}
<1>1. /\ stage \in [Request -> Stage] /\ response \in [Request -> Answer \union {None}]
  BY DEF IInv, TypeOK
<1> DEFINE P == /\ UNCHANGED <<wired, req>>
                /\ \A q \in Request \ {r} : stage'[q] = stage[q] /\ response'[q] = response[q]
                /\ stage'[r] = "store" => response'[r] = response[r]
                /\ \/ cache' \subseteq cache
                   \/ /\ stage[r] = "store"
                      /\ cache' \subseteq cache \union
                           {[key |-> BuildKey(r), answer |-> response[r]]}
<1>2. ASSUME NEW next, Goto(r, next), UNCHANGED <<wired, req, response, cache>> PROVE P
  BY <1>1, <1>2 DEF Goto
<1>3. ASSUME NEW code, Finish(r, code), UNCHANGED <<wired, req, response, cache>> PROVE P
  BY <1>1, <1>3 DEF Finish
<1>4. ASSUME Hit(r) PROVE P
  <2>1. PICK e \in cache : response' = [response EXCEPT ![r] = e.answer]
    BY <1>4 DEF Hit
  <2>2. Finish(r, 200) /\ UNCHANGED <<wired, req, cache>>
    BY <1>4 DEF Hit, shared
  <2>. QED
    BY <1>1, <2>1, <2>2 DEF Finish
<1>5. ASSUME Call(r) PROVE P
  <2>1. PICK a \in Answer : response' = [response EXCEPT ![r] = a]
    BY <1>5 DEF Call
  <2>2. Goto(r, "insert") /\ UNCHANGED <<wired, req, cache>>
    BY <1>5 DEF Call, shared
  <2>. QED
    BY <1>1, <2>1, <2>2 DEF Goto
<1>6. ASSUME Store(r) PROVE P
  <2>1. /\ Finish(r, 200) /\ stage[r] = "store" /\ UNCHANGED <<wired, req, response>>
        /\ cache' \subseteq cache \union {[key |-> BuildKey(r), answer |-> response[r]]}
    BY <1>6 DEF Store, At
  <2>. QED
    BY <1>1, <2>1 DEF Finish
<1>7. ASSUME Open(r) \/ Pull(r) PROVE P
  BY <1>1, <1>7 DEF Open, Pull, shared
<1>8. ASSUME Receive(r) \/ Lose(r) \/ EndStream(r) \/ Skip(r) PROVE P
  BY <1>2, <1>3, <1>8 DEF Receive, Lose, EndStream, Skip, shared
<1>9. ASSUME Limit(r) \/ Budget(r) \/ Prepare(r) \/ RejectPre(r) \/ BadPrompt(r) PROVE P
  BY <1>2, <1>3, <1>9 DEF Limit, Budget, Prepare, RejectPre, BadPrompt, Break, shared
<1>10. ASSUME Miss(r) \/ LookupFails(r) \/ UnknownModel(r) \/ CallFails(r) PROVE P
  BY <1>2, <1>3, <1>10 DEF Miss, LookupFails, UnknownModel, CallFails, Break, shared
<1>11. ASSUME Insert(r) \/ Publish(r) \/ Charge(r) \/ Guard(r) \/ StoreFails(r) PROVE P
  BY <1>2, <1>3, <1>11 DEF Insert, Publish, Charge, Guard, StoreFails, Break, shared
<1>. QED
  BY <1>4, <1>5, <1>6, <1>7, <1>8, <1>9, <1>10, <1>11 DEF Step

\* A step keeps what passed the post-chain apart.
LEMMA StepVInv == OnlyRejects /\ IInv /\ VInv /\ [Next]_vars => VInv'
<1>. SUFFICES ASSUME OnlyRejects, IInv, VInv, [Next]_vars PROVE VInv'
  OBVIOUS
<1>1. ASSUME NEW r \in Request, Receive(r) \/ Step(r) \/ Lose(r) PROVE VInv'
  <2>1. /\ wired' = wired
        /\ \A q \in Request \ {r} : stage'[q] = stage[q] /\ response'[q] = response[q]
        /\ stage'[r] = "store" => response'[r] = response[r]
        /\ \/ cache' \subseteq cache
           \/ /\ stage[r] = "store"
              /\ cache' \subseteq cache \union
                   {[key |-> BuildKey(r), answer |-> response[r]]}
    BY <1>1, StepFrame
  <2>2. Vetted' = Vetted
    BY <2>1 DEF Vetted
  <2>3. ASSUME stage'[r] = "store" PROVE response[r] \in Vetted
    BY <1>1, <2>3, GuardVets, OnlyGuardStores DEF VInv
  <2>. QED
    BY <2>1, <2>2, <2>3 DEF VInv
<1>2. ASSUME (\E v \in Version : Promote(v)) \/ (\E e \in cache : Expire(e)) PROVE VInv'
  <2>1. UNCHANGED <<wired, stage, response>> /\ cache' \subseteq cache
    BY <1>2 DEF Promote, Expire
  <2>. QED
    BY <2>1 DEF VInv, Vetted
<1>3. CASE UNCHANGED vars
  BY <1>3 DEF vars, shared, VInv, Vetted
<1>. QED
  BY <1>1, <1>2, <1>3 DEF Next

\* What the contract sees of a service, variable by variable.
Seen == [r \in Request |-> StatusOf(r)]
Asked == [r \in Request |-> IF msgs[r] = None THEN None ELSE QuestionOf(r)]
Given == [r \in Request |-> IF Completed(r) THEN response[r] ELSE None]
Answered == {r \in Request : result[r] # None}

\* A request with the same messages has become the same question.
LEMMA SameAsked ==
  ASSUME UNCHANGED <<req, msgs, version>>
  PROVE  Asked' = Asked /\ \A r \in Request : QuestionOf(r)' = QuestionOf(r)
BY DEF Asked, QuestionOf

\* A step that sends no status, asks nothing, calls nobody and bills nothing
\* is none of the contract's.
LEMMA Stutters ==
  ASSUME UNCHANGED <<wired, req, status, msgs, version, known, charged>>,
         \A q \in Request : result'[q] = None <=> result[q] = None,
         \A q \in Request : Completed(q) => response'[q] = response[q]
  PROVE  UNCHANGED Contract!vars
<1>1. Seen' = Seen /\ Given' = Given /\ Answered' = Answered
  BY DEF Seen, StatusOf, Given, Completed, Answered
<1>2. Vetted' = Vetted
  BY DEF Vetted
<1>. QED
  BY <1>1, <1>2, SameAsked DEF Contract!vars, Seen, Asked, Given, Answered

\* One request's new status, as the contract sees it.
LEMMA SeenChanges ==
  ASSUME NEW r \in Request, NEW s, StatusOf(r)' = s,
         \A q \in Request \ {r} : StatusOf(q)' = StatusOf(q)
  PROVE  Seen' = [Seen EXCEPT ![r] = s]
BY DEF Seen

\* A status that refuses a pending request.
LEMMA Refuses ==
  ASSUME IInv, NEW r \in Request, NEW code \in {404, 422, 429, 500}, Finish(r, code),
         stage[r] \in Unasked \union Uncalled \union {"stream", "guard", "store"},
         UNCHANGED <<wired, req, msgs, version, result, response, known, charged>>
  PROVE  Contract!Next
<1>1. status \in [Request -> {0, 200, 404, 422, 429, 500}] /\ Progress(r)
  BY DEF IInv, TypeOK
<1>2. status[r] = 0
  BY <1>1 DEF Progress, Called, Streamed
<1>3. status' = [status EXCEPT ![r] = code]
  BY DEF Finish
<1>4. Seen[r] = "pending"
  BY <1>2 DEF Seen, StatusOf
<1>5. Seen' = [Seen EXCEPT ![r] = "refused"]
  <2>1. StatusOf(r)' = "refused"
    BY <1>1, <1>3 DEF StatusOf
  <2>2. \A q \in Request \ {r} : StatusOf(q)' = StatusOf(q)
    BY <1>1, <1>3 DEF StatusOf
  <2>. QED
    BY <2>1, <2>2, SeenChanges
<1>6. Given' = Given
  BY <1>1, <1>2, <1>3 DEF Given, Completed
<1>7. Answered' = Answered /\ Vetted' = Vetted
  BY DEF Answered, Vetted
<1>8. Contract!Refuse(r)
  BY <1>4, <1>5, <1>6, <1>7, SameAsked
     DEF Contract!Refuse, Seen, Asked, Given, Answered
<1>. QED
  BY <1>8 DEF Contract!Next

\* A 200 with a known and vetted answer: to the request's own question if it
\* made a call, to one that fits it if not.
LEMMA AnswersReply ==
  ASSUME IInv, NEW r \in Request, NEW a \in Answer, Finish(r, 200),
         stage[r] \in {"lookup", "store"},
         response' = [response EXCEPT ![r] = a],
         NEW k \in known, k.answer = a,
         IF r \in Answered THEN k.question = QuestionOf(r)
                           ELSE Contract!Fits(k.question, QuestionOf(r)),
         a \in Vetted,
         UNCHANGED <<wired, req, msgs, version, result, known, charged>>
  PROVE  Contract!Next
<1>1. /\ status \in [Request -> {0, 200, 404, 422, 429, 500}]
      /\ response \in [Request -> Answer \union {None}]
      /\ Progress(r)
  BY DEF IInv, TypeOK
<1>2. status[r] = 0 /\ ~req[r].stream /\ msgs[r] # None
  BY <1>1 DEF Progress, Called, Streamed, Uncalled
<1>3. status' = [status EXCEPT ![r] = 200]
  BY DEF Finish
<1>4. Seen[r] = "pending" /\ Asked[r] = QuestionOf(r) /\ Asked[r] # None
  <2>1. msgs[r] \in Messages
    BY <1>2 DEF IInv, TypeOK
  <2>2. QuestionOf(r) \in Question
    BY <2>1 DEF IInv, TypeOK, QuestionOf, Question
  <2>. QED
    BY <1>2, <2>2, NoneAssumption DEF Seen, StatusOf, Asked
<1>5. Seen' = [Seen EXCEPT ![r] = "answered"]
  <2>1. StatusOf(r)' = "answered"
    BY <1>1, <1>2, <1>3 DEF StatusOf
  <2>2. \A q \in Request \ {r} : StatusOf(q)' = StatusOf(q)
    BY <1>1, <1>2, <1>3 DEF StatusOf
  <2>. QED
    BY <2>1, <2>2, SeenChanges
<1>6. Given' = [Given EXCEPT ![r] = a]
  <2>1. Completed(r)' /\ response'[r] = a
    BY <1>1, <1>2, <1>3 DEF Completed
  <2>2. \A q \in Request \ {r} : Completed(q)' = Completed(q) /\ response'[q] = response[q]
    BY <1>1, <1>3 DEF Completed
  <2>. QED
    BY <2>1, <2>2 DEF Given
<1>7. Answered' = Answered /\ Vetted' = Vetted
  BY DEF Answered, Vetted
<1>8. Contract!Reply(r)
  <2>1. IF r \in Answered THEN k.question = Asked[r]
                          ELSE Contract!Fits(k.question, Asked[r])
    BY <1>4
  <2>2. /\ Seen[r] = "pending"
        /\ Asked[r] # None
        /\ \E e \in known :
             /\ IF r \in Answered THEN e.question = Asked[r]
                                 ELSE Contract!Fits(e.question, Asked[r])
             /\ e.answer \in Vetted
             /\ Given' = [Given EXCEPT ![r] = e.answer]
        /\ Seen' = [Seen EXCEPT ![r] = "answered"]
        /\ Asked' = Asked /\ known' = known /\ Answered' = Answered
        /\ charged' = charged /\ Vetted' = Vetted
    BY <1>4, <1>5, <1>6, <1>7, <2>1, SameAsked
  <2>. QED
    BY <2>2 DEF Contract!Reply, Seen, Asked, Given, Answered
<1>. QED
  BY <1>8 DEF Contract!Next

\* Preparation asks.
LEMMA PrepareAsks == ASSUME IInv, NEW r \in Request, Prepare(r) PROVE Contract!Next
<1> DEFINE v == IF "prompts" \in wired /\ req[r].ref # None THEN Resolved(req[r].ref)
                ELSE Unversioned
           guarded == IF "guards" \in wired THEN RunChain(PreChain, req[r].text)
                      ELSE req[r].text
           m == [text |-> guarded, prompt |-> v]
           question == [key |-> req[r].key, model |-> req[r].model, msgs |-> m,
                        params |-> req[r].params]
<1>1. /\ stage[r] = "prepare"
      /\ guarded # Rejected
      /\ msgs' = [msgs EXCEPT ![r] = m]
      /\ version' = [version EXCEPT ![r] = v]
      /\ UNCHANGED <<wired, req, result, response, status, known, charged>>
  BY DEF Prepare, Goto, ledger, history
<1>2. /\ req[r] \in Arrival /\ production \in Version /\ Progress(r)
      /\ msgs \in [Request -> Messages \union {None}]
      /\ version \in [Request -> Version \union {Unversioned}]
  BY DEF IInv, TypeOK
<1>3. req[r].text \in Text /\ req[r].ref \in Version \union {Production, None}
  BY <1>2, ChatAssumption
<1>4. v \in Version \union {Unversioned}
  BY <1>2, <1>3 DEF Resolved
<1>5. guarded \in Text
  BY <1>1, <1>3, ChainLeavesText
<1>6. m \in Messages
  BY <1>4, <1>5 DEF Messages
<1>7. question \in Question
  BY <1>2, <1>4, <1>6 DEF Question
<1> HIDE DEF v, guarded, m
<1>8. Seen[r] = "pending" /\ Asked[r] = None
  BY <1>1, <1>2 DEF Progress, Unasked, Uncalled, Called, Streamed, Seen, StatusOf, Asked
<1>9. Asked' = [Asked EXCEPT ![r] = question]
  <2>1. msgs'[r] = m /\ version'[r] = v /\ m # None
    BY <1>1, <1>2, <1>6, NoneAssumption
  <2>2. \A q \in Request \ {r} : msgs'[q] = msgs[q] /\ version'[q] = version[q]
    BY <1>1, <1>2
  <2>. QED
    BY <1>1, <2>1, <2>2 DEF Asked, QuestionOf
<1>10. Seen' = Seen /\ Given' = Given /\ Answered' = Answered /\ Vetted' = Vetted
  BY <1>1 DEF Seen, StatusOf, Given, Completed, Answered, Vetted
<1>11. Contract!Ask(r)
  <2> HIDE DEF question
  <2>. QED
    BY <1>1, <1>7, <1>8, <1>9, <1>10 DEF Contract!Ask, Seen, Asked, Given, Answered
<1>. QED
  BY <1>11 DEF Contract!Next

\* The provider's answer is the contract's call.
LEMMA CallCalls == ASSUME IInv, NEW r \in Request, Call(r) PROVE Contract!Next
<1>1. PICK a \in Answer :
        /\ result' = [result EXCEPT ![r] = a]
        /\ response' = [response EXCEPT ![r] = a]
        /\ known' = known \union {[question |-> QuestionOf(r), answer |-> a]}
  BY DEF Call
<1>2. /\ stage[r] = "call"
      /\ UNCHANGED <<wired, req, msgs, version, status, charged>>
  BY DEF Call, Goto, ledger
<1>3. /\ Progress(r)
      /\ result \in [Request -> Answer \union {None}]
      /\ response \in [Request -> Answer \union {None}]
  BY DEF IInv, TypeOK
<1>4. status[r] = 0 /\ msgs[r] # None /\ result[r] = None
  BY <1>2, <1>3 DEF Progress, Uncalled
<1>5. Seen[r] = "pending" /\ Asked[r] = QuestionOf(r) /\ r \notin Answered /\ Asked[r] # None
  <2>1. msgs[r] \in Messages
    BY <1>4 DEF IInv, TypeOK
  <2>2. QuestionOf(r) \in Question
    BY <2>1 DEF IInv, TypeOK, QuestionOf, Question
  <2>. QED
    BY <1>4, <2>2, NoneAssumption DEF Seen, StatusOf, Asked, Answered
<1>6. Seen' = Seen /\ Vetted' = Vetted
  BY <1>2 DEF Seen, StatusOf, Vetted
<1>7. Given' = Given
  BY <1>1, <1>2, <1>3, <1>4 DEF Given, Completed
<1>8. Answered' = Answered \union {r}
  <2>1. a # None
    BY ChatAssumption
  <2>. QED
    BY <1>1, <1>3, <2>1 DEF Answered
<1>9. Contract!Call(r)
  BY <1>1, <1>2, <1>5, <1>6, <1>7, <1>8, SameAsked
     DEF Contract!Call, Seen, Asked, Given, Answered
<1>. QED
  BY <1>9 DEF Contract!Next

\* A charge bills a call that was not billed.
LEMMA ChargeBills ==
  ASSUME IInv, NEW r \in Request, Charge(r)
  PROVE  [Contract!Next]_(Contract!vars)
<1>1. /\ stage[r] = "charge"
      /\ charged' = charged \union {r} \/ charged' = charged
      /\ UNCHANGED <<wired, req, msgs, version, result, response, status, known>>
  BY DEF Charge, At, Goto
<1>2. Progress(r) /\ Booked(r)
  BY DEF IInv
<1>3. result[r] # None /\ r \notin charged
  BY <1>1, <1>2 DEF Progress, Booked, Called
<1>4. CASE charged' = charged
  BY <1>1, <1>4, Stutters
<1>5. CASE charged' = charged \union {r}
  <2>1. Seen' = Seen /\ Given' = Given /\ Answered' = Answered /\ Vetted' = Vetted
    BY <1>1 DEF Seen, StatusOf, Given, Completed, Answered, Vetted
  <2>2. r \in Answered \ charged
    BY <1>3 DEF Answered
  <2>3. Contract!Bill(r)
    BY <1>1, <1>5, <2>1, <2>2, SameAsked DEF Contract!Bill, Seen, Asked, Given, Answered
  <2>. QED
    BY <2>3 DEF Contract!Next
<1>. QED
  BY <1>1, <1>4, <1>5

\* A stream opens after admission.
LEMMA OpenOpens == ASSUME IInv, NEW r \in Request, Open(r) PROVE Contract!Next
<1>1. /\ stage[r] = "stream"
      /\ status' = [status EXCEPT ![r] = 200]
      /\ UNCHANGED <<wired, req, msgs, version, result, response, known, charged>>
  BY DEF Open, ledger, history
<1>2. /\ Progress(r) /\ status \in [Request -> {0, 200, 404, 422, 429, 500}]
  BY DEF IInv, TypeOK
<1>3. status[r] = 0 /\ msgs[r] # None /\ result[r] = None /\ req[r].stream
  BY <1>1, <1>2 DEF Progress, Streamed
<1>4. Seen[r] = "pending" /\ Asked[r] # None /\ r \notin Answered
  <2>1. msgs[r] \in Messages
    BY <1>3 DEF IInv, TypeOK
  <2>2. QuestionOf(r) \in Question
    BY <2>1 DEF IInv, TypeOK, QuestionOf, Question
  <2>. QED
    BY <1>3, <2>2, NoneAssumption DEF Seen, StatusOf, Asked, Answered
<1>5. Seen' = [Seen EXCEPT ![r] = "streaming"]
  <2>1. StatusOf(r)' = "streaming"
    BY <1>1, <1>2, <1>3 DEF StatusOf
  <2>2. \A q \in Request \ {r} : StatusOf(q)' = StatusOf(q)
    BY <1>1, <1>2, <1>3 DEF StatusOf
  <2>. QED
    BY <2>1, <2>2, SeenChanges
<1>6. Given' = Given
  BY <1>1, <1>2, <1>3 DEF Given, Completed
<1>7. Answered' = Answered /\ Vetted' = Vetted
  BY <1>1 DEF Answered, Vetted
<1>8. Contract!Open(r)
  BY <1>1, <1>4, <1>5, <1>6, <1>7, SameAsked
     DEF Contract!Open, Seen, Asked, Given, Answered
<1>. QED
  BY <1>8 DEF Contract!Next

\* A hit and a store reply.
LEMMA HitReplies == ASSUME IInv, VInv, NEW r \in Request, Hit(r) PROVE Contract!Next
<1>1. PICK e \in cache :
        e.key = BuildKey(r) /\ response' = [response EXCEPT ![r] = e.answer]
  BY DEF Hit
<1>2. /\ stage[r] = "lookup" /\ Finish(r, 200)
      /\ UNCHANGED <<wired, req, msgs, version, result, known, charged>>
  BY DEF Hit, At, history, ledger
<1>3. e.answer \in Answer /\ e.answer \in Vetted
  BY DEF IInv, TypeOK, VInv
<1>4. PICK k \in known : GivenTo(e, k)
  BY DEF IInv, CacheIsKnown
<1>5. r \notin Answered
  BY <1>2 DEF IInv, Progress, Uncalled, Answered
<1>6. Contract!Fits(k.question, QuestionOf(r))
  <2>1. k.question \in Question
    BY <1>4 DEF IInv, TypeOK
  <2>2. k.question.key = req[r].key /\ k.question.model = req[r].model
        /\ k.question.msgs = msgs[r]
    BY <1>1, <1>4 DEF GivenTo, BuildKey
  <2>. QED
    BY <2>1, <2>2 DEF Contract!Fits, Question, QuestionOf
<1>. QED
  BY <1>1, <1>2, <1>3, <1>4, <1>5, <1>6, AnswersReply DEF GivenTo

\* So when an answer is stored.
LEMMA StoreReplies ==
  ASSUME IInv, VInv, NEW r \in Request, stage[r] = "store", Finish(r, 200),
         UNCHANGED <<wired, req, msgs, version, result, response, known, charged>>
  PROVE  Contract!Next
<1>1. Progress(r) /\ result \in [Request -> Answer \union {None}]
      /\ response \in [Request -> Answer \union {None}]
  BY DEF IInv, TypeOK
<1>2. response[r] \in Answer
  BY <1>1 DEF Progress, Called
<1> DEFINE k == [question |-> QuestionOf(r), answer |-> response[r]]
<1>3. k \in known /\ k.question = QuestionOf(r) /\ k.answer = response[r] /\ r \in Answered
  BY <1>1 DEF Progress, Called, Answered
<1>4. response[r] \in Vetted
  BY DEF VInv
<1>5. response' = [response EXCEPT ![r] = response[r]]
  BY <1>1
<1> HIDE DEF k
<1>. QED
  BY <1>2, <1>3, <1>4, <1>5, AnswersReply

\* Every step of a request is one of the contract's or none.
LEMMA RequestMaps ==
  ASSUME IInv, VInv, NEW r \in Request, Receive(r) \/ Step(r) \/ Lose(r)
  PROVE  [Contract!Next]_(Contract!vars)
<1> DEFINE Same == UNCHANGED <<wired, req, msgs, version, result, response, known, charged>>
           Mapped == [Contract!Next]_(Contract!vars)
           Refusable == stage[r] \in Unasked \union Uncalled \union {"stream", "guard", "store"}
<1>1. ASSUME NEW next, Goto(r, next), Same PROVE Mapped
  BY <1>1, Stutters DEF Goto
<1>2. ASSUME NEW code \in {404, 422, 429, 500}, Finish(r, code), Same, Refusable
      PROVE  Mapped
  BY <1>2, Refuses
<1>3. ASSUME Break(r), Refusable PROVE Mapped
  BY <1>2, <1>3 DEF Break, ledger
<1>4. ASSUME Receive(r) \/ Lose(r) PROVE Mapped
  <2>1. Same
    BY <1>4 DEF Receive, Lose, ledger, history
  <2>2. CASE Lose(r)
    BY <1>1, <2>1, <2>2 DEF Lose
  <2>3. CASE Receive(r)
    BY <1>1, <1>2, <2>1, <2>3 DEF Receive, Unasked
  <2>. QED
    BY <1>4, <2>2, <2>3
<1>5. ASSUME Skip(r) PROVE Mapped
  <2>1. Same
    BY <1>5 DEF Skip, ledger, history
  <2>2. CASE stage[r] = "store"
    BY <1>5, <2>1, <2>2, StoreReplies DEF Skip
  <2>3. CASE stage[r] # "store"
    BY <1>1, <1>5, <2>1, <2>3 DEF Skip
  <2>. QED
    BY <2>2, <2>3
<1>6. ASSUME Limit(r) \/ Budget(r) PROVE Mapped
  <2>1. Refusable
    BY <1>6 DEF Limit, Budget, At, Unasked
  <2>2. CASE Break(r)
    BY <1>3, <2>1, <2>2
  <2>3. CASE ~Break(r)
    <3>1. Same /\ (Finish(r, 429) \/ Goto(r, "budget") \/ Goto(r, "prepare"))
      BY <1>6, <2>3 DEF Limit, Budget, ledger, history
    <3>. QED
      BY <1>1, <1>2, <2>1, <3>1
  <2>. QED
    BY <2>2, <2>3
<1>7. ASSUME RejectPre(r) \/ UnknownModel(r) PROVE Mapped
  <2>1. Refusable /\ Same /\ (Finish(r, 422) \/ Finish(r, 404))
    BY <1>7 DEF RejectPre, UnknownModel, Unasked, Uncalled, ledger, history
  <2>. QED
    BY <1>2, <2>1
<1>8. ASSUME BadPrompt(r) \/ LookupFails(r) \/ StoreFails(r) PROVE Mapped
  <2>1. Refusable /\ Break(r)
    BY <1>8 DEF BadPrompt, LookupFails, StoreFails, At, Unasked, Uncalled
  <2>. QED
    BY <1>3, <2>1
<1>9. ASSUME CallFails(r) PROVE Mapped
  <2>1. Refusable /\ Same /\ Finish(r, 500)
    BY <1>9 DEF CallFails, Uncalled, ledger
  <2>. QED
    BY <1>2, <2>1
<1>10. ASSUME Miss(r) \/ Insert(r) \/ Publish(r) PROVE Mapped
  <2>1. Same /\ UNCHANGED status
    BY <1>10 DEF Miss, Insert, Publish, Goto, ledger, history
  <2>. QED
    BY <2>1, Stutters
<1>11. ASSUME Guard(r) PROVE Mapped
  <2>1. Same /\ Refusable /\ (Finish(r, 422) \/ Goto(r, "store"))
    BY <1>11 DEF Guard, At, ledger, history
  <2>. QED
    BY <1>1, <1>2, <2>1
<1>12. ASSUME Store(r) PROVE Mapped
  <2>1. Same /\ stage[r] = "store" /\ Finish(r, 200)
    BY <1>12 DEF Store, At, ledger, history
  <2>. QED
    BY <2>1, StoreReplies
<1>13. ASSUME Pull(r) \/ EndStream(r) PROVE Mapped
  <2>1. Same /\ UNCHANGED status
    BY <1>13 DEF Pull, EndStream, Goto, ledger
  <2>. QED
    BY <2>1, Stutters
<1> HIDE DEF Same, Mapped, Refusable
<1>14. ASSUME Prepare(r) \/ Hit(r) \/ Call(r) \/ Charge(r) \/ Open(r) PROVE Mapped
  BY <1>14, PrepareAsks, HitReplies, CallCalls, ChargeBills, OpenOpens DEF Mapped
<1>15. Mapped
  BY <1>4, <1>5, <1>6, <1>7, <1>8, <1>9, <1>10, <1>11, <1>12, <1>13, <1>14 DEF Step
<1>. QED
  BY <1>15 DEF Mapped

\* So is every step of the specification: a promotion or an expired entry is
\* none of the contract's.
LEMMA ContractStep ==
  IInv /\ VInv /\ [Next]_vars => [Contract!Next]_(Contract!vars)
<1>. SUFFICES ASSUME IInv, VInv, [Next]_vars PROVE [Contract!Next]_(Contract!vars)
  OBVIOUS
<1>1. ASSUME NEW r \in Request, Receive(r) \/ Step(r) \/ Lose(r)
      PROVE  [Contract!Next]_(Contract!vars)
  BY <1>1, RequestMaps
<1>2. ASSUME \/ \E v \in Version : Promote(v)
             \/ \E e \in cache : Expire(e)
             \/ UNCHANGED vars
      PROVE  [Contract!Next]_(Contract!vars)
  <2>1. UNCHANGED <<wired, req, status, msgs, version, known, charged, result, response>>
    BY <1>2 DEF Promote, Expire, vars, ledger, history
  <2>. QED
    BY <2>1, Stutters
<1>. QED
  BY <1>1, <1>2 DEF Next

\* Init is the contract's.
LEMMA ContractInit == Init => Contract!Init
BY DEF Init, Contract!Init, StatusOf, Completed, Vetted

\* If the output guardrails only reject, the service keeps its contract: a
\* complete answer was given by a provider, to the request's own question or,
\* on a hit, to one of the same tenant, model and messages; no request is
\* called or billed twice, and an open stream is not refused.
THEOREM Implementation == ASSUME OnlyRejects PROVE Spec => ImplementsContract
<1>1. IInv /\ VInv /\ [Next]_vars => VInv'
  BY StepVInv
<1>. QED
  BY <1>1, InitVInv, ContractInit, ContractStep, Invariance, PTL
     DEF Spec, ImplementsContract, Contract!Spec

\* A family of subsets with {} and, with a member, every larger one by an
\* element has all of them.
LEMMA SubsetInduction ==
  ASSUME NEW S, IsFiniteSet(S), NEW F \in SUBSET (SUBSET S), {} \in F,
         \A T \in F : \A x \in S \ T : T \union {x} \in F
  PROVE  F = SUBSET S
<1> DEFINE K == {k \in Nat : \A T \in SUBSET S : Cardinality(T) = k => T \in F}
<1>0. \A T \in SUBSET S : IsFiniteSet(T) /\ Cardinality(T) \in Nat
  BY FS_Subset, FS_CardinalityType
<1>1. 0 \in K
  BY <1>0, FS_EmptySet
<1>2. ASSUME NEW k \in K PROVE k + 1 \in K
  <2> SUFFICES ASSUME NEW T \in SUBSET S, Cardinality(T) = k + 1 PROVE T \in F
    OBVIOUS
  <2>1. PICK x : x \in T
    <3>1. k \in Nat /\ k + 1 # 0
      OBVIOUS
    <3>2. T # {}
      BY <3>1, FS_EmptySet
    <3>. QED
      BY <3>2
  <2>2. IsFiniteSet(T)
    BY <1>0
  <2>3. Cardinality(T \ {x}) = Cardinality(T) - 1
    BY <2>1, <2>2, FS_RemoveElement
  <2>4. T \ {x} \in F
    BY <2>3
  <2>5. x \in S \ (T \ {x}) /\ (T \ {x}) \union {x} = T
    BY <2>1
  <2>. QED
    BY <2>4, <2>5
<1> HIDE DEF K
<1>3. K = Nat
  BY <1>1, <1>2, SetInduction DEF K
<1>4. ASSUME NEW T \in SUBSET S PROVE T \in F
  BY <1>0, <1>3 DEF K
<1>. QED
  BY <1>4

-----------------------------------------------------------------------------
(* Adding up over a set, in whatever order its elements are chosen.        *)

AnyOf(s) == CHOOSE x \in s : TRUE

\* f adds w up over every subset of S.
IsAdding(f, S, w) ==
  f = [s \in SUBSET S |-> IF s = {} THEN 0 ELSE w[AnyOf(s)] + f[s \ {AnyOf(s)}]]

SumOver(w, S) == (CHOOSE f : IsAdding(f, S, w))[S]

\* It can be done, with numbers.
LEMMA AddingExists ==
  ASSUME NEW S, IsFiniteSet(S), NEW w \in [S -> Nat]
  PROVE  \E f : IsAdding(f, S, w) /\ f \in [SUBSET S -> Nat]
<1> DEFINE Small(k) == {s \in SUBSET S : Cardinality(s) <= k}
           With(f, s) == IF s = {} THEN 0 ELSE w[AnyOf(s)] + f[s \ {AnyOf(s)}]
           K == {k \in Nat : \E f \in [Small(k) -> Nat] : \A s \in Small(k) : f[s] = With(f, s)}
<1>0. \A s \in SUBSET S : IsFiniteSet(s) /\ Cardinality(s) \in Nat
  BY FS_Subset, FS_CardinalityType
<1>1. ASSUME NEW s \in SUBSET S, s # {}
      PROVE  /\ AnyOf(s) \in s /\ AnyOf(s) \in S /\ w[AnyOf(s)] \in Nat
             /\ s \ {AnyOf(s)} \in SUBSET S
             /\ Cardinality(s \ {AnyOf(s)}) = Cardinality(s) - 1
             /\ Cardinality(s) # 0
  <2>1. AnyOf(s) \in s
    BY <1>1 DEF AnyOf
  <2>2. IsFiniteSet(s)
    BY <1>0
  <2>3. Cardinality(s \ {AnyOf(s)}) = Cardinality(s) - 1
    BY <2>1, <2>2, FS_RemoveElement
  <2>4. Cardinality(s) # 0
    BY <1>1, <2>2, FS_EmptySet
  <2>. QED
    BY <2>1, <2>3, <2>4
<1>2. 0 \in K
  <2> DEFINE f == [s \in Small(0) |-> 0]
  <2>1. \A s \in Small(0) : s = {}
    BY <1>0, FS_EmptySet
  <2>2. f \in [Small(0) -> Nat] /\ \A s \in Small(0) : f[s] = With(f, s)
    BY <2>1
  <2>. QED
    BY <2>2
<1>3. ASSUME NEW k \in K PROVE k + 1 \in K
  <2>1. PICK f \in [Small(k) -> Nat] : \A s \in Small(k) : f[s] = With(f, s)
    OBVIOUS
  <2> DEFINE g == [s \in Small(k + 1) |-> IF s \in Small(k) THEN f[s] ELSE With(f, s)]
  <2>2. ASSUME NEW s \in Small(k + 1), s # {}
        PROVE  s \ {AnyOf(s)} \in Small(k) /\ s \ {AnyOf(s)} \in Small(k + 1)
    BY <1>0, <1>1, <2>2
  <2>3. ASSUME NEW s \in Small(k + 1) PROVE g[s] \in Nat /\ g[s] = With(g, s)
    <3>1. {} \in Small(k)
      BY FS_EmptySet
    <3>2. CASE s = {}
      BY <2>1, <3>1, <3>2
    <3>3. CASE s # {}
      <4> DEFINE t == s \ {AnyOf(s)}
      <4>1. t \in Small(k) /\ t \in Small(k + 1) /\ w[AnyOf(s)] \in Nat
        BY <1>1, <2>2, <3>3
      <4>2. g[t] = f[t] /\ f[t] \in Nat
        BY <4>1
      <4>3. g[s] = w[AnyOf(s)] + f[t]
        BY <2>1, <3>3
      <4>. QED
        BY <3>3, <4>1, <4>2, <4>3
    <3>. QED
      BY <3>2, <3>3
  <2> HIDE DEF With
  <2>4. g \in [Small(k + 1) -> Nat] /\ \A s \in Small(k + 1) : g[s] = With(g, s)
    BY <2>3
  <2> HIDE DEF g, Small
  <2>5. k + 1 \in Nat /\ \E h \in [Small(k + 1) -> Nat] : \A s \in Small(k + 1) : h[s] = With(h, s)
    BY <2>4
  <2>. QED
    BY <2>5
<1> HIDE DEF K
<1>4. K = Nat
  BY <1>2, <1>3, SetInduction DEF K
<1>5. Cardinality(S) \in K
  BY <1>0, <1>4
<1>6. PICK f \in [Small(Cardinality(S)) -> Nat] :
        \A s \in Small(Cardinality(S)) : f[s] = With(f, s)
  BY <1>5 DEF K
<1>7. Small(Cardinality(S)) = SUBSET S
  BY FS_Subset
<1> HIDE DEF Small
<1>8. f \in [SUBSET S -> Nat] /\ \A s \in SUBSET S : f[s] = With(f, s)
  BY <1>6, <1>7
<1>9. f = [s \in SUBSET S |-> With(f, s)]
  <2> HIDE DEF With
  <2>. QED
    BY <1>8
<1>. QED
  BY <1>8, <1>9 DEF IsAdding

\* What adding up comes to, whichever element is taken first.
Sums(f, S, w) ==
  /\ f \in [SUBSET S -> Nat] /\ f[{}] = 0
  /\ \A T \in SUBSET S : \A x \in T : f[T] = w[x] + f[T \ {x}]

\* A function that adds up gives numbers, and takes elements in any order.
LEMMA AddingSums ==
  ASSUME NEW S, IsFiniteSet(S), NEW w \in [S -> Nat],
         NEW f, IsAdding(f, S, w), f \in [SUBSET S -> Nat]
  PROVE  Sums(f, S, w)
<1> DEFINE F == {T \in SUBSET S : \A x \in T : f[T] = w[x] + f[T \ {x}]}
           K == {k \in Nat : \A T \in SUBSET S : Cardinality(T) <= k => T \in F}
<1>0. \A s \in SUBSET S : IsFiniteSet(s) /\ Cardinality(s) \in Nat /\ f[s] \in Nat
  BY FS_Subset, FS_CardinalityType
<1>1. f[{}] = 0
  BY DEF IsAdding
<1>2. 0 \in K
  <2>1. \A T \in SUBSET S : Cardinality(T) <= 0 => T = {}
    BY <1>0, FS_EmptySet
  <2>. QED
    BY <2>1
<1>3. ASSUME NEW k \in K PROVE k + 1 \in K
  <2>1. k \in Nat /\ \A T \in SUBSET S : Cardinality(T) <= k => T \in F
    OBVIOUS
  <2> SUFFICES ASSUME NEW T \in SUBSET S, Cardinality(T) <= k + 1, NEW x \in T
               PROVE  f[T] = w[x] + f[T \ {x}]
    BY <2>1
  <2> HIDE DEF K
  <2> DEFINE y == AnyOf(T)
  <2>2. y \in T
    BY DEF AnyOf
  <2> HIDE DEF y
  <2>3. f[T] = w[y] + f[T \ {y}]
    <3>1. T # {}
      OBVIOUS
    <3>. QED
      BY <3>1 DEF IsAdding, y
  <2>4. ASSUME NEW z \in T, NEW u \in T, u # z
        PROVE  f[T \ {z}] = w[u] + f[(T \ {z}) \ {u}]
    <3>1. IsFiniteSet(T) /\ Cardinality(T) \in Nat
      BY <1>0
    <3>2. Cardinality(T \ {z}) = Cardinality(T) - 1
      BY <3>1, FS_RemoveElement
    <3>3. Cardinality(T \ {z}) <= k /\ T \ {z} \in SUBSET S
      BY <2>1, <3>1, <3>2
    <3>4. T \ {z} \in F
      BY <2>1, <3>3
    <3>. QED
      BY <2>4, <3>4
  <2>5. CASE x = y
    BY <2>3, <2>5
  <2>6. CASE x # y
    <3>1. f[T \ {y}] = w[x] + f[(T \ {y}) \ {x}] /\ f[T \ {x}] = w[y] + f[(T \ {x}) \ {y}]
      BY <2>2, <2>4, <2>6
    <3>2. (T \ {y}) \ {x} = (T \ {x}) \ {y} /\ (T \ {x}) \ {y} \in SUBSET S
      OBVIOUS
    <3>3. w[x] \in Nat /\ w[y] \in Nat /\ f[(T \ {x}) \ {y}] \in Nat
      BY <1>0, <2>2, <3>2
    <3>4. w[y] + (w[x] + f[(T \ {x}) \ {y}]) = w[x] + (w[y] + f[(T \ {x}) \ {y}])
      BY <3>3
    <3> HIDE DEF F
    <3>5. f[T] = w[y] + (w[x] + f[(T \ {x}) \ {y}])
      BY <2>3, <3>1, <3>2
    <3>. QED
      BY <3>1, <3>4, <3>5
  <2>. QED
    BY <2>5, <2>6
<1> HIDE DEF K
<1>4. K = Nat
  BY <1>2, <1>3, SetInduction DEF K
<1>5. ASSUME NEW T \in SUBSET S PROVE T \in F
  BY <1>0, <1>4 DEF K
<1>. QED
  BY <1>1, <1>5 DEF Sums

\* Every sum is such a one.
LEMMA SumIsAdded ==
  ASSUME NEW S, IsFiniteSet(S), NEW w \in [S -> Nat]
  PROVE  \E f : Sums(f, S, w) /\ f[S] = SumOver(w, S)
<1> DEFINE g == CHOOSE f : IsAdding(f, S, w)
<1>1. PICK f : IsAdding(f, S, w) /\ f \in [SUBSET S -> Nat]
  BY AddingExists
<1>2. IsAdding(g, S, w)
  BY <1>1, Zenon
<1>3. g[S] = SumOver(w, S)
  BY DEF SumOver
<1> HIDE DEF g
<1>4. \A s \in SUBSET S : f[s] = g[s]
  <2> DEFINE F == {s \in SUBSET S : f[s] = g[s]}
             K == {k \in Nat : \A s \in SUBSET S : Cardinality(s) = k => f[s] = g[s]}
  <2>0. \A s \in SUBSET S : IsFiniteSet(s) /\ Cardinality(s) \in Nat
    BY FS_Subset, FS_CardinalityType
  <2>1. 0 \in K
    <3>1. \A s \in SUBSET S : Cardinality(s) = 0 => s = {}
      BY <2>0, FS_EmptySet
    <3>2. f[{}] = g[{}]
      BY <1>1, <1>2 DEF IsAdding
    <3>. QED
      BY <3>1, <3>2
  <2>2. ASSUME NEW k \in K PROVE k + 1 \in K
    <3>1. k \in Nat /\ k + 1 # 0 /\ k + 1 \in Nat
      OBVIOUS
    <3> SUFFICES ASSUME NEW s \in SUBSET S, Cardinality(s) = k + 1 PROVE f[s] = g[s]
      BY <3>1
    <3>2. s # {}
      BY <3>1, FS_EmptySet
    <3>3. AnyOf(s) \in s
      BY <3>2 DEF AnyOf
    <3>4. IsFiniteSet(s)
      BY <2>0
    <3>5. Cardinality(s \ {AnyOf(s)}) = Cardinality(s) - 1
      BY <3>3, <3>4, FS_RemoveElement
    <3>6. s \ {AnyOf(s)} \in SUBSET S /\ Cardinality(s \ {AnyOf(s)}) = k
      BY <3>1, <3>5
    <3>7. f[s \ {AnyOf(s)}] = g[s \ {AnyOf(s)}]
      BY <3>6
    <3> HIDE DEF K
    <3>. QED
      BY <1>1, <1>2, <3>2, <3>7 DEF IsAdding
  <2> HIDE DEF K
  <2>3. K = Nat
    BY <2>1, <2>2, SetInduction DEF K
  <2>. QED
    BY <2>0, <2>3 DEF K
<1>5. S \in SUBSET S /\ f[S] = g[S]
  BY <1>4
<1>. QED
  BY <1>1, <1>3, <1>5, AddingSums

\* An element more adds what it weighs.
LEMMA SumsTake ==
  ASSUME NEW S, NEW w, NEW f, Sums(f, S, w), NEW T \in SUBSET S, NEW x \in S, x \notin T
  PROVE  f[T \union {x}] = w[x] + f[T] /\ f[T] \in Nat
<1>1. T \union {x} \in SUBSET S /\ x \in T \union {x} /\ (T \union {x}) \ {x} = T
  OBVIOUS
<1>. QED
  BY <1>1 DEF Sums

\* Sums depend on the weights, not on what has them.
LEMMA SumsMap ==
  ASSUME NEW S, IsFiniteSet(S), NEW w \in [S -> Nat], NEW f, Sums(f, S, w),
         NEW R, NEW v, NEW h, Sums(h, R, v),
         NEW b \in [S -> R], \A x, y \in S : b[x] = b[y] => x = y,
         \A x \in S : w[x] = v[b[x]]
  PROVE  \A T \in SUBSET S : f[T] = h[{b[x] : x \in T}]
<1> DEFINE F == {T \in SUBSET S : f[T] = h[{b[x] : x \in T}]}
<1>1. {} \in F
  <2>1. {b[x] : x \in {}} = {}
    OBVIOUS
  <2>. QED
    BY <2>1 DEF Sums
<1>2. ASSUME NEW T \in F, NEW x \in S \ T PROVE T \union {x} \in F
  <2> DEFINE I == {b[y] : y \in T}
  <2>1. I \in SUBSET R /\ b[x] \in R /\ b[x] \notin I
    OBVIOUS
  <2>2. {b[y] : y \in T \union {x}} = I \union {b[x]}
    OBVIOUS
  <2>3. T \in SUBSET S /\ T \union {x} \in SUBSET S /\ f[T] = h[I]
    OBVIOUS
  <2> HIDE DEF I, F
  <2>4. f[T \union {x}] = w[x] + f[T]
    BY <2>3, SumsTake
  <2>5. h[I \union {b[x]}] = v[b[x]] + h[I]
    BY <2>1, SumsTake
  <2>6. f[T \union {x}] = h[{b[y] : y \in T \union {x}}]
    BY <2>2, <2>3, <2>4, <2>5
  <2>. QED
    BY <2>3, <2>6 DEF F
<1> HIDE DEF F
<1>3. F \in SUBSET (SUBSET S)
  BY DEF F
<1>4. F = SUBSET S
  BY <1>1, <1>2, <1>3, SubsetInduction
<1>. QED
  BY <1>4 DEF F

\* Two parts add up to the whole.
LEMMA SumsJoin ==
  ASSUME NEW S, IsFiniteSet(S), NEW w \in [S -> Nat], NEW f, Sums(f, S, w), NEW V \in SUBSET S
  PROVE  \A U \in SUBSET S : U \cap V = {} => f[U \union V] = f[U] + f[V]
<1> DEFINE F == {U \in SUBSET S : U \cap V = {} => f[U \union V] = f[U] + f[V]}
<1>0. \A T \in SUBSET S : f[T] \in Nat
  BY DEF Sums
<1>1. {} \in F
  <2>1. {} \union V = V /\ f[{}] = 0 /\ f[V] \in Nat
    BY <1>0 DEF Sums
  <2>2. 0 + f[V] = f[V]
    BY <2>1
  <2>. QED
    BY <2>1, <2>2
<1>2. ASSUME NEW U \in F, NEW x \in S \ U PROVE U \union {x} \in F
  <2> SUFFICES ASSUME (U \union {x}) \cap V = {}
               PROVE  f[(U \union {x}) \union V] = f[U \union {x}] + f[V]
    OBVIOUS
  <2>1. U \in SUBSET S /\ U \union V \in SUBSET S /\ x \notin U \union V /\ x \in S
    OBVIOUS
  <2>2. f[U \union V] = f[U] + f[V]
    <3>1. U \cap V = {}
      OBVIOUS
    <3>. QED
      BY <3>1
  <2>3. (U \union V) \union {x} = (U \union {x}) \union V
    OBVIOUS
  <2> HIDE DEF F
  <2>4. f[U \union {x}] = w[x] + f[U]
    BY <2>1, SumsTake
  <2>5. f[(U \union V) \union {x}] = w[x] + f[U \union V]
    BY <2>1, SumsTake
  <2>6. w[x] \in Nat /\ f[U] \in Nat /\ f[V] \in Nat
    BY <1>0, <2>1
  <2>7. w[x] + (f[U] + f[V]) = (w[x] + f[U]) + f[V]
    BY <2>6
  <2>. QED
    BY <2>2, <2>3, <2>4, <2>5, <2>7
<1> HIDE DEF F
<1>3. F \in SUBSET (SUBSET S)
  BY DEF F
<1>4. F = SUBSET S
  BY <1>1, <1>2, <1>3, SubsetInduction
<1>. QED
  BY <1>4 DEF F

\* The sum over an image is the sum over what it is the image of.
Renames(b, S, w, R, v) ==
  /\ w \in [S -> Nat] /\ v \in [R -> Nat] /\ b \in [S -> R]
  /\ R = {b[x] : x \in S} /\ \A x, y \in S : b[x] = b[y] => x = y
  /\ \A x \in S : w[x] = v[b[x]]

\* Sums are kept when elements are renamed one to one.
LEMMA SumOfImage ==
  ASSUME NEW S, IsFiniteSet(S), NEW w, NEW b, NEW R, NEW v, Renames(b, S, w, R, v)
  PROVE  IsFiniteSet(R) /\ Cardinality(R) = Cardinality(S) /\ SumOver(v, R) = SumOver(w, S)
<1> USE DEF Renames
<1>1. b \in Bijection(S, R)
  BY DEF Bijection, Injection, Surjection, IsInjective
<1>2. IsFiniteSet(R) /\ Cardinality(R) = Cardinality(S)
  BY <1>1, FS_Bijection DEF ExistsBijection
<1>3. PICK f : Sums(f, S, w) /\ f[S] = SumOver(w, S)
  BY SumIsAdded
<1>4. PICK h : Sums(h, R, v) /\ h[R] = SumOver(v, R)
  BY <1>2, SumIsAdded
<1>5. f[S] = h[R]
  <2>1. b \in [S -> R] /\ S \in SUBSET S
    OBVIOUS
  <2>2. \A T \in SUBSET S : f[T] = h[{b[x] : x \in T}]
    BY <1>3, <1>4, <2>1, SumsMap
  <2>. QED
    BY <2>1, <2>2
<1>. QED
  BY <1>2, <1>3, <1>4, <1>5

\* The sum over a part is what the sums of the whole say.
LEMMA SumOfPart ==
  ASSUME NEW S, IsFiniteSet(S), NEW w \in [S -> Nat], NEW f, Sums(f, S, w), NEW T \in SUBSET S
  PROVE  SumOver([x \in T |-> w[x]], T) = f[T]
<1> DEFINE u == [x \in T |-> w[x]]
           b == [x \in T |-> x]
<1>1. IsFiniteSet(T)
  BY FS_Subset
<1>2. u \in [T -> Nat] /\ \A x \in T : u[x] = w[b[x]]
  OBVIOUS
<1>3. b \in [T -> S] /\ \A x, y \in T : b[x] = b[y] => x = y
  OBVIOUS
<1>4. {b[x] : x \in T} = T /\ T \in SUBSET T
  OBVIOUS
<1> HIDE DEF u, b
<1>5. PICK h : Sums(h, T, u) /\ h[T] = SumOver(u, T)
  BY <1>1, <1>2, SumIsAdded
<1>6. \A U \in SUBSET T : h[U] = f[{b[x] : x \in U}]
  BY <1>1, <1>2, <1>3, <1>5, SumsMap
<1>7. h[T] = f[T]
  BY <1>4, <1>6
<1>. QED
  BY <1>5, <1>7 DEF u

\* An element more adds what it weighs to the sum.
LEMMA SumGrows ==
  ASSUME NEW S, IsFiniteSet(S), NEW x, x \notin S, NEW w \in [S \union {x} -> Nat]
  PROVE  /\ SumOver(w, S \union {x}) = w[x] + SumOver([y \in S |-> w[y]], S)
         /\ SumOver([y \in S |-> w[y]], S) \in Nat
<1> DEFINE R == S \union {x}
<1>1. IsFiniteSet(R) /\ S \in SUBSET R /\ x \in R
  BY FS_AddElement
<1> HIDE DEF R
<1>2. w \in [R -> Nat]
  BY DEF R
<1>3. PICK f : Sums(f, R, w) /\ f[R] = SumOver(w, R)
  BY <1>1, <1>2, SumIsAdded
<1>4. SumOver([y \in S |-> w[y]], S) = f[S]
  BY <1>1, <1>2, <1>3, SumOfPart
<1>5. f[S \union {x}] = w[x] + f[S] /\ f[S] \in Nat
  BY <1>1, <1>3, SumsTake
<1>. QED
  BY <1>3, <1>4, <1>5 DEF R

\* The elements of S in class k of m, and in one of the classes U.
PartOf(S, m, k) == {x \in S : m[x] = k}
PartIn(S, m, U) == {x \in S : m[x] \in U}

\* If classes are weighed by the sums of their elements, their sums are the sums
\* of the elements in them.
LEMMA ClassSums ==
  ASSUME NEW S, IsFiniteSet(S), NEW w \in [S -> Nat], NEW f, Sums(f, S, w), NEW m,
         NEW K, IsFiniteSet(K), NEW c \in [K -> Nat], NEW h, Sums(h, K, c),
         \A k \in K : c[k] = f[PartOf(S, m, k)]
  PROVE  h[K] = f[PartIn(S, m, K)]
<1> DEFINE F == {U \in SUBSET K : h[U] = f[PartIn(S, m, U)]}
<1>1. {} \in F
  <2>1. PartIn(S, m, {}) = {}
    BY DEF PartIn
  <2>. QED
    BY <2>1 DEF Sums
<1>2. ASSUME NEW U \in F, NEW k \in K \ U PROVE U \union {k} \in F
  <2>1. h[U] = f[PartIn(S, m, U)] /\ U \in SUBSET K /\ U \union {k} \in SUBSET K /\ k \in K /\ k \notin U
    OBVIOUS
  <2>2. /\ PartIn(S, m, U) \in SUBSET S /\ PartOf(S, m, k) \in SUBSET S
        /\ PartOf(S, m, k) \cap PartIn(S, m, U) = {}
        /\ PartOf(S, m, k) \union PartIn(S, m, U) = PartIn(S, m, U \union {k})
    BY <2>1 DEF PartOf, PartIn
  <2> HIDE DEF F
  <2>3. h[U \union {k}] = c[k] + h[U]
    <3> DEFINE V == U \union {k}
    <3>1. V \in SUBSET K /\ k \in V /\ V \ {k} = U
      BY <2>1
    <3> HIDE DEF V
    <3>2. h[V] = c[k] + h[V \ {k}]
      BY <3>1 DEF Sums
    <3>. QED
      BY <3>1, <3>2 DEF V
  <2>4. f[PartOf(S, m, k) \union PartIn(S, m, U)] = f[PartOf(S, m, k)] + f[PartIn(S, m, U)]
    BY <2>2, SumsJoin
  <2>5. h[U \union {k}] = f[PartIn(S, m, U \union {k})]
    BY <2>1, <2>2, <2>3, <2>4
  <2>. QED
    BY <2>1, <2>5 DEF F
<1>3. F \in SUBSET (SUBSET K)
  OBVIOUS
<1>4. F = SUBSET K
  <2> HIDE DEF F
  <2>. QED
    BY <1>1, <1>2, <1>3, SubsetInduction
<1>5. K \in F
  BY <1>4
<1>. QED
  BY <1>5

\* The sums of the classes add up to the sum of all.
Classes(S, w, m, K, c) ==
  /\ w \in [S -> Nat] /\ c \in [K -> Nat] /\ \A x \in S : m[x] \in K
  /\ \A k \in K : c[k] = SumOver([x \in PartOf(S, m, k) |-> w[x]], PartOf(S, m, k))

\* The sum of the classes' sums is the sum of the elements.
LEMMA SumOfClasses ==
  ASSUME NEW S, IsFiniteSet(S), NEW K, IsFiniteSet(K), NEW w, NEW m, NEW c,
         Classes(S, w, m, K, c)
  PROVE  SumOver(c, K) = SumOver(w, S)
<1> USE DEF Classes
<1>2. PICK f : Sums(f, S, w) /\ f[S] = SumOver(w, S)
  BY SumIsAdded
<1>3. \A k \in K : c[k] = f[PartOf(S, m, k)] /\ PartOf(S, m, k) \in SUBSET S
  <2>1. ASSUME NEW k \in K
        PROVE  c[k] = f[PartOf(S, m, k)] /\ PartOf(S, m, k) \in SUBSET S
    <3>1. PartOf(S, m, k) \in SUBSET S
      BY DEF PartOf
    <3>2. SumOver([x \in PartOf(S, m, k) |-> w[x]], PartOf(S, m, k)) = f[PartOf(S, m, k)]
      BY <1>2, <3>1, SumOfPart
    <3>. QED
      BY <3>1, <3>2
  <2>. QED
    BY <2>1
<1>5. PICK h : Sums(h, K, c) /\ h[K] = SumOver(c, K)
  BY SumIsAdded
<1>6. h[K] = f[PartIn(S, m, K)]
  BY <1>2, <1>3, <1>5, ClassSums
<1>7. PartIn(S, m, K) = S
  BY DEF PartIn
<1>. QED
  BY <1>2, <1>5, <1>6, <1>7

-----------------------------------------------------------------------------
(* What the ledger adds up.                                                *)

\* What a report adds up, as sums over its rows or calls.
LEMMA TotalOfCosts ==
  ASSUME NEW S
  PROVE  B!Total(LAMBDA r : r.cost, S) = SumOver([r \in S |-> r.cost], S)
<1> DEFINE w == [r \in S |-> r.cost]
           A(f) == [s \in SUBSET S |-> IF s = {} THEN 0 ELSE w[AnyOf(s)] + f[s \ {AnyOf(s)}]]
           T(f) == [s \in SUBSET S |-> IF s = {} THEN 0 ELSE AnyOf(s).cost + f[s \ {AnyOf(s)}]]
<1>1. \A f : A(f) = T(f)
  <2>1. \A s \in SUBSET S : s # {} => w[AnyOf(s)] = AnyOf(s).cost
    BY DEF AnyOf
  <2> HIDE DEF w
  <2>. QED
    BY <2>1
<1>2. SumOver(w, S) = (CHOOSE f : f = A(f))[S]
  BY DEF SumOver, IsAdding
<1>3. B!Total(LAMBDA r : r.cost, S) = (CHOOSE f : f = T(f))[S]
  BY DEF B!Total, B!MapThenSumSet, B!MapThenFoldSet, AnyOf
<1> HIDE DEF A, T
<1>. QED
  BY <1>1, <1>2, <1>3, Zenon

\* So for the input tokens of a report's rows.
LEMMA TotalOfInputs ==
  ASSUME NEW S
  PROVE  B!Total(LAMBDA r : r.usage.input, S) = SumOver([r \in S |-> r.usage.input], S)
<1> DEFINE w == [r \in S |-> r.usage.input]
           A(f) == [s \in SUBSET S |-> IF s = {} THEN 0 ELSE w[AnyOf(s)] + f[s \ {AnyOf(s)}]]
           T(f) == [s \in SUBSET S |-> IF s = {} THEN 0
                                        ELSE AnyOf(s).usage.input + f[s \ {AnyOf(s)}]]
<1>1. \A f : A(f) = T(f)
  <2>1. \A s \in SUBSET S : s # {} => w[AnyOf(s)] = AnyOf(s).usage.input
    BY DEF AnyOf
  <2> HIDE DEF w
  <2>. QED
    BY <2>1
<1>2. SumOver(w, S) = (CHOOSE f : f = A(f))[S]
  BY DEF SumOver, IsAdding
<1>3. B!Total(LAMBDA r : r.usage.input, S) = (CHOOSE f : f = T(f))[S]
  BY DEF B!Total, B!MapThenSumSet, B!MapThenFoldSet, AnyOf
<1> HIDE DEF A, T
<1>. QED
  BY <1>1, <1>2, <1>3, Zenon

\* So for their output tokens.
LEMMA TotalOfOutputs ==
  ASSUME NEW S
  PROVE  B!Total(LAMBDA r : r.usage.output, S) = SumOver([r \in S |-> r.usage.output], S)
<1> DEFINE w == [r \in S |-> r.usage.output]
           A(f) == [s \in SUBSET S |-> IF s = {} THEN 0 ELSE w[AnyOf(s)] + f[s \ {AnyOf(s)}]]
           T(f) == [s \in SUBSET S |-> IF s = {} THEN 0
                                        ELSE AnyOf(s).usage.output + f[s \ {AnyOf(s)}]]
<1>1. \A f : A(f) = T(f)
  <2>1. \A s \in SUBSET S : s # {} => w[AnyOf(s)] = AnyOf(s).usage.output
    BY DEF AnyOf
  <2> HIDE DEF w
  <2>. QED
    BY <2>1
<1>2. SumOver(w, S) = (CHOOSE f : f = A(f))[S]
  BY DEF SumOver, IsAdding
<1>3. B!Total(LAMBDA r : r.usage.output, S) = (CHOOSE f : f = T(f))[S]
  BY DEF B!Total, B!MapThenSumSet, B!MapThenFoldSet, AnyOf
<1> HIDE DEF A, T
<1>. QED
  BY <1>1, <1>2, <1>3, Zenon

\* So for what a report's promise adds up over the calls.
LEMMA TotalOfCalls ==
  ASSUME NEW s, NEW S
  PROVE  /\ B!Total(LAMBDA i : B!Due(s.calls[i].call), S)
              = SumOver([i \in S |-> B!Due(s.calls[i].call)], S)
         /\ B!Total(LAMBDA i : s.calls[i].call.usage.input, S)
              = SumOver([i \in S |-> s.calls[i].call.usage.input], S)
         /\ B!Total(LAMBDA i : s.calls[i].call.usage.output, S)
              = SumOver([i \in S |-> s.calls[i].call.usage.output], S)
<1> DEFINE A(w, f) == [u \in SUBSET S |-> IF u = {} THEN 0 ELSE w[AnyOf(u)] + f[u \ {AnyOf(u)}]]
           due == [i \in S |-> B!Due(s.calls[i].call)]
           in == [i \in S |-> s.calls[i].call.usage.input]
           out == [i \in S |-> s.calls[i].call.usage.output]
           Dues(f) == [u \in SUBSET S |-> IF u = {} THEN 0
                         ELSE B!Due(s.calls[AnyOf(u)].call) + f[u \ {AnyOf(u)}]]
           In(f) == [u \in SUBSET S |-> IF u = {} THEN 0
                       ELSE s.calls[AnyOf(u)].call.usage.input + f[u \ {AnyOf(u)}]]
           Out(f) == [u \in SUBSET S |-> IF u = {} THEN 0
                        ELSE s.calls[AnyOf(u)].call.usage.output + f[u \ {AnyOf(u)}]]
<1>1. \A f : A(due, f) = Dues(f) /\ A(in, f) = In(f) /\ A(out, f) = Out(f)
  <2>1. \A u \in SUBSET S : u # {} => /\ due[AnyOf(u)] = B!Due(s.calls[AnyOf(u)].call)
                                      /\ in[AnyOf(u)] = s.calls[AnyOf(u)].call.usage.input
                                      /\ out[AnyOf(u)] = s.calls[AnyOf(u)].call.usage.output
    BY DEF AnyOf
  <2> HIDE DEF due, in, out
  <2>. QED
    BY <2>1
<1>2. \A w : SumOver(w, S) = (CHOOSE f : f = A(w, f))[S]
  BY DEF SumOver, IsAdding
<1>3. B!Total(LAMBDA i : B!Due(s.calls[i].call), S) = (CHOOSE f : f = Dues(f))[S]
  BY DEF B!Total, B!MapThenSumSet, B!MapThenFoldSet, AnyOf
<1>4. B!Total(LAMBDA i : s.calls[i].call.usage.input, S) = (CHOOSE f : f = In(f))[S]
  BY DEF B!Total, B!MapThenSumSet, B!MapThenFoldSet, AnyOf
<1>5. B!Total(LAMBDA i : s.calls[i].call.usage.output, S) = (CHOOSE f : f = Out(f))[S]
  BY DEF B!Total, B!MapThenSumSet, B!MapThenFoldSet, AnyOf
<1> HIDE DEF A, Dues, In, Out, due, in, out
<1>6. (CHOOSE f : f = A(due, f)) = (CHOOSE f : f = Dues(f))
  BY <1>1, Zenon
<1>7. (CHOOSE f : f = A(in, f)) = (CHOOSE f : f = In(f))
  BY <1>1, Zenon
<1>8. (CHOOSE f : f = A(out, f)) = (CHOOSE f : f = Out(f))
  BY <1>1, Zenon
<1>9. /\ SumOver(due, S) = (CHOOSE f : f = A(due, f))[S]
      /\ SumOver(in, S) = (CHOOSE f : f = A(in, f))[S]
      /\ SumOver(out, S) = (CHOOSE f : f = A(out, f))[S]
  BY <1>2
<1>10. /\ B!Total(LAMBDA i : B!Due(s.calls[i].call), S) = SumOver(due, S)
       /\ B!Total(LAMBDA i : s.calls[i].call.usage.input, S) = SumOver(in, S)
       /\ B!Total(LAMBDA i : s.calls[i].call.usage.output, S) = SumOver(out, S)
  BY <1>3, <1>4, <1>5, <1>6, <1>7, <1>8, <1>9
<1>. QED
  BY <1>10 DEF due, in, out

Usages == [input : Nat, output : Nat, created : Nat, read : Nat]
Aliases == {"smart", "fast", "mock", "gpt"}
Models == {"claude", "haiku", "mock", "gpt"}
LedgerCall == [key : B!Keys, alias : Aliases, model : Models, usage : Usages]

\* A call on the books, which if priced cost what is due, its row, and its event.
Entry == {c \in [call : LedgerCall, cost : Nat \union {None}, day : Nat, healthy : BOOLEAN,
                 lost : BOOLEAN] :
            c.cost # None => c.cost = B!Due(c.call)}
Row == [id : Nat, key : B!Keys, app : {"atlas-gateway"}, model : Models, usage : Usages,
        cost : Nat, day : Nat]
Event == [key : B!Keys, record : Nat, cost : Nat]

LedgerSettings ==
  [auth_db : BOOLEAN, pool : {TRUE}, api_keys : SUBSET B!Keys, budget : BOOLEAN]
LedgerKeys == [{"k1", "k2"} -> [status : {"active", "revoked"}, expires : {2, None}]]
LedgerDb == [keys : LedgerKeys, aliases : SUBSET Aliases, records : SUBSET Row]

LedgerState ==
  [settings : LedgerSettings, db : LedgerDb, day : Nat, healthy : BOOLEAN, up : BOOLEAN,
   lost : BOOLEAN, calls : Seq(Entry), charged : [B!Keys -> Nat], events : Seq(Event)]

\* The priced calls, all or a tenant's since some day.
Paid(calls) == {i \in DOMAIN calls : calls[i].cost # None}
PaidSince(calls, key, since) ==
  {i \in Paid(calls) : calls[i].call.key = key /\ calls[i].day >= since}

\* A priced call's row.
RowOf(calls, i) ==
  [id |-> i - 1, key |-> calls[i].call.key, app |-> "atlas-gateway",
   model |-> calls[i].call.model, usage |-> calls[i].call.usage,
   cost |-> calls[i].cost, day |-> calls[i].day]

RowsOf(calls) == {RowOf(calls, i) : i \in Paid(calls)}

\* The calls that reached the budget, and what a tenant's come to.
Billed(budget, calls, key) ==
  {i \in PaidSince(calls, key, 1) : budget /\ ~ calls[i].lost}

BillOf(budget, calls, key) ==
  SumOver([i \in Billed(budget, calls, key) |-> calls[i].cost], Billed(budget, calls, key))

\* The rows are the priced calls, the charges the sums of the billed ones, and the
\* events are about rows.
OnBooks(s) ==
  /\ s \in LedgerState /\ s.day >= 1
  /\ \A i \in DOMAIN s.calls : s.calls[i].day \in 1 .. s.day
  /\ s.db.records = RowsOf(s.calls)
  /\ \A key \in B!Keys : s.charged[key] = BillOf(s.settings.budget, s.calls, key)
  /\ B!EventsAreRows(s)
  /\ \A i \in DOMAIN s.events : s.events[i].record < Len(s.calls)

\* One more call on the books.
OneMore(calls, c, more, n) ==
  /\ n \in Nat /\ n = Len(calls) + 1 /\ n \notin Paid(calls)
  /\ Paid(calls) \in SUBSET (1 .. Len(calls)) /\ Len(calls) \in Nat
  /\ more \in Seq(Entry) /\ Len(more) = n /\ DOMAIN more = 1 .. n
  /\ DOMAIN calls = 1 .. Len(calls)
  /\ c.cost = None => Paid(more) = Paid(calls)
  /\ c.cost # None => Paid(more) = Paid(calls) \union {n}
  /\ more[n] = c
  /\ \A i \in 1 .. Len(calls) : more[i] = calls[i] /\ calls[i] \in Entry

\* Appending is one more.
LEMMA PaidGrows ==
  ASSUME NEW calls \in Seq(Entry), NEW c \in Entry
  PROVE  OneMore(calls, c, Append(calls, c), Len(calls) + 1)
<1> DEFINE n == Len(calls) + 1
           more == Append(calls, c)
<1>1. /\ more \in Seq(Entry) /\ Len(more) = n /\ Len(calls) \in Nat
      /\ \A i \in 1 .. Len(calls) : more[i] = calls[i]
      /\ more[n] = c
  BY AppendIs
<1>2. DOMAIN calls = 1 .. Len(calls) /\ \A i \in 1 .. Len(calls) : calls[i] \in Entry
  OBVIOUS
<1> HIDE DEF more
<1>3. DOMAIN more = 1 .. n
  BY <1>1
<1>4. n \in Nat /\ n \notin 1 .. Len(calls) /\ 1 .. n = (1 .. Len(calls)) \union {n}
  BY <1>1
<1>5. Paid(calls) \in SUBSET (1 .. Len(calls))
  BY <1>2 DEF Paid
<1> HIDE DEF n
<1>6. \A i \in 1 .. Len(calls) : i \in Paid(more) <=> i \in Paid(calls)
  BY <1>1, <1>2, <1>3, <1>4 DEF Paid
<1>7. n \in Paid(more) <=> c.cost # None
  BY <1>1, <1>3, <1>4 DEF Paid
<1>8. Paid(more) \in SUBSET ((1 .. Len(calls)) \union {n})
  BY <1>3, <1>4 DEF Paid
<1>9. c.cost = None => Paid(more) = Paid(calls)
  BY <1>5, <1>6, <1>7, <1>8
<1>10. c.cost # None => Paid(more) = Paid(calls) \union {n}
  BY <1>5, <1>6, <1>7, <1>8
<1>. QED
  BY <1>1, <1>2, <1>3, <1>4, <1>5, <1>9, <1>10 DEF OneMore, n, more

\* One more paid call is one more row.
LEMMA RowsGrow ==
  ASSUME NEW calls, NEW c, NEW more, NEW n, OneMore(calls, c, more, n)
  PROVE  RowsOf(more) = IF c.cost = None THEN RowsOf(calls)
                        ELSE RowsOf(calls) \union {RowOf(more, n)}
<1>1. \A i \in Paid(calls) : RowOf(more, i) = RowOf(calls, i)
  BY DEF RowOf, OneMore
<1>2. {RowOf(more, i) : i \in Paid(calls)} = RowsOf(calls)
  BY <1>1 DEF RowsOf
<1>. QED
  BY <1>2 DEF RowsOf, OneMore

\* One more call that reaches the budget adds its price to its tenant's bill.
LEMMA BillGrows ==
  ASSUME NEW calls, NEW c \in Entry, NEW more, NEW n, OneMore(calls, c, more, n),
         NEW key, c.day >= 1, NEW budget \in BOOLEAN
  PROVE  /\ BillOf(budget, calls, key) \in Nat
         /\ BillOf(budget, more, key) = BillOf(budget, calls, key)
              + (IF c.cost = None \/ c.lost \/ ~ budget \/ c.call.key # key THEN 0 ELSE c.cost)
<1> DEFINE S == Billed(budget, calls, key)
           unbilled == c.cost = None \/ c.lost \/ ~ budget \/ c.call.key # key
           w == [i \in S |-> calls[i].cost]
<1>1. /\ n \notin Paid(calls) /\ Paid(calls) \in SUBSET (1 .. Len(calls))
      /\ c.cost = None => Paid(more) = Paid(calls)
      /\ c.cost # None => Paid(more) = Paid(calls) \union {n}
      /\ more[n] = c /\ more \in Seq(Entry) /\ n \in Nat /\ Len(calls) \in Nat
      /\ \A i \in 1 .. Len(calls) : more[i] = calls[i] /\ calls[i] \in Entry
  BY DEF OneMore
<1>2. /\ S \in SUBSET Paid(calls) /\ n \notin S /\ IsFiniteSet(S)
  <2>1. S \in SUBSET (1 .. Len(calls)) /\ Len(calls) \in Nat /\ S \in SUBSET Paid(calls)
    BY <1>1 DEF Billed, PaidSince
  <2> HIDE DEF S
  <2>2. IsFiniteSet(1 .. Len(calls))
    BY <2>1, FS_Interval
  <2>. QED
    BY <1>1, <2>1, <2>2, FS_Subset
<1>3. w \in [S -> Nat]
  BY <1>1 DEF Billed, PaidSince, Paid, Entry
<1>4. /\ unbilled => Billed(budget, more, key) = S
      /\ ~ unbilled => Billed(budget, more, key) = S \union {n}
  <2> DEFINE B2 == Billed(budget, more, key)
  <2>1. \A i \in Paid(calls) : i \in B2 <=> i \in S
    <3>1. \A i \in Paid(calls) : more[i] = calls[i]
      BY <1>1
    <3>2. \A i \in Paid(calls) : i \in Paid(more)
      BY <1>1
    <3>. QED
      BY <3>1, <3>2 DEF Billed, PaidSince
  <2>2. c.cost # None => (n \in B2 <=> ~ unbilled)
    BY <1>1 DEF Billed, PaidSince
  <2>3. B2 \in SUBSET Paid(more)
    BY DEF Billed, PaidSince
  <2>4. c.cost = None => unbilled
    OBVIOUS
  <2> HIDE DEF S, B2, unbilled
  <2>5. CASE c.cost = None
    BY <1>1, <1>2, <2>1, <2>3, <2>4, <2>5 DEF B2
  <2>6. CASE c.cost # None
    BY <1>1, <1>2, <2>1, <2>2, <2>3, <2>6 DEF B2
  <2>. QED
    BY <2>5, <2>6
<1>5. \A i \in S : more[i].cost = calls[i].cost
  BY <1>1, <1>2
<1> HIDE DEF S
<1>6. SumOver(w, S) \in Nat /\ BillOf(budget, calls, key) = SumOver(w, S)
  <2>1. PICK f : Sums(f, S, w) /\ f[S] = SumOver(w, S)
    <3> HIDE DEF w
    <3>. QED
      BY <1>2, <1>3, SumIsAdded
  <2>. QED
    BY <2>1 DEF Sums, BillOf, S
<1>7. CASE unbilled
  <2>1. [i \in S |-> more[i].cost] = w
    BY <1>5
  <2>. QED
    BY <1>4, <1>6, <1>7, <2>1 DEF BillOf
<1>8. CASE ~ unbilled
  <2> DEFINE v == [i \in S \union {n} |-> more[i].cost]
  <2>1. v \in [S \union {n} -> Nat] /\ v[n] = c.cost /\ c.cost \in Nat
    BY <1>1, <1>3, <1>5, <1>8 DEF Entry
  <2>2. [i \in S |-> v[i]] = w
    BY <1>5
  <2>3. BillOf(budget, more, key) = SumOver(v, S \union {n})
    BY <1>4, <1>8 DEF BillOf
  <2> HIDE DEF v, w
  <2>4. SumOver(v, S \union {n}) = v[n] + SumOver([i \in S |-> v[i]], S)
    BY <1>2, <2>1, SumGrows
  <2>5. BillOf(budget, more, key) = c.cost + SumOver(w, S)
    BY <2>1, <2>2, <2>3, <2>4
  <2>. QED
    BY <1>6, <1>8, <2>1, <2>5
<1>. QED
  BY <1>6, <1>7, <1>8

\* A call enters the books: its charge unless it is lost, and if it was priced its
\* row, and perhaps an event of it.
EventOf(c, n) == [key |-> c.call.key, record |-> n, cost |-> c.cost]

ChargeOf(budget, c) == IF c.cost = None \/ c.lost \/ ~ budget THEN 0 ELSE c.cost

Enters(s, c, out) ==
  /\ c \in Entry /\ c.day = s.day
  /\ out \in LedgerState /\ out.day = s.day /\ out.calls = Append(s.calls, c)
  /\ out.settings = s.settings
  /\ out.charged = [s.charged EXCEPT ![c.call.key] = @ + ChargeOf(s.settings.budget, c)]
  /\ out.db.records = IF c.cost = None THEN s.db.records
                      ELSE s.db.records \union {RowOf(out.calls, Len(s.calls) + 1)}
  /\ \/ out.events = s.events
     \/ c.cost # None /\ out.events = Append(s.events, EventOf(c, Len(s.calls)))

\* A call entered as Complete enters it keeps the books.
LEMMA EntersOnBooks ==
  ASSUME NEW s, OnBooks(s), NEW c, NEW out, Enters(s, c, out)
  PROVE  OnBooks(out)
<1> DEFINE n == Len(s.calls) + 1
<1>1. /\ s.calls \in Seq(Entry) /\ s.events \in Seq(Event) /\ s.day \in Nat /\ s.day >= 1
      /\ s.charged \in [B!Keys -> Nat]
  BY DEF OnBooks, LedgerState
<1>2. OneMore(s.calls, c, out.calls, n)
  BY <1>1, PaidGrows DEF Enters
<1>3. \A i \in DOMAIN out.calls : out.calls[i].day \in 1 .. out.day
  <2>1. /\ DOMAIN out.calls = 1 .. n /\ n = Len(s.calls) + 1 /\ Len(s.calls) \in Nat
        /\ out.calls[n] = c /\ DOMAIN s.calls = 1 .. Len(s.calls)
        /\ \A i \in 1 .. Len(s.calls) : out.calls[i] = s.calls[i]
    BY <1>2 DEF OneMore
  <2>2. c.day = s.day /\ out.day = s.day
    BY DEF Enters
  <2>3. \A i \in 1 .. Len(s.calls) : s.calls[i].day \in 1 .. s.day
    BY <2>1 DEF OnBooks
  <2> HIDE DEF n
  <2>4. \A i \in 1 .. n : i = n \/ i \in 1 .. Len(s.calls)
    BY <2>1
  <2>. QED
    BY <1>1, <2>1, <2>2, <2>3, <2>4
<1>4. out.db.records = RowsOf(out.calls)
  <2>1. s.db.records = RowsOf(s.calls)
    BY DEF OnBooks
  <2> HIDE DEF n
  <2>2. RowsOf(out.calls) = IF c.cost = None THEN RowsOf(s.calls)
                            ELSE RowsOf(s.calls) \union {RowOf(out.calls, n)}
    BY <1>2, RowsGrow
  <2>. QED
    BY <2>1, <2>2 DEF Enters, n
<1>5. ASSUME NEW key \in B!Keys
      PROVE  out.charged[key] = BillOf(out.settings.budget, out.calls, key)
  <2> DEFINE budget == s.settings.budget
  <2>1. c \in Entry /\ c.day >= 1 /\ budget \in BOOLEAN /\ out.settings.budget = budget
    BY <1>1 DEF Enters, OnBooks, LedgerState, LedgerSettings
  <2> HIDE DEF n
  <2>2. s.charged[key] = BillOf(budget, s.calls, key)
    BY DEF OnBooks
  <2>3. out.charged = [s.charged EXCEPT ![c.call.key]
                         = s.charged[c.call.key] + ChargeOf(budget, c)]
    BY DEF Enters
  <2> HIDE DEF budget
  <2>4. /\ BillOf(budget, s.calls, key) \in Nat
        /\ BillOf(budget, out.calls, key) = BillOf(budget, s.calls, key)
             + (IF c.cost = None \/ c.lost \/ ~ budget \/ c.call.key # key THEN 0 ELSE c.cost)
    BY <1>2, <2>1, BillGrows
  <2>5. c.call.key \in B!Keys
    BY <2>1 DEF Entry, LedgerCall
  <2>6. out.charged[key] = IF key = c.call.key THEN s.charged[key] + ChargeOf(budget, c)
                           ELSE s.charged[key]
    BY <1>1, <2>3, <2>5
  <2>7. CASE key = c.call.key
    BY <2>1, <2>2, <2>4, <2>6, <2>7 DEF ChargeOf
  <2>8. CASE key # c.call.key
    BY <2>1, <2>2, <2>4, <2>6, <2>8
  <2>. QED
    BY <2>7, <2>8
<1>6. B!EventsAreRows(out) /\ \A i \in DOMAIN out.events : out.events[i].record < Len(out.calls)
  <2>1. /\ Len(s.calls) \in Nat /\ Len(out.calls) = Len(s.calls) + 1
        /\ c.cost # None => RowOf(out.calls, n)
             = [id |-> Len(s.calls), key |-> c.call.key, app |-> "atlas-gateway",
                model |-> c.call.model, usage |-> c.call.usage, cost |-> c.cost, day |-> c.day]
    BY <1>2 DEF OneMore, RowOf
  <2>2. /\ s.db.records \subseteq out.db.records
        /\ c.cost # None => RowOf(out.calls, n) \in out.db.records
    BY DEF Enters
  <2>3. /\ \A i \in DOMAIN s.events :
             /\ s.events[i] \in Event /\ s.events[i].record < Len(s.calls)
             /\ \E r \in s.db.records : /\ r.id = s.events[i].record
                                        /\ r.key = s.events[i].key /\ r.cost = s.events[i].cost
        /\ \A i, j \in DOMAIN s.events : i < j => s.events[i].record < s.events[j].record
    BY <1>1 DEF OnBooks, B!EventsAreRows
  <2>4. CASE out.events = s.events
    <3>1. \A i \in DOMAIN s.events : s.events[i].record < Len(out.calls)
      BY <2>1, <2>3 DEF Event
    <3>. QED
      BY <2>2, <2>3, <2>4, <3>1 DEF B!EventsAreRows
  <2>5. CASE c.cost # None /\ out.events = Append(s.events, EventOf(c, Len(s.calls)))
    <3> DEFINE e == EventOf(c, Len(s.calls))
               m == Len(s.events) + 1
    <3>1. e \in Event /\ e.record = Len(s.calls) /\ e.key = c.call.key /\ e.cost = c.cost
      BY <2>1, <2>5 DEF Enters, Entry, LedgerCall, Event, EventOf
    <3> HIDE DEF e
    <3>2. /\ DOMAIN s.events = 1 .. Len(s.events) /\ Len(s.events) \in Nat
          /\ DOMAIN out.events = 1 .. m /\ m \in Nat
          /\ \A i \in 1 .. Len(s.events) : out.events[i] = s.events[i]
          /\ out.events[m] = e
      <4>1. out.events = Append(s.events, e)
        BY <2>5 DEF e
      <4>2. /\ Append(s.events, e) \in Seq(Event) /\ Len(Append(s.events, e)) = Len(s.events) + 1
            /\ \A i \in 1 .. Len(s.events) : Append(s.events, e)[i] = s.events[i]
            /\ Append(s.events, e)[Len(s.events) + 1] = e
        BY <1>1, <3>1, AppendIs
      <4>3. Len(s.events) \in Nat /\ DOMAIN s.events = 1 .. Len(s.events)
        BY <1>1
      <4>. QED
        BY <4>1, <4>2, <4>3
    <3>3. \A i \in 1 .. m : i = m \/ (i \in 1 .. Len(s.events) /\ i < m)
      BY <3>2
    <3> HIDE DEF m
    <3>4. ASSUME NEW i \in DOMAIN out.events
          PROVE  \E r \in out.db.records : /\ r.id = out.events[i].record
                                           /\ r.key = out.events[i].key /\ r.cost = out.events[i].cost
      <4>1. CASE i = m
        BY <2>1, <2>2, <2>5, <3>1, <3>2, <4>1
      <4>2. CASE i \in 1 .. Len(s.events)
        BY <2>2, <2>3, <3>2, <4>2
      <4>. QED
        BY <3>2, <3>3, <4>1, <4>2
    <3>5. ASSUME NEW i \in DOMAIN out.events PROVE out.events[i].record < Len(out.calls)
      BY <2>1, <2>3, <3>1, <3>2, <3>3 DEF Event
    <3>6. ASSUME NEW i \in DOMAIN out.events, NEW j \in DOMAIN out.events, i < j
          PROVE  out.events[i].record < out.events[j].record
      <4>1. i \in 1 .. Len(s.events)
        BY <3>2, <3>3, <3>6
      <4>. QED
        BY <2>3, <3>1, <3>2, <3>3, <3>6, <4>1
    <3>. QED
      BY <3>4, <3>5, <3>6 DEF B!EventsAreRows
  <2>. QED
    BY <2>4, <2>5 DEF Enters
<1>7. out \in LedgerState /\ out.day >= 1
  BY <1>1 DEF Enters
<1>. QED
  BY <1>3, <1>4, <1>5, <1>6, <1>7 DEF OnBooks

\* The calls of a ledger cost what is due, in whole cents of a million tokens, and
\* a stored cost is not rounded.
CostOf(call) == B!ComputeCost(call.usage, B!RatesFor(call))

Whole(call) ==
  /\ call \in LedgerCall /\ CostOf(call) \in Nat /\ B!Stored(CostOf(call)) = CostOf(call)
  /\ CostOf(call) = B!Due(call)

\* A cost of whole hundreds, which is what is due.
LEMMA WholeIs ==
  ASSUME NEW call \in LedgerCall, B!Due(call) \in Nat, B!Due(call) % 100 = 0,
         CostOf(call) = B!Due(call)
  PROVE  Whole(call)
<1> DEFINE due == B!Due(call)
<1>1. B!Stored(due) = due
  <2> HIDE DEF due
  <2>1. ASSUME NEW c \in Nat, c % 100 = 0
        PROVE  ((c + 50) \div 100) * 100 = c
    BY <2>1
  <2>2. due \in Nat /\ due % 100 = 0
    BY DEF due
  <2>. QED
    BY <2>1, <2>2 DEF B!Stored
<1>. QED
  BY <1>1 DEF Whole

\* What the aliases of the seed cost.
LEMMA RatesAre ==
  /\ \A call \in LedgerCall :
       /\ call.alias = "smart" => B!RatesFor(call) = [in |-> 300, out |-> 1500]
       /\ call.alias = "fast" => B!RatesFor(call) = [in |-> 100, out |-> 500]
       /\ call.alias \notin {"smart", "fast"} /\ call.model \notin {"smart", "fast"}
            => B!RatesFor(call) = [in |-> 0, out |-> 0]
<1>1. /\ DOMAIN B!RatesFromSeed = {"smart", "fast"}
      /\ B!RatesFromSeed["smart"] = [in |-> 300, out |-> 1500]
      /\ B!RatesFromSeed["fast"] = [in |-> 100, out |-> 500]
  BY DEF B!RatesFromSeed, B!AliasSeed, B!Rates
<1>2. B!ZeroRates = [in |-> 0, out |-> 0]
  BY DEF B!ZeroRates, B!Rates
<1>. QED
  BY <1>1, <1>2 DEF B!RatesFor

\* What is due under them.
LEMMA DueIs ==
  ASSUME NEW call \in LedgerCall, NEW u, u = call.usage
  PROVE  /\ call.alias = "smart" => B!Due(call) = 30000 * u.input + 150000 * u.output
                                                   + 37500 * u.created + 3000 * u.read
         /\ call.alias = "fast" => B!Due(call) = 10000 * u.input + 50000 * u.output
                                                  + 12500 * u.created + 1000 * u.read
         /\ call.alias \notin {"smart", "fast"} => B!Due(call) = 0
<1>1. /\ DOMAIN B!ListPrice = {"smart", "fast"}
      /\ B!ListPrice["smart"] = [input |-> 30000, output |-> 150000, created |-> 37500, read |-> 3000]
      /\ B!ListPrice["fast"] = [input |-> 10000, output |-> 50000, created |-> 12500, read |-> 1000]
  BY DEF B!ListPrice, B!Tokens
<1>. QED
  BY <1>1 DEF B!Due

\* No call of the ledger is rounded when its row is stored.
LEMMA CallsAreWhole ==
  ASSUME NEW letter \in DOMAIN B!Calls
  PROVE  Whole(B!Calls[letter])
<1>4. Whole(B!Calls.k1smart)
  <2> DEFINE call == B!Calls.k1smart
  <2>1. call = [key |-> "k1", alias |-> "smart", model |-> "claude",
                usage |-> [input |-> 2, output |-> 1, created |-> 0, read |-> 4]]
    BY DEF B!Calls, B!Call, B!Tokens
  <2> HIDE DEF call
  <2>2. call \in LedgerCall
    BY <2>1 DEF LedgerCall, Usages, Aliases, Models, B!Keys
  <2>3. B!RatesFor(call) = [in |-> 300, out |-> 1500]
    BY <2>1, <2>2, RatesAre
  <2>4. CostOf(call) = 222000
    BY <2>1, <2>3 DEF CostOf, B!ComputeCost
  <2>5. B!Due(call) = 222000
    BY <2>1, <2>2, DueIs
  <2>6. B!Due(call) \in Nat /\ B!Due(call) % 100 = 0
    BY <2>5
  <2>7. CostOf(call) = B!Due(call)
    BY <2>4, <2>5
  <2>8. Whole(call)
    BY <2>2, <2>6, <2>7, WholeIs
  <2>. QED
    BY <2>8 DEF call
<1>5. Whole(B!Calls.k1backup)
  <2> DEFINE call == B!Calls.k1backup
  <2>1. call = [key |-> "k1", alias |-> "smart", model |-> "gpt",
                usage |-> [input |-> 1, output |-> 1, created |-> 2, read |-> 0]]
    BY DEF B!Calls, B!Call, B!Tokens
  <2> HIDE DEF call
  <2>2. call \in LedgerCall
    BY <2>1 DEF LedgerCall, Usages, Aliases, Models, B!Keys
  <2>3. B!RatesFor(call) = [in |-> 300, out |-> 1500]
    BY <2>1, <2>2, RatesAre
  <2>4. CostOf(call) = 255000
    BY <2>1, <2>3 DEF CostOf, B!ComputeCost
  <2>5. B!Due(call) = 255000
    BY <2>1, <2>2, DueIs
  <2>6. B!Due(call) \in Nat /\ B!Due(call) % 100 = 0
    BY <2>5
  <2>7. CostOf(call) = B!Due(call)
    BY <2>4, <2>5
  <2>8. Whole(call)
    BY <2>2, <2>6, <2>7, WholeIs
  <2>. QED
    BY <2>8 DEF call
<1>6. Whole(B!Calls.k1direct)
  <2> DEFINE call == B!Calls.k1direct
  <2>1. call = [key |-> "k1", alias |-> "gpt", model |-> "gpt",
                usage |-> [input |-> 1, output |-> 2, created |-> 0, read |-> 0]]
    BY DEF B!Calls, B!Call, B!Tokens
  <2> HIDE DEF call
  <2>2. call \in LedgerCall
    BY <2>1 DEF LedgerCall, Usages, Aliases, Models, B!Keys
  <2>3. B!RatesFor(call) = [in |-> 0, out |-> 0]
    BY <2>1, <2>2, RatesAre
  <2>4. CostOf(call) = 0
    BY <2>1, <2>3 DEF CostOf, B!ComputeCost
  <2>5. B!Due(call) = 0
    BY <2>1, <2>2, DueIs
  <2>6. B!Due(call) \in Nat /\ B!Due(call) % 100 = 0
    BY <2>5
  <2>7. CostOf(call) = B!Due(call)
    BY <2>4, <2>5
  <2>8. Whole(call)
    BY <2>2, <2>6, <2>7, WholeIs
  <2>. QED
    BY <2>8 DEF call
<1>7. Whole(B!Calls.k2mock)
  <2> DEFINE call == B!Calls.k2mock
  <2>1. call = [key |-> "k2", alias |-> "mock", model |-> "mock",
                usage |-> [input |-> 2, output |-> 2, created |-> 0, read |-> 0]]
    BY DEF B!Calls, B!Call, B!Tokens
  <2> HIDE DEF call
  <2>2. call \in LedgerCall
    BY <2>1 DEF LedgerCall, Usages, Aliases, Models, B!Keys
  <2>3. B!RatesFor(call) = [in |-> 0, out |-> 0]
    BY <2>1, <2>2, RatesAre
  <2>4. CostOf(call) = 0
    BY <2>1, <2>3 DEF CostOf, B!ComputeCost
  <2>5. B!Due(call) = 0
    BY <2>1, <2>2, DueIs
  <2>6. B!Due(call) \in Nat /\ B!Due(call) % 100 = 0
    BY <2>5
  <2>7. CostOf(call) = B!Due(call)
    BY <2>4, <2>5
  <2>8. Whole(call)
    BY <2>2, <2>6, <2>7, WholeIs
  <2>. QED
    BY <2>8 DEF call
<1>8. Whole(B!Calls.k2fast)
  <2> DEFINE call == B!Calls.k2fast
  <2>1. call = [key |-> "k2", alias |-> "fast", model |-> "haiku",
                usage |-> [input |-> 3, output |-> 1, created |-> 0, read |-> 0]]
    BY DEF B!Calls, B!Call, B!Tokens
  <2> HIDE DEF call
  <2>2. call \in LedgerCall
    BY <2>1 DEF LedgerCall, Usages, Aliases, Models, B!Keys
  <2>3. B!RatesFor(call) = [in |-> 100, out |-> 500]
    BY <2>1, <2>2, RatesAre
  <2>4. CostOf(call) = 80000
    BY <2>1, <2>3 DEF CostOf, B!ComputeCost
  <2>5. B!Due(call) = 80000
    BY <2>1, <2>2, DueIs
  <2>6. B!Due(call) \in Nat /\ B!Due(call) % 100 = 0
    BY <2>5
  <2>7. CostOf(call) = B!Due(call)
    BY <2>4, <2>5
  <2>8. Whole(call)
    BY <2>2, <2>6, <2>7, WholeIs
  <2>. QED
    BY <2>8 DEF call
<1>9. Whole(B!Calls.ghost)
  <2> DEFINE call == B!Calls.ghost
  <2>1. call = [key |-> "ghost", alias |-> "smart", model |-> "claude",
                usage |-> [input |-> 1, output |-> 1, created |-> 0, read |-> 0]]
    BY DEF B!Calls, B!Call, B!Tokens
  <2> HIDE DEF call
  <2>2. call \in LedgerCall
    BY <2>1 DEF LedgerCall, Usages, Aliases, Models, B!Keys
  <2>3. B!RatesFor(call) = [in |-> 300, out |-> 1500]
    BY <2>1, <2>2, RatesAre
  <2>4. CostOf(call) = 180000
    BY <2>1, <2>3 DEF CostOf, B!ComputeCost
  <2>5. B!Due(call) = 180000
    BY <2>1, <2>2, DueIs
  <2>6. B!Due(call) \in Nat /\ B!Due(call) % 100 = 0
    BY <2>5
  <2>7. CostOf(call) = B!Due(call)
    BY <2>4, <2>5
  <2>8. Whole(call)
    BY <2>2, <2>6, <2>7, WholeIs
  <2>. QED
    BY <2>8 DEF call
<1>10. letter \in {"k1smart", "k1backup", "k1direct", "k2mock", "k2fast", "ghost"}
  BY DEF B!Calls
<1>. QED
  BY <1>4, <1>5, <1>6, <1>7, <1>8, <1>9, <1>10

\* A served call enters the books.
LEMMA CompleteKeeps ==
  ASSUME None \notin Nat, NEW s, OnBooks(s), NEW call, Whole(call)
  PROVE  OnBooks(B!Complete(s, call))
<1> DEFINE done == B!Record(s, call, s.up)
           c == [call |-> call, cost |-> done.cost, day |-> s.day, healthy |-> s.healthy,
                 lost |-> s.lost]
           charge == IF done.cost = None \/ s.lost \/ ~ s.settings.budget THEN 0 ELSE done.cost
           out == [s EXCEPT !.db = done.db,
                            !.events = @ \o done.events,
                            !.charged[call.key] = @ + charge,
                            !.lost = FALSE,
                            !.calls = Append(@, c)]
           n == Len(s.calls)
           row == [id |-> n, key |-> call.key, app |-> "atlas-gateway",
                   model |-> call.model, usage |-> call.usage, cost |-> CostOf(call), day |-> s.day]
           event == [key |-> call.key, record |-> n, cost |-> CostOf(call)]
<1>0. s \in LedgerState /\ s.db.records = RowsOf(s.calls)
  BY DEF OnBooks
<1>1. /\ s.calls \in Seq(Entry) /\ s.events \in Seq(Event) /\ n \in Nat
      /\ s.day \in Nat /\ s.healthy \in BOOLEAN /\ s.charged \in [B!Keys -> Nat]
      /\ s.db \in LedgerDb /\ s.db.records = RowsOf(s.calls)
      /\ s.lost \in BOOLEAN /\ s.settings.budget \in BOOLEAN
      /\ s = [settings |-> s.settings, db |-> s.db, day |-> s.day, healthy |-> s.healthy,
              up |-> s.up, lost |-> s.lost, calls |-> s.calls, charged |-> s.charged,
              events |-> s.events]
  <2>1. /\ s.calls \in Seq(Entry) /\ s.events \in Seq(Event)
        /\ s.day \in Nat /\ s.healthy \in BOOLEAN /\ s.charged \in [B!Keys -> Nat]
        /\ s.db \in LedgerDb /\ s.lost \in BOOLEAN /\ s.settings.budget \in BOOLEAN
    BY <1>0 DEF LedgerState, LedgerSettings
  <2>2. s = [settings |-> s.settings, db |-> s.db, day |-> s.day, healthy |-> s.healthy,
             up |-> s.up, lost |-> s.lost, calls |-> s.calls, charged |-> s.charged,
              events |-> s.events]
    BY <1>0 DEF LedgerState
  <2>3. n \in Nat
    BY <2>1
  <2>. QED
    BY <1>0, <2>1, <2>2, <2>3
<1>2. \A old \in s.db.records : old.id # n
  <2>1. \A i \in Paid(s.calls) : i \in 1 .. n /\ RowOf(s.calls, i).id = i - 1
    BY <1>1 DEF Paid, RowOf
  <2>2. \A i \in 1 .. n : i - 1 # n
    BY <1>1
  <2>. QED
    BY <1>1, <2>1, <2>2 DEF RowsOf
<1>3. /\ call \in LedgerCall /\ CostOf(call) \in Nat /\ B!Stored(CostOf(call)) = CostOf(call)
      /\ CostOf(call) = B!Due(call)
  BY DEF Whole
<1>4. \/ /\ done.cost = None /\ done.db = s.db /\ done.events = <<>>
      \/ /\ done.cost = CostOf(call)
         /\ done.db = [s.db EXCEPT !.records = @ \union {row}]
         /\ done.events \in {<<>>, <<event>>}
  <2> DEFINE r == B!ToRecord(n, call)
  <2>1. /\ r.id = n /\ r.key = call.key /\ r.app = "atlas-gateway" /\ r.model = call.model
        /\ r.usage = call.usage /\ r.cost = CostOf(call)
    BY DEF B!ToRecord, CostOf
  <2>2. done = IF s.healthy /\ B!Admissible(s.db, r)
               THEN [db |-> B!Insert(s.db, r, s.day), cost |-> r.cost,
                     events |-> IF s.up THEN <<B!FromRecord(r)>> ELSE <<>>]
               ELSE [db |-> s.db, cost |-> None, events |-> <<>>]
    BY DEF B!Record
  <2> HIDE DEF r, done
  <2>3. B!FromRecord(r) = event
    BY <2>1 DEF B!FromRecord
  <2>4. B!Insert(s.db, r, s.day) = [s.db EXCEPT !.records = @ \union {row}]
    BY <1>2, <1>3, <2>1 DEF B!Insert
  <2>. QED
    BY <2>1, <2>2, <2>3, <2>4
<1>5. CASE B!Complete(s, call) = s
  BY <1>5
<1>6. CASE B!Complete(s, call) = out
  <2>1. /\ c \in Entry /\ c.day = s.day /\ c.call = call /\ c.cost = done.cost
        /\ c.lost = s.lost
    BY <1>1, <1>3, <1>4 DEF Entry
  <2> HIDE DEF c, charge
  <2>2. /\ out.day = s.day /\ out.calls = Append(s.calls, c) /\ out.db = done.db
        /\ out.events = s.events \o done.events
        /\ out.charged = [s.charged EXCEPT ![call.key] = @ + charge]
        /\ out.lost = FALSE
        /\ out.settings = s.settings /\ out.healthy = s.healthy /\ out.up = s.up
        /\ out = [settings |-> out.settings, db |-> out.db, day |-> out.day,
                  healthy |-> out.healthy, up |-> out.up, lost |-> out.lost, calls |-> out.calls,
                  charged |-> out.charged, events |-> out.events]
    <3>1. out = [s EXCEPT !.db = done.db, !.events = s.events \o done.events,
                          !.charged = [s.charged EXCEPT ![call.key] = @ + charge],
                          !.lost = FALSE, !.calls = Append(s.calls, c)]
      OBVIOUS
    <3> HIDE DEF done, out
    <3>2. out = [settings |-> s.settings, db |-> done.db, day |-> s.day, healthy |-> s.healthy,
                 up |-> s.up, lost |-> FALSE, calls |-> Append(s.calls, c),
                 charged |-> [s.charged EXCEPT ![call.key] = @ + charge],
                 events |-> s.events \o done.events]
      BY <1>1, <3>1
    <3>. QED
      BY <2>1, <3>2
  <2>12. charge = ChargeOf(s.settings.budget, c)
    BY <2>1 DEF charge, ChargeOf
  <2> HIDE DEF out, done
  <2>3. OneMore(s.calls, c, out.calls, n + 1)
    BY <1>1, <2>1, <2>2, PaidGrows
  <2>4. RowOf(out.calls, n + 1) = IF c.cost = None THEN RowOf(out.calls, n + 1) ELSE row
    BY <1>1, <1>4, <2>1, <2>3 DEF OneMore, RowOf
  <2>5. \/ out.events = s.events
        \/ c.cost # None /\ out.events = Append(s.events, EventOf(c, n))
    <3>1. CASE done.events = <<>>
      BY <1>1, <2>2, <3>1
    <3>2. CASE done.events # <<>>
      <4>1. done.events = <<event>> /\ c.cost = CostOf(call) /\ c.cost # None
        BY <1>3, <1>4, <2>1, <3>2
      <4>2. EventOf(c, n) = event
        BY <2>1, <4>1 DEF EventOf
      <4>3. event \in Event
        BY <1>1, <1>3 DEF Event, LedgerCall
      <4> HIDE DEF event
      <4>4. s.events \o <<event>> = Append(s.events, event)
        BY <1>1, <4>3
      <4>. QED
        BY <2>2, <4>1, <4>2, <4>4
    <3>. QED
      BY <3>1, <3>2
  <2>6. row \in Row
    BY <1>1, <1>3 DEF Row, LedgerCall
  <2>7. /\ out.db.records = IF c.cost = None THEN s.db.records
                            ELSE s.db.records \union {RowOf(out.calls, n + 1)}
        /\ out.db \in LedgerDb
    <3>1. /\ s.db \in LedgerDb
          /\ [s.db EXCEPT !.records = @ \union {row}] \in LedgerDb
          /\ [s.db EXCEPT !.records = @ \union {row}].records = s.db.records \union {row}
      <4> HIDE DEF row
      <4>. QED
        BY <1>1, <2>6 DEF LedgerDb
    <3>2. CASE done.cost = None /\ done.db = s.db
      BY <2>1, <2>2, <3>1, <3>2
    <3>3. CASE done.cost = CostOf(call) /\ done.db = [s.db EXCEPT !.records = @ \union {row}]
      <4> HIDE DEF row
      <4>1. c.cost # None
        BY <1>3, <2>1, <3>3
      <4>. QED
        BY <2>1, <2>2, <2>4, <2>6, <3>1, <3>3, <4>1
    <3>. QED
      BY <1>4, <3>2, <3>3
  <2>8. out.charged \in [B!Keys -> Nat] /\ call.key \in B!Keys
    <3>1. s.charged \in [B!Keys -> Nat] /\ call.key \in B!Keys /\ c.cost \in Nat \union {None}
      BY <1>1, <1>3, <2>1 DEF LedgerCall, Entry
    <3>2. charge \in Nat
      BY <2>12, <3>1 DEF ChargeOf
    <3>. QED
      BY <2>2, <3>1, <3>2
  <2>9. out.events \in Seq(Event)
    <3>1. CASE out.events = s.events
      BY <1>1, <3>1
    <3>2. CASE c.cost # None /\ out.events = Append(s.events, EventOf(c, n))
      <4>1. EventOf(c, n) \in Event
        BY <1>1, <2>1, <2>8, <3>2 DEF EventOf, Event, Entry
      <4>. QED
        BY <1>1, <3>2, <4>1
    <3>. QED
      BY <2>5, <3>1, <3>2
  <2>10. out \in LedgerState
    <3>1. out.calls \in Seq(Entry)
      BY <2>3 DEF OneMore
    <3>. QED
      BY <1>0, <1>1, <2>2, <2>7, <2>8, <2>9, <3>1 DEF LedgerState
  <2>11. Enters(s, c, out)
    BY <2>1, <2>2, <2>5, <2>7, <2>10, <2>12 DEF Enters
  <2>. QED
    BY <1>6, <2>11, EntersOnBooks
<1>. QED
  BY <1>5, <1>6 DEF B!Complete

\* What leaves the books alone.
LEMMA UntouchedOnBooks ==
  ASSUME NEW s, OnBooks(s), NEW out \in LedgerState,
         out.calls = s.calls, out.charged = s.charged, out.events = s.events,
         out.db.records = s.db.records, out.day >= s.day, out.settings = s.settings
  PROVE  OnBooks(out)
<1>1. s.day \in Nat /\ s.day >= 1 /\ out.day \in Nat
  BY DEF OnBooks, LedgerState
<1>2. \A i \in DOMAIN out.calls : out.calls[i].day \in 1 .. out.day
  BY <1>1 DEF OnBooks
<1>3. B!EventsAreRows(out)
  BY DEF OnBooks, B!EventsAreRows
<1>. QED
  BY <1>1, <1>2, <1>3 DEF OnBooks

\* Whatever a letter of the ledger does keeps the books.
LEMMA ActKeeps ==
  ASSUME None \notin Nat, NEW s, OnBooks(s), NEW letter \in Alphabet.ledger
  PROVE  OnBooks(B!Act(s, letter))
<1>1. /\ s \in LedgerState /\ s.day \in Nat /\ s.healthy \in BOOLEAN /\ s.up \in BOOLEAN
      /\ s.db \in LedgerDb /\ s.lost \in BOOLEAN
      /\ s = [settings |-> s.settings, db |-> s.db, day |-> s.day, healthy |-> s.healthy,
              up |-> s.up, lost |-> s.lost, calls |-> s.calls, charged |-> s.charged,
               events |-> s.events]
  BY DEF OnBooks, LedgerState
<1>2. CASE letter = "day"
  <2> DEFINE out == [s EXCEPT !.day = @ + 1]
  <2>1. B!Act(s, letter) = out
    BY <1>2 DEF B!Act
  <2>2. out = [settings |-> s.settings, db |-> s.db, day |-> s.day + 1, healthy |-> s.healthy,
                up |-> s.up, lost |-> s.lost, calls |-> s.calls, charged |-> s.charged,
               events |-> s.events]
    BY <1>1
  <2>3. /\ s.settings \in LedgerSettings /\ s.calls \in Seq(Entry)
        /\ s.charged \in [B!Keys -> Nat] /\ s.events \in Seq(Event)
    BY <1>1 DEF LedgerState
  <2> HIDE DEF out
  <2>4. /\ out \in LedgerState /\ out.day >= s.day
        /\ out.calls = s.calls /\ out.charged = s.charged /\ out.events = s.events
        /\ out.db.records = s.db.records /\ out.settings = s.settings
    BY <1>1, <2>2, <2>3 DEF LedgerState
  <2>. QED
    BY <2>1, <2>4, UntouchedOnBooks
<1>3. CASE letter = "revoke"
  <2> DEFINE keys == [s.db.keys EXCEPT !["k1"] = [@ EXCEPT !.status = "revoked"]]
             db == [s.db EXCEPT !.keys = keys]
             out == [s EXCEPT !.db = db]
  <2>1. B!Act(s, letter) = out
    BY <1>3 DEF B!Act
  <2>2. s.db.keys \in LedgerKeys
    BY <1>1 DEF LedgerDb
  <2>3. keys \in LedgerKeys
    BY <2>2 DEF LedgerKeys
  <2> HIDE DEF keys
  <2>4. db \in LedgerDb /\ db.records = s.db.records
    BY <1>1, <2>3 DEF LedgerDb
  <2> HIDE DEF db
  <2>5. s \in LedgerState
    BY <1>1
  <2>6. out \in LedgerState
    BY <2>4, <2>5 DEF LedgerState
  <2>7. /\ out.day >= s.day /\ out.calls = s.calls /\ out.charged = s.charged
        /\ out.events = s.events /\ out.db.records = s.db.records
        /\ out.settings = s.settings
    BY <2>4, <2>5 DEF LedgerState
  <2> HIDE DEF out
  <2>. QED
    BY <2>1, <2>6, <2>7, UntouchedOnBooks
<1>4. CASE letter = "database"
  <2> DEFINE out == [s EXCEPT !.healthy = ~ @]
  <2>1. B!Act(s, letter) = out
    BY <1>4 DEF B!Act
  <2>2. out = [settings |-> s.settings, db |-> s.db, day |-> s.day, healthy |-> ~ s.healthy,
                up |-> s.up, lost |-> s.lost, calls |-> s.calls, charged |-> s.charged,
               events |-> s.events]
    BY <1>1
  <2>3. /\ s.settings \in LedgerSettings /\ s.calls \in Seq(Entry)
        /\ s.charged \in [B!Keys -> Nat] /\ s.events \in Seq(Event)
    BY <1>1 DEF LedgerState
  <2> HIDE DEF out
  <2>4. /\ out \in LedgerState /\ out.day >= s.day
        /\ out.calls = s.calls /\ out.charged = s.charged /\ out.events = s.events
        /\ out.db.records = s.db.records /\ out.settings = s.settings
    BY <1>1, <2>2, <2>3 DEF LedgerState
  <2>. QED
    BY <2>1, <2>4, UntouchedOnBooks
<1>5. CASE letter = "broker"
  <2> DEFINE out == [s EXCEPT !.up = ~ @]
  <2>1. B!Act(s, letter) = out
    BY <1>5 DEF B!Act
  <2>2. out = [settings |-> s.settings, db |-> s.db, day |-> s.day, healthy |-> s.healthy,
                up |-> ~ s.up, lost |-> s.lost, calls |-> s.calls, charged |-> s.charged,
               events |-> s.events]
    BY <1>1
  <2>3. /\ s.settings \in LedgerSettings /\ s.calls \in Seq(Entry)
        /\ s.charged \in [B!Keys -> Nat] /\ s.events \in Seq(Event)
    BY <1>1 DEF LedgerState
  <2> HIDE DEF out
  <2>4. /\ out \in LedgerState /\ out.day >= s.day
        /\ out.calls = s.calls /\ out.charged = s.charged /\ out.events = s.events
        /\ out.db.records = s.db.records /\ out.settings = s.settings
    BY <1>1, <2>2, <2>3 DEF LedgerState
  <2>. QED
    BY <2>1, <2>4, UntouchedOnBooks
<1>6. CASE letter = "lost"
  <2> DEFINE out == [s EXCEPT !.lost = TRUE]
  <2>1. B!Act(s, letter) = out
    BY <1>6 DEF B!Act
  <2>2. out \in LedgerState
    BY <1>1 DEF LedgerState
  <2>3. /\ out.day >= s.day /\ out.calls = s.calls /\ out.charged = s.charged
        /\ out.events = s.events /\ out.db.records = s.db.records
        /\ out.settings = s.settings
    BY <1>1 DEF LedgerState
  <2> HIDE DEF out
  <2>. QED
    BY <2>1, <2>2, <2>3, UntouchedOnBooks
<1>7. CASE letter \in {"k1smart", "k1backup", "k1direct", "k2fast", "k2mock", "ghost"}
  <2>1. letter \in DOMAIN B!Calls
    BY <1>7 DEF B!Calls
  <2>2. Whole(B!Calls[letter])
    BY <2>1, CallsAreWhole
  <2>3. B!Act(s, letter) = B!Complete(s, B!Calls[letter])
    BY <1>7 DEF B!Act
  <2>. QED
    BY <2>2, <2>3, CompleteKeeps
<1>. QED
  BY <1>2, <1>3, <1>4, <1>5, <1>6, <1>7 DEF Alphabet

\* The books as they are opened.
LEMMA OpenedOnBooks ==
  ASSUME NEW authDb \in BOOLEAN, NEW budget \in BOOLEAN
  PROVE  OnBooks(B!Opened(authDb, budget))
<1> DEFINE s == B!Opened(authDb, budget)
<1>1. /\ s.calls = <<>> /\ s.events = <<>> /\ s.db.records = {} /\ s.day = 1
      /\ s.charged = [k \in B!Keys |-> 0]
  BY DEF B!Opened
<1>2. s \in LedgerState
  <2>1. s.settings \in LedgerSettings
    BY DEF B!Opened, LedgerSettings
  <2>2. s.db.keys \in LedgerKeys
    BY DEF B!Opened, LedgerKeys
  <2>3. s.db.aliases \in SUBSET Aliases
    BY DEF B!Opened, B!SeedAliases, B!AliasSeed, Aliases
  <2>4. s.db \in LedgerDb
    BY <1>1, <2>2, <2>3 DEF B!Opened, LedgerDb
  <2>5. s.charged \in [B!Keys -> Nat] /\ s.calls \in Seq(Entry) /\ s.events \in Seq(Event)
    BY <1>1
  <2>. QED
    BY <1>1, <2>1, <2>4, <2>5 DEF B!Opened, LedgerState
<1> HIDE DEF s
<1>3. Paid(s.calls) = {} /\ RowsOf(s.calls) = {}
  BY <1>1 DEF Paid, RowsOf
<1>4. ASSUME NEW key \in B!Keys PROVE s.charged[key] = BillOf(s.settings.budget, s.calls, key)
  <2> DEFINE S == Billed(s.settings.budget, s.calls, key)
             w == [i \in S |-> s.calls[i].cost]
  <2>1. S = {} /\ IsFiniteSet(S) /\ w \in [S -> Nat]
    <3>1. S = {}
      BY <1>3 DEF Billed, PaidSince
    <3>. QED
      BY <3>1, FS_EmptySet
  <2>2. BillOf(s.settings.budget, s.calls, key) = SumOver(w, S)
    BY DEF BillOf
  <2> HIDE DEF S, w
  <2>3. PICK f : Sums(f, S, w) /\ f[S] = SumOver(w, S)
    BY <2>1, SumIsAdded
  <2>4. f[S] = 0
    BY <2>1, <2>3 DEF Sums
  <2>. QED
    BY <1>1, <2>2, <2>3, <2>4
<1>5. B!EventsAreRows(s)
  BY <1>1 DEF B!EventsAreRows
<1>. QED
  BY <1>1, <1>2, <1>3, <1>4, <1>5 DEF OnBooks, s

\* A ledger is on the books.
LEMMA LedgerOnBooks ==
  ASSUME None \notin Nat, NEW authDb \in BOOLEAN, NEW budget \in BOOLEAN,
         NEW letters \in Seq(Alphabet.ledger)
  PROVE  OnBooks(B!Ledger(authDb, budget, letters))
<1> DEFINE Acc == {s \in LedgerState : OnBooks(s)}
           Letter == Alphabet.ledger
           last == Len(letters)
           first == B!Opened(authDb, budget)
           step == [n \in 1 .. last |-> [s \in Acc |-> B!Act(s, letters[n])]]
           Is(f) == f = [u \in SUBSET (DOMAIN letters) |->
                           IF u = {} THEN first ELSE B!Act(f[u \ {Max(u)}], letters[Max(u)])]
           g == CHOOSE f : Is(f)
<1>1. last \in Nat /\ DOMAIN letters = 1 .. last /\ \A n \in 1 .. last : letters[n] \in Letter
  OBVIOUS
<1>2. B!Ledger(authDb, budget, letters) = g[DOMAIN letters]
  BY DEF B!Ledger, B!FoldLeft, B!MapThenFoldSet, B!Max, Max
<1> HIDE DEF last
<1>3. \A s : OnBooks(s) => s \in LedgerState
  BY DEF OnBooks
<1>4. ASSUME NEW n \in 1 .. last, NEW s \in Acc PROVE B!Act(s, letters[n]) \in Acc
  <2>1. OnBooks(s) /\ letters[n] \in Alphabet.ledger
    BY <1>1
  <2>2. OnBooks(B!Act(s, letters[n]))
    BY <2>1, ActKeeps
  <2>. QED
    BY <1>3, <2>2
<1>5. step \in [1 .. last -> [Acc -> Acc]]
  BY <1>4
<1>6. first \in Acc
  BY <1>3, OpenedOnBooks
<1> HIDE DEF Acc, first
<1>7. PICK f : IsFoldIn(Acc, f, step, last, first)
  <2> HIDE DEF step
  <2>. QED
    BY <1>1, <1>5, <1>6, FoldExists
<1>8. Is(f)
  <2>1. f = [u \in SUBSET (1 .. last) |-> IF u = {} THEN first ELSE step[Max(u)][f[u \ {Max(u)}]]]
    BY <1>7 DEF IsFoldIn, IsFold
  <2>2. ASSUME NEW u \in SUBSET (1 .. last), u # {}
        PROVE  step[Max(u)][f[u \ {Max(u)}]] = B!Act(f[u \ {Max(u)}], letters[Max(u)])
    <3>1. f[u \ {Max(u)}] \in Acc /\ Max(u) \in 1 .. last
      BY <1>1, <1>7, <2>2, MaxIsIn DEF IsFoldIn
    <3>. QED
      BY <3>1
  <2> HIDE DEF step
  <2>. QED
    BY <1>1, <2>1, <2>2
<1>9. Is(g)
  <2> HIDE DEF Is
  <2>. QED
    BY <1>8, Zenon
<1> HIDE DEF g, step
<1>10. ASSUME NEW n \in 1 .. last PROVE g[1 .. n] = B!Act(g[1 .. (n - 1)], letters[n])
  <2>1. /\ 1 .. n \in SUBSET (1 .. last) /\ 1 .. n # {}
        /\ Max(1 .. n) = n /\ (1 .. n) \ {n} = 1 .. (n - 1)
    BY <1>1, FirstNumbers
  <2>. QED
    BY <1>1, <1>9, <2>1
<1>11. g[1 .. 0] = first
  <2>1. 1 .. 0 = {} /\ {} \in SUBSET (1 .. last)
    OBVIOUS
  <2>. QED
    BY <1>1, <1>9, <2>1
<1> HIDE DEF Is
<1> DEFINE T == {n \in Nat : n <= last => g[1 .. n] \in Acc}
<1>12. 0 \in T
  BY <1>6, <1>11
<1>13. ASSUME NEW n \in T PROVE n + 1 \in T
  <2> SUFFICES ASSUME n + 1 <= last PROVE g[1 .. (n + 1)] \in Acc
    OBVIOUS
  <2>1. PICK k \in 1 .. last : k = n + 1 /\ k - 1 = n
    BY <1>1
  <2>2. g[1 .. (k - 1)] \in Acc
    BY <1>1, <2>1
  <2>3. B!Act(g[1 .. (k - 1)], letters[k]) \in Acc
    BY <1>4, <2>2
  <2>. QED
    BY <1>10, <2>1, <2>3
<1>14. last \in T
  <2> HIDE DEF T
  <2>1. T = Nat
    BY <1>12, <1>13, SetInduction DEF T
  <2>. QED
    BY <1>1, <2>1
<1>. QED
  BY <1>1, <1>2, <1>14 DEF Acc

-----------------------------------------------------------------------------
(* Reports.                                                                *)

\* Dearest first.
Dearest(q) == \A i, j \in DOMAIN q : i < j => q[i].cost >= q[j].cost

\* Lines of a report in some order.
Lists(q, R) ==
  /\ q \in [1 .. Cardinality(R) -> R]
  /\ \A i, j \in DOMAIN q : i # j => q[i] # q[j]

\* SetToSeqs makes the lists of a set.
LEMMA ListsAreSeqs ==
  ASSUME NEW R, NEW q
  PROVE  q \in B!SetToSeqs(R) <=> Lists(q, R)
<1>1. B!Cardinality(R) = Cardinality(R)
  BY DEF B!Cardinality, Cardinality
<1>. QED
  BY <1>1 DEF B!SetToSeqs, Lists

\* Finitely many lines with costs can be put in order.
LEMMA DearestExists ==
  ASSUME NEW R, IsFiniteSet(R), \A r \in R : r.cost \in Nat
  PROVE  \E q : Lists(q, R) /\ Dearest(q)
<1> DEFINE K == {k \in Nat : \A T \in SUBSET R : Cardinality(T) = k =>
                               \E q : Lists(q, T) /\ Dearest(q)}
<1>0. \A T \in SUBSET R : IsFiniteSet(T) /\ Cardinality(T) \in Nat
  BY FS_Subset, FS_CardinalityType
<1>1. 0 \in K
  <2> SUFFICES ASSUME NEW T \in SUBSET R, Cardinality(T) = 0
               PROVE  \E q : Lists(q, T) /\ Dearest(q)
    OBVIOUS
  <2> DEFINE q == [i \in 1 .. 0 |-> i]
  <2>1. 1 .. 0 = {}
    OBVIOUS
  <2>2. q \in [1 .. 0 -> T] /\ DOMAIN q = {}
    BY <2>1
  <2> HIDE DEF q
  <2>3. Lists(q, T) /\ Dearest(q)
    BY <2>2 DEF Lists, Dearest
  <2>. QED
    BY <2>3
<1>2. ASSUME NEW k \in K PROVE k + 1 \in K
  <2> SUFFICES ASSUME NEW T \in SUBSET R, Cardinality(T) = k + 1
               PROVE  \E q : Lists(q, T) /\ Dearest(q)
    OBVIOUS
  <2> DEFINE C == {r.cost : r \in T}
  <2>1. C \in SUBSET Nat /\ C # {}
    <3>1. T # {}
      <4>1. k \in Nat /\ k + 1 # 0
        OBVIOUS
      <4>. QED
        BY <4>1, FS_EmptySet
    <3>. QED
      BY <3>1
  <2> HIDE DEF C
  <2>2. PICK x \in C : \A y \in C : x <= y
    BY <2>1, Least
  <2>3. PICK m \in T : m.cost = x
    BY DEF C
  <2>4. \A r \in T : r.cost \in Nat /\ m.cost <= r.cost
    BY <2>2, <2>3 DEF C
  <2> DEFINE U == T \ {m}
  <2>5. U \in SUBSET R /\ Cardinality(U) = k
    <3>1. Cardinality(U) = Cardinality(T) - 1
      BY <1>0, <2>3, FS_RemoveElement
    <3>. QED
      BY <3>1
  <2>6. PICK p : Lists(p, U) /\ Dearest(p)
    <3> HIDE DEF U
    <3>. QED
      BY <2>5
  <2> DEFINE q == [i \in 1 .. (k + 1) |-> IF i = k + 1 THEN m ELSE p[i]]
  <2>7. p \in [1 .. k -> U] /\ \A i, j \in 1 .. k : i # j => p[i] # p[j]
    <3> HIDE DEF U
    <3>. QED
      BY <2>5, <2>6 DEF Lists
  <2>8. k \in Nat /\ \A i \in 1 .. (k + 1) : i = k + 1 \/ (i \in 1 .. k /\ i < k + 1)
    OBVIOUS
  <2>9. \A i \in 1 .. k : p[i] \in T /\ p[i] # m
    BY <2>7
  <2>10. Lists(q, T)
    <3>1. q \in [1 .. (k + 1) -> T]
      BY <2>8, <2>9
    <3>2. \A i, j \in 1 .. (k + 1) : i # j => q[i] # q[j]
      BY <2>7, <2>8, <2>9
    <3> HIDE DEF q
    <3>. QED
      BY <3>1, <3>2 DEF Lists
  <2>11. Dearest(q)
    <3>1. \A i, j \in 1 .. k : i < j => p[i].cost >= p[j].cost
      BY <2>6, <2>7 DEF Dearest
    <3>2. ASSUME NEW i \in 1 .. (k + 1), NEW j \in 1 .. (k + 1), i < j
          PROVE  q[i].cost >= q[j].cost
      <4>1. i \in 1 .. k /\ q[i] = p[i]
        BY <2>8, <3>2
      <4>2. CASE j = k + 1
        BY <2>4, <2>9, <4>1, <4>2
      <4>3. CASE j \in 1 .. k
        BY <2>8, <3>1, <3>2, <4>1, <4>3
      <4>. QED
        BY <2>8, <4>2, <4>3
    <3>. QED
      BY <3>2 DEF Dearest
  <2>. QED
    BY <2>10, <2>11
<1> HIDE DEF K
<1>3. K = Nat
  BY <1>1, <1>2, SetInduction DEF K
<1>4. Cardinality(R) \in K /\ R \in SUBSET R
  BY <1>0, <1>3
<1>. QED
  BY <1>4 DEF K

\* A list has every line once.
LEMMA ListsAll ==
  ASSUME NEW R, IsFiniteSet(R), NEW q, Lists(q, R)
  PROVE  /\ Len(q) = Cardinality(R) /\ DOMAIN q = 1 .. Cardinality(R)
         /\ {q[i] : i \in DOMAIN q} = R
<1> DEFINE n == Cardinality(R)
<1>1. n \in Nat
  BY FS_CardinalityType
<1>2. q \in [1 .. n -> R] /\ \A i, j \in 1 .. n : i # j => q[i] # q[j]
  BY DEF Lists
<1> HIDE DEF n
<1>3. Cardinality(1 .. n) = n
  <2>1. 1 \in Int /\ n \in Int /\ (IF 1 > n THEN 0 ELSE n - 1 + 1) = n
    BY <1>1
  <2>. QED
    BY <2>1, FS_Interval
<1>4. q \in Injection(1 .. n, R)
  BY <1>2 DEF Injection, IsInjective
<1>5. q \in Surjection(1 .. n, R)
  BY <1>3, <1>4, FS_Injection DEF n
<1>6. q \in Seq(R) /\ Len(q) = n
  BY <1>1, <1>2
<1>7. {q[i] : i \in 1 .. n} = R
  BY <1>5 DEF Surjection
<1>. QED
  BY <1>2, <1>6, <1>7 DEF n

\* The models of calls, and a report's line of a model.
ModelOf(calls) == [i \in DOMAIN calls |-> calls[i].call.model]
OfModel(calls, S, k) == PartOf(S, ModelOf(calls), k)

InputOf(calls, S) == SumOver([i \in S |-> calls[i].call.usage.input], S)
OutputOf(calls, S) == SumOver([i \in S |-> calls[i].call.usage.output], S)
PriceOf(calls, S) == SumOver([i \in S |-> calls[i].cost], S)

LineOf(calls, S, k) ==
  [app |-> "atlas-gateway", model |-> k, input |-> InputOf(calls, OfModel(calls, S, k)),
   output |-> OutputOf(calls, OfModel(calls, S, k)), cost |-> PriceOf(calls, OfModel(calls, S, k))]

LinesOf(calls, S) == {LineOf(calls, S, k) : k \in {calls[i].call.model : i \in S}}

RowsFrom(calls, S) == {RowOf(calls, i) : i \in S}

\* Some of the priced calls.
Some(calls, S) == calls \in Seq(Entry) /\ S \in SUBSET Paid(calls)

\* They are finitely many, with numbers to add up.
LEMMA SomeAre ==
  ASSUME NEW calls, NEW S, Some(calls, S), None \notin Nat
  PROVE  /\ IsFiniteSet(S) /\ S \in SUBSET (DOMAIN calls)
         /\ \A i \in S : /\ i \in Nat /\ calls[i] \in Entry /\ calls[i].cost \in Nat
                         /\ calls[i].call.usage.input \in Nat
                         /\ calls[i].call.usage.output \in Nat
<1>1. calls \in Seq(Entry) /\ S \in SUBSET (1 .. Len(calls)) /\ Len(calls) \in Nat
      /\ DOMAIN calls = 1 .. Len(calls)
  BY DEF Some, Paid
<1>2. IsFiniteSet(S)
  <2>1. IsFiniteSet(1 .. Len(calls))
    BY <1>1, FS_Interval
  <2>. QED
    BY <1>1, <2>1, FS_Subset
<1>3. \A i \in S : i \in Nat /\ calls[i] \in Entry /\ calls[i].cost # None
  BY <1>1 DEF Some, Paid
<1>4. \A i \in S : /\ calls[i].cost \in Nat
                   /\ calls[i].call.usage.input \in Nat
                   /\ calls[i].call.usage.output \in Nat
  BY <1>3 DEF Entry, LedgerCall, Usages
<1>. QED
  BY <1>1, <1>2, <1>3, <1>4

\* Their sums are numbers.
LEMMA SumsAreNumbers ==
  ASSUME None \notin Nat, NEW calls, NEW S, Some(calls, S)
  PROVE  PriceOf(calls, S) \in Nat
<1> DEFINE w == [i \in S |-> calls[i].cost]
<1>1. IsFiniteSet(S) /\ w \in [S -> Nat]
  BY SomeAre
<1> HIDE DEF w
<1>2. PICK f : Sums(f, S, w) /\ f[S] = SumOver(w, S)
  BY <1>1, SumIsAdded
<1>3. f[S] \in Nat
  BY <1>2 DEF Sums
<1>. QED
  BY <1>2, <1>3 DEF PriceOf, w

\* Adding up rows is adding up their calls.
LEMMA RowsAddUp ==
  ASSUME None \notin Nat, NEW calls, NEW S, Some(calls, S), NEW R, R = RowsFrom(calls, S)
  PROVE  /\ B!Total(LAMBDA r : r.usage.input, R) = InputOf(calls, S)
         /\ B!Total(LAMBDA r : r.usage.output, R) = OutputOf(calls, S)
         /\ B!Total(LAMBDA r : r.cost, R) = PriceOf(calls, S)
<1> DEFINE b == [i \in S |-> RowOf(calls, i)]
<1>1. /\ IsFiniteSet(S)
      /\ \A i \in S : /\ i \in Nat /\ calls[i].cost \in Nat
                      /\ calls[i].call.usage.input \in Nat /\ calls[i].call.usage.output \in Nat
  BY SomeAre
<1>2. \A i \in S : /\ b[i].id = i - 1 /\ b[i].cost = calls[i].cost
                   /\ b[i].usage.input = calls[i].call.usage.input
                   /\ b[i].usage.output = calls[i].call.usage.output
  BY DEF RowOf
<1>3. R = {b[i] : i \in S} /\ b \in [S -> R]
  BY DEF RowsFrom
<1>4. \A x, y \in S : b[x] = b[y] => x = y
  <2> HIDE DEF b
  <2>1. \A x, y \in S : b[x] = b[y] => x - 1 = y - 1
    BY <1>2
  <2>. QED
    BY <1>1, <2>1
<1> HIDE DEF b
<1>5. B!Total(LAMBDA r : r.usage.input, R) = InputOf(calls, S)
  <2> DEFINE w == [i \in S |-> calls[i].call.usage.input]
             v == [r \in R |-> r.usage.input]
  <2>1. Renames(b, S, w, R, v)
    <3>1. w \in [S -> Nat] /\ v \in [R -> Nat] /\ \A x \in S : w[x] = v[b[x]]
      BY <1>1, <1>2, <1>3
    <3>. QED
      BY <1>3, <1>4, <3>1 DEF Renames
  <2> HIDE DEF w, v
  <2>2. SumOver(v, R) = SumOver(w, S)
    BY <1>1, <2>1, SumOfImage
  <2>3. B!Total(LAMBDA r : r.usage.input, R) = SumOver([r \in R |-> r.usage.input], R)
    BY TotalOfInputs
  <2>. QED
    BY <2>2, <2>3 DEF w, v, InputOf
<1>6. B!Total(LAMBDA r : r.usage.output, R) = OutputOf(calls, S)
  <2> DEFINE w == [i \in S |-> calls[i].call.usage.output]
             v == [r \in R |-> r.usage.output]
  <2>1. Renames(b, S, w, R, v)
    <3>1. w \in [S -> Nat] /\ v \in [R -> Nat] /\ \A x \in S : w[x] = v[b[x]]
      BY <1>1, <1>2, <1>3
    <3>. QED
      BY <1>3, <1>4, <3>1 DEF Renames
  <2> HIDE DEF w, v
  <2>2. SumOver(v, R) = SumOver(w, S)
    BY <1>1, <2>1, SumOfImage
  <2>3. B!Total(LAMBDA r : r.usage.output, R) = SumOver([r \in R |-> r.usage.output], R)
    BY TotalOfOutputs
  <2>. QED
    BY <2>2, <2>3 DEF w, v, OutputOf
<1>7. B!Total(LAMBDA r : r.cost, R) = PriceOf(calls, S)
  <2> DEFINE w == [i \in S |-> calls[i].cost]
             v == [r \in R |-> r.cost]
  <2>1. Renames(b, S, w, R, v)
    <3>1. w \in [S -> Nat] /\ v \in [R -> Nat] /\ \A x \in S : w[x] = v[b[x]]
      BY <1>1, <1>2, <1>3
    <3>. QED
      BY <1>3, <1>4, <3>1 DEF Renames
  <2> HIDE DEF w, v
  <2>2. SumOver(v, R) = SumOver(w, S)
    BY <1>1, <2>1, SumOfImage
  <2>3. B!Total(LAMBDA r : r.cost, R) = SumOver([r \in R |-> r.cost], R)
    BY TotalOfCosts
  <2>. QED
    BY <2>2, <2>3 DEF w, v, PriceOf
<1>. QED
  BY <1>5, <1>6, <1>7

\* The lines, which are one per model, cost together what the calls cost.
LEMMA LinesAddUp ==
  ASSUME None \notin Nat, NEW calls, NEW S, Some(calls, S),
         NEW R, R = LinesOf(calls, S), NEW K, K = {calls[i].call.model : i \in S}
  PROVE  /\ IsFiniteSet(R) /\ IsFiniteSet(K) /\ Cardinality(R) = Cardinality(K)
         /\ \A r \in R : r.cost \in Nat
         /\ B!Total(LAMBDA r : r.cost, R) = PriceOf(calls, S)
<1> DEFINE w == [i \in S |-> calls[i].cost]
           m == ModelOf(calls)
           c == [k \in K |-> PriceOf(calls, OfModel(calls, S, k))]
           b == [k \in K |-> LineOf(calls, S, k)]
           v == [r \in R |-> r.cost]
<1>1. /\ IsFiniteSet(S) /\ w \in [S -> Nat] /\ S \in SUBSET (DOMAIN calls)
  BY SomeAre
<1>2. \A i \in S : m[i] = calls[i].call.model /\ m[i] \in K
  BY <1>1 DEF ModelOf
<1>3. IsFiniteSet(K)
  <2> DEFINE f == [i \in S |-> calls[i].call.model]
  <2>1. f \in Surjection(S, K)
    BY DEF Surjection
  <2> HIDE DEF f
  <2>. QED
    BY <1>1, <2>1, FS_Surjection
<1>4. \A k \in K : Some(calls, OfModel(calls, S, k)) /\ PriceOf(calls, OfModel(calls, S, k)) \in Nat
  <2>1. \A k \in K : Some(calls, OfModel(calls, S, k))
    BY DEF Some, OfModel, PartOf
  <2>. QED
    BY <2>1, SumsAreNumbers
<1>5. c \in [K -> Nat]
  BY <1>4
<1>6. \A k \in K : c[k] = SumOver([x \in PartOf(S, m, k) |-> w[x]], PartOf(S, m, k))
  <2>1. ASSUME NEW k \in K
        PROVE  c[k] = SumOver([x \in PartOf(S, m, k) |-> w[x]], PartOf(S, m, k))
    <3>1. PartOf(S, m, k) \in SUBSET S
      BY DEF PartOf
    <3>2. [x \in PartOf(S, m, k) |-> w[x]] = [x \in PartOf(S, m, k) |-> calls[x].cost]
      BY <3>1
    <3>. QED
      BY <3>2 DEF PriceOf, OfModel
  <2>. QED
    BY <2>1
<1>7. R = {b[k] : k \in K} /\ b \in [K -> R]
  BY DEF LinesOf
<1>8. \A k \in K : b[k].model = k /\ b[k].cost = c[k]
  BY DEF LineOf
<1> HIDE DEF b, c, w, m
<1>9. Renames(b, K, c, R, v)
  <2>1. \A x, y \in K : b[x] = b[y] => x = y
    BY <1>8
  <2>2. v \in [R -> Nat] /\ \A x \in K : c[x] = v[b[x]]
    BY <1>5, <1>7, <1>8
  <2>. QED
    BY <1>5, <1>7, <2>1, <2>2 DEF Renames
<1>10. \A r \in R : r.cost \in Nat
  BY <1>5, <1>7, <1>8
<1> HIDE DEF v
<1>11. IsFiniteSet(R) /\ Cardinality(R) = Cardinality(K) /\ SumOver(v, R) = SumOver(c, K)
  BY <1>3, <1>9, SumOfImage
<1>12. SumOver(c, K) = SumOver(w, S)
  <2>1. Classes(S, w, m, K, c)
    BY <1>1, <1>2, <1>5, <1>6 DEF Classes
  <2>. QED
    BY <1>1, <1>3, <2>1, SumOfClasses
<1>13. B!Total(LAMBDA r : r.cost, R) = SumOver([r \in R |-> r.cost], R)
  BY TotalOfCosts
<1>. QED
  BY <1>3, <1>10, <1>11, <1>12, <1>13 DEF v, w, PriceOf

\* The lines are what is fetched, dearest first.
LEMMA FetchesLines ==
  ASSUME None \notin Nat, NEW calls \in Seq(Entry), NEW db, db.records = RowsOf(calls),
         NEW key, key # None, NEW since,
         NEW S, S = PaidSince(calls, key, since)
  PROVE  LET q == B!FetchUsageRows(db, key, since)
         IN  Lists(q, LinesOf(calls, S)) /\ Dearest(q)
<1> DEFINE mine == {r \in B!Visible(db, key) : r.key = key /\ r.day >= since}
           group(app, model) == {r \in mine : r.app = app /\ r.model = model}
           row(p) == [app |-> p[1], model |-> p[2],
                      input  |-> B!Total(LAMBDA r : r.usage.input, group(p[1], p[2])),
                      output |-> B!Total(LAMBDA r : r.usage.output, group(p[1], p[2])),
                      cost   |-> B!Total(LAMBDA r : r.cost, group(p[1], p[2]))]
           lines == {row(<<r.app, r.model>>) : r \in mine}
           sorted(q) == q \in B!SetToSeqs(lines) /\ \A i, j \in DOMAIN q : i < j => q[i].cost >= q[j].cost
           K == {calls[i].call.model : i \in S}
<1>1. B!FetchUsageRows(db, key, since) = CHOOSE q : sorted(q)
  BY DEF B!FetchUsageRows
<1>2. Some(calls, S)
  BY DEF Some, PaidSince
<1>3. /\ IsFiniteSet(S) /\ S \in SUBSET (DOMAIN calls)
  BY <1>2, SomeAre
<1>4. mine = RowsFrom(calls, S)
  <2>1. \A i : /\ RowOf(calls, i).key = calls[i].call.key
               /\ RowOf(calls, i).day = calls[i].day
    BY DEF RowOf
  <2>2. B!Visible(db, key) = {r \in RowsOf(calls) : r.key = key}
    BY DEF B!Visible
  <2>. QED
    BY <2>1, <2>2 DEF RowsOf, RowsFrom, PaidSince
<1> HIDE DEF mine
<1>5. \A k : group("atlas-gateway", k) = RowsFrom(calls, OfModel(calls, S, k))
  <2>1. \A i \in S : /\ RowOf(calls, i).app = "atlas-gateway"
                     /\ RowOf(calls, i).model = ModelOf(calls)[i]
    BY <1>3 DEF RowOf, ModelOf
  <2>. QED
    BY <1>4, <2>1 DEF RowsFrom, OfModel, PartOf
<1>6. ASSUME NEW k PROVE row(<<"atlas-gateway", k>>) = LineOf(calls, S, k)
  <2> DEFINE of == OfModel(calls, S, k)
             R == group("atlas-gateway", k)
  <2>1. Some(calls, of) /\ R = RowsFrom(calls, of)
    BY <1>2, <1>5 DEF Some, OfModel, PartOf
  <2>2. row(<<"atlas-gateway", k>>)
          = [app |-> "atlas-gateway", model |-> k,
             input |-> B!Total(LAMBDA r : r.usage.input, R),
             output |-> B!Total(LAMBDA r : r.usage.output, R),
             cost |-> B!Total(LAMBDA r : r.cost, R)]
    OBVIOUS
  <2> HIDE DEF of, R, row
  <2>3. /\ B!Total(LAMBDA r : r.usage.input, R) = InputOf(calls, of)
        /\ B!Total(LAMBDA r : r.usage.output, R) = OutputOf(calls, of)
        /\ B!Total(LAMBDA r : r.cost, R) = PriceOf(calls, of)
    BY <2>1, RowsAddUp
  <2>. QED
    BY <2>2, <2>3 DEF LineOf, of
<1>7. lines = LinesOf(calls, S)
  <2>1. \A r \in mine : r.app = "atlas-gateway"
    BY <1>4 DEF RowsFrom, RowOf
  <2>2. {r.model : r \in mine} = K
    <3>1. \A i : RowOf(calls, i).model = calls[i].call.model
      BY DEF RowOf
    <3>2. ASSUME NEW k \in K PROVE k \in {r.model : r \in mine}
      <4>1. PICK i \in S : k = calls[i].call.model
        OBVIOUS
      <4>2. RowOf(calls, i) \in mine
        BY <1>4 DEF RowsFrom
      <4>. QED
        BY <3>1, <4>1, <4>2
    <3>3. ASSUME NEW r \in mine PROVE r.model \in K
      <4>1. PICK i \in S : r = RowOf(calls, i)
        BY <1>4 DEF RowsFrom
      <4>. QED
        BY <3>1, <4>1
    <3> HIDE DEF K
    <3>. QED
      BY <3>2, <3>3
  <2>3. \A r \in mine : row(<<r.app, r.model>>) = LineOf(calls, S, r.model)
    <3> HIDE DEF row
    <3>. QED
      BY <1>6, <2>1
  <2> HIDE DEF row
  <2>4. lines = {LineOf(calls, S, r.model) : r \in mine}
    BY <2>3
  <2>. QED
    BY <2>2, <2>4 DEF LinesOf
<1> HIDE DEF lines
<1>8. \A q : sorted(q) <=> Lists(q, LinesOf(calls, S)) /\ Dearest(q)
  BY <1>7, ListsAreSeqs DEF Dearest
<1>9. /\ IsFiniteSet(LinesOf(calls, S))
      /\ \A r \in LinesOf(calls, S) : r.cost \in Nat
  <2> DEFINE R == LinesOf(calls, S)
  <2> HIDE DEF R, K
  <2>1. IsFiniteSet(R) /\ \A r \in R : r.cost \in Nat
    BY <1>2, LinesAddUp DEF R, K
  <2>. QED
    BY <2>1 DEF R
<1>10. \E q : sorted(q)
  BY <1>8, <1>9, DearestExists
<1> HIDE DEF sorted
<1>11. sorted(B!FetchUsageRows(db, key, since))
  BY <1>1, <1>10, Zenon
<1>. QED
  BY <1>8, <1>11

\* What is due for priced calls is what they cost.
LEMMA DueIsPrice ==
  ASSUME None \notin Nat, NEW s, NEW S, Some(s.calls, S)
  PROVE  B!Total(LAMBDA i : B!Due(s.calls[i].call), S) = PriceOf(s.calls, S)
<1> DEFINE due == [i \in S |-> B!Due(s.calls[i].call)]
           cost == [i \in S |-> s.calls[i].cost]
<1>1. \A i \in S : s.calls[i] \in Entry /\ s.calls[i].cost # None
  BY SomeAre DEF Some, Paid
<1>2. \A i \in S : B!Due(s.calls[i].call) = s.calls[i].cost
  BY <1>1 DEF Entry
<1>3. due = cost
  BY <1>2
<1>4. B!Total(LAMBDA i : B!Due(s.calls[i].call), S) = SumOver(due, S)
  BY TotalOfCalls
<1>. QED
  BY <1>3, <1>4 DEF PriceOf

\* On books that are kept, what is reported is what was due.
LEMMA ReportsAreExact ==
  ASSUME None \notin Nat \cup B!Keys, NEW s, OnBooks(s),
         NEW key \in B!Keys, NEW since \in 1 .. s.day
  PROVE  B!ReportIsExact(s, key, since)
<1> DEFINE report == B!GetUsage(s.settings, s.db, key, since)
           printed == {report[i] : i \in DOMAIN report}
           mine == {i \in DOMAIN s.calls : /\ s.calls[i].call.key = key
                                           /\ s.calls[i].cost # None
                                           /\ s.calls[i].day >= since}
           of(model) == {i \in mine : s.calls[i].call.model = model}
           billed == {i \in mine : s.settings.budget /\ ~ s.calls[i].lost}
           S == PaidSince(s.calls, key, since)
           K == {s.calls[i].call.model : i \in S}
           R == LinesOf(s.calls, S)
<1>1. /\ s.calls \in Seq(Entry) /\ s.db.records = RowsOf(s.calls) /\ s.settings.pool = TRUE
      /\ s.day \in Nat /\ s.charged[key] = BillOf(s.settings.budget, s.calls, key)
      /\ \A i \in DOMAIN s.calls : s.calls[i].day \in 1 .. s.day
  BY DEF OnBooks, LedgerState, LedgerSettings
<1>2. Some(s.calls, S) /\ None \notin Nat /\ key # None
  BY <1>1 DEF Some, PaidSince
<1>3. mine = S
  BY DEF PaidSince, Paid
<1>4. Lists(report, R) /\ Dearest(report)
  <2>1. report = B!FetchUsageRows(s.db, key, since)
    BY <1>1 DEF B!GetUsage
  <2> HIDE DEF report, R, S
  <2>2. LET q == B!FetchUsageRows(s.db, key, since)
        IN  Lists(q, LinesOf(s.calls, PaidSince(s.calls, key, since))) /\ Dearest(q)
    BY <1>1, <1>2, FetchesLines
  <2>. QED
    BY <2>1, <2>2 DEF R, S
<1> HIDE DEF report
<1>5. /\ IsFiniteSet(R) /\ Cardinality(R) = Cardinality(K)
      /\ \A r \in R : r.cost \in Nat
      /\ B!Total(LAMBDA r : r.cost, R) = PriceOf(s.calls, S)
  BY <1>2, LinesAddUp
<1>6. Len(report) = Cardinality(R) /\ DOMAIN report = 1 .. Cardinality(R) /\ printed = R
  <2> HIDE DEF R
  <2>. QED
    BY <1>4, <1>5, ListsAll
<1>7. {r.model : r \in R} = K
  <2>1. \A k : LineOf(s.calls, S, k).model = k
    BY DEF LineOf
  <2>2. R = {LineOf(s.calls, S, k) : k \in K}
    BY DEF LinesOf
  <2> HIDE DEF R, K, S
  <2>3. ASSUME NEW k \in K PROVE k \in {r.model : r \in R}
    BY <2>1, <2>2
  <2>4. ASSUME NEW r \in R PROVE r.model \in K
    BY <2>1, <2>2
  <2>. QED
    BY <2>3, <2>4
<1>8. \A r \in R : /\ r.input = B!Total(LAMBDA i : s.calls[i].call.usage.input, of(r.model))
                   /\ r.output = B!Total(LAMBDA i : s.calls[i].call.usage.output, of(r.model))
                   /\ r.cost = B!Total(LAMBDA i : B!Due(s.calls[i].call), of(r.model))
  <2>1. ASSUME NEW r \in R
        PROVE  /\ r.input = B!Total(LAMBDA i : s.calls[i].call.usage.input, of(r.model))
               /\ r.output = B!Total(LAMBDA i : s.calls[i].call.usage.output, of(r.model))
               /\ r.cost = B!Total(LAMBDA i : B!Due(s.calls[i].call), of(r.model))
    <3> DEFINE T == of(r.model)
    <3>1. PICK k \in K : r = LineOf(s.calls, S, k)
      BY DEF LinesOf
    <3>2. r.model = k
      BY <3>1 DEF LineOf
    <3>3. T = OfModel(s.calls, S, k)
      BY <1>3, <3>2 DEF OfModel, PartOf, ModelOf, PaidSince, Paid
    <3>4. /\ r.input = InputOf(s.calls, T) /\ r.output = OutputOf(s.calls, T)
          /\ r.cost = PriceOf(s.calls, T)
      BY <3>1, <3>3 DEF LineOf
    <3> HIDE DEF T
    <3>5. /\ B!Total(LAMBDA i : B!Due(s.calls[i].call), T) = PriceOf(s.calls, T)
          /\ B!Total(LAMBDA i : s.calls[i].call.usage.input, T)
               = SumOver([i \in T |-> s.calls[i].call.usage.input], T)
          /\ B!Total(LAMBDA i : s.calls[i].call.usage.output, T)
               = SumOver([i \in T |-> s.calls[i].call.usage.output], T)
      <4>1. Some(s.calls, T)
        BY <1>2, <3>3 DEF Some, OfModel, PartOf
      <4>. QED
        BY <4>1, TotalOfCalls, DueIsPrice
    <3>6. /\ r.input = B!Total(LAMBDA i : s.calls[i].call.usage.input, T)
          /\ r.output = B!Total(LAMBDA i : s.calls[i].call.usage.output, T)
          /\ r.cost = B!Total(LAMBDA i : B!Due(s.calls[i].call), T)
      BY <3>4, <3>5 DEF InputOf, OutputOf, PriceOf
    <3>. QED
      BY <3>6 DEF T
  <2>. QED
    BY <2>1
<1>9. \A i \in DOMAIN report : \A j \in 1 .. i : report[j].cost >= report[i].cost
  <2>1. \A i \in DOMAIN report : report[i].cost \in Nat
    BY <1>5, <1>6
  <2>2. Cardinality(R) \in Nat
    BY <1>5, FS_CardinalityType
  <2> HIDE DEF R
  <2>. QED
    BY <1>4, <1>6, <2>1, <2>2 DEF Dearest
<1>10. since = 1 => s.charged[key] = B!Total(LAMBDA i : B!Due(s.calls[i].call), billed)
  <2> DEFINE T == billed
  <2>1. since = 1 => T = Billed(s.settings.budget, s.calls, key)
    BY <1>3 DEF Billed
  <2>2. Some(s.calls, T)
    BY <1>2, <1>3 DEF Some
  <2> HIDE DEF T
  <2>3. B!Total(LAMBDA i : B!Due(s.calls[i].call), T) = PriceOf(s.calls, T)
    BY <2>2, DueIsPrice
  <2>4. since = 1 => BillOf(s.settings.budget, s.calls, key) = PriceOf(s.calls, T)
    BY <2>1 DEF BillOf, PriceOf
  <2>. QED
    BY <1>1, <2>3, <2>4 DEF T
<1>11. {r.model : r \in printed} = {s.calls[i].call.model : i \in mine}
  <2>1. {s.calls[i].call.model : i \in mine} = K
    BY <1>3
  <2> HIDE DEF mine, printed, R, K
  <2>. QED
    BY <1>6, <1>7, <2>1
<1>12. Len(report) = B!Cardinality({r.model : r \in printed})
  BY <1>5, <1>6, <1>7 DEF B!Cardinality, Cardinality
<1>13. \A r \in printed : /\ r.input = B!Total(LAMBDA i : s.calls[i].call.usage.input, of(r.model))
                       /\ r.output = B!Total(LAMBDA i : s.calls[i].call.usage.output, of(r.model))
                       /\ r.cost = B!Total(LAMBDA i : B!Due(s.calls[i].call), of(r.model))
  BY <1>6, <1>8
<1> HIDE DEF R, S, K
<1>. QED
  BY <1>9, <1>10, <1>11, <1>12, <1>13 DEF B!ReportIsExact, report

\* Books that are kept balance.
LEMMA OnBooksBalances ==
  ASSUME None \notin Nat \cup B!Keys, NEW s, OnBooks(s)
  PROVE  B!Balanced(s)
<1>1. B!EventsAreRows(s)
  BY DEF OnBooks
<1>2. B!Visible(s.db, None) = {}
  BY DEF B!Visible
<1>3. \A key \in B!Keys, since \in 1 .. s.day : B!ReportIsExact(s, key, since)
  BY ReportsAreExact
<1>. QED
  BY <1>1, <1>2, <1>3 DEF B!Balanced

\* The ledger of any days of work, with any calls in any order, balances.
THEOREM LedgerCorrect == SpecInput => []BooksBalance
<1>1. ASSUME InputInv PROVE BooksBalance
  <2> SUFFICES ASSUME subject = "ledger", NEW authDb \in BOOLEAN, NEW budget \in BOOLEAN
               PROVE  B!Balanced(B!Ledger(authDb, budget, input))
    BY DEF BooksBalance
  <2>1. input \in Seq(Alphabet.ledger)
    BY <1>1 DEF InputInv
  <2>2. None \notin Nat
    BY LedgerAssumption
  <2>3. OnBooks(B!Ledger(authDb, budget, input))
    BY <2>1, <2>2, LedgerOnBooks
  <2>. QED
    BY <2>3, OnBooksBalances, LedgerAssumption
<1>. QED
  BY <1>1, InputIsTyped, PTL

-----------------------------------------------------------------------------
(* Migrations.                                                             *)

\* What the revisions name.
Words ==
  {"provider_enum", "key_status_enum", "prompt_status_enum",
   "model_aliases", "api_keys", "budgets", "call_records", "prompts", "prompt_versions",
   "idx_api_keys_hashed_secret", "idx_api_keys_app", "idx_budgets_api_key_id",
   "idx_call_records_api_key_id", "idx_call_records_created_at", "idx_call_records_alias",
   "idx_prompt_versions_prompt_id", "idx_prompt_versions_status", "expires_at",
   "call_records_read_tenant", "budgets_read_tenant",
   "call_records_insert_server", "budgets_insert_server"}

Pairs == Words \X Words

Catalogs ==
  [types : SUBSET Words, tables : SUBSET Words, refs : SUBSET Pairs, uses : SUBSET Pairs,
   indexes : SUBSET Pairs, added : SUBSET Pairs, secured : SUBSET Words,
   policies : SUBSET Pairs, seeded : BOOLEAN, failed : BOOLEAN]

IsDdl(op) ==
  /\ op.on \in Words
  /\ \/ op.do \in {"create_type", "drop_index", "drop_table", "drop_type", "drop_policy",
                   "secure", "unsecure", "seed"}
     \/ /\ op.do \in {"create_index", "add_column", "drop_column", "create_policy"}
        /\ op.with \in Words
     \/ /\ op.do = "create_table"
        /\ op.with.refs \in SUBSET Words /\ op.with.types \in SUBSET Words

Executed(d, op) == IF d.failed \/ ~ M!Accepts(d, op) THEN [d EXCEPT !.failed = TRUE]
                   ELSE M!Apply(d, op)

\* A catalog, by what stays of it, and what is left when the rest changes.
Keeps(d, types, failed) ==
  d = [types |-> types, tables |-> d.tables, refs |-> d.refs, uses |-> d.uses,
       indexes |-> d.indexes, added |-> d.added, secured |-> d.secured,
       policies |-> d.policies, seeded |-> d.seeded, failed |-> failed]

Rewritten(d, t, r, u, i, p, a, c, s) ==
  [d EXCEPT !.tables = t, !.refs = r, !.uses = u, !.indexes = i, !.policies = p,
            !.added = a, !.secured = c, !.seeded = s]

LEMMA Changed ==
  ASSUME NEW types, NEW failed, NEW d, NEW t, NEW r, NEW u, NEW i, NEW p, NEW a, NEW c, NEW s,
         Keeps(d, types, failed)
  PROVE  Rewritten(d, t, r, u, i, p, a, c, s)
           = [types |-> types, tables |-> t, refs |-> r, uses |-> u, indexes |-> i,
              added |-> a, secured |-> c, policies |-> p, seeded |-> s, failed |-> failed]
<1> DEFINE fields == {"types", "tables", "refs", "uses", "indexes", "added", "secured",
                      "policies", "seeded", "failed"}
           e == Rewritten(d, t, r, u, i, p, a, c, s)
           f == [types |-> types, tables |-> t, refs |-> r, uses |-> u, indexes |-> i,
                 added |-> a, secured |-> c, policies |-> p, seeded |-> s, failed |-> failed]
<1>1. DOMAIN d = fields /\ d.types = types /\ d.failed = failed
  <2>1. DOMAIN [types |-> types, tables |-> d.tables, refs |-> d.refs, uses |-> d.uses,
                indexes |-> d.indexes, added |-> d.added, secured |-> d.secured,
                policies |-> d.policies, seeded |-> d.seeded, failed |-> failed] = fields
    OBVIOUS
  <2>. QED
    BY <2>1 DEF Keeps
<1>2. f = [x \in fields |-> f[x]]
  OBVIOUS
<1>3. e = [x \in fields |-> e[x]]
  BY <1>1 DEF Rewritten
<1>4. /\ e.types = types /\ e.failed = failed /\ e.tables = t /\ e.refs = r /\ e.uses = u
      /\ e.indexes = i /\ e.added = a /\ e.secured = c /\ e.policies = p /\ e.seeded = s
  BY <1>1 DEF Rewritten
<1>5. /\ f.types = types /\ f.failed = failed /\ f.tables = t /\ f.refs = r /\ f.uses = u
      /\ f.indexes = i /\ f.added = a /\ f.secured = c /\ f.policies = p /\ f.seeded = s
  OBVIOUS
<1> HIDE DEF e, f
<1>6. \A x \in fields : e[x] = f[x]
  BY <1>4, <1>5
<1> HIDE DEF fields
<1>7. e = f
  BY <1>2, <1>3, <1>6
<1>. QED
  BY <1>7 DEF e, f

\* A statement leaves a catalog.
LEMMA ExecutedTyped ==
  ASSUME NEW d \in Catalogs, NEW op, IsDdl(op)
  PROVE  Executed(d, op) \in Catalogs
<1> DEFINE to == Executed(d, op)
<1>0. d = [types |-> d.types, tables |-> d.tables, refs |-> d.refs, uses |-> d.uses,
           indexes |-> d.indexes, added |-> d.added, secured |-> d.secured,
           policies |-> d.policies, seeded |-> d.seeded, failed |-> d.failed]
      /\ d.types \in SUBSET Words /\ d.tables \in SUBSET Words /\ d.refs \in SUBSET Pairs
      /\ d.uses \in SUBSET Pairs /\ d.indexes \in SUBSET Pairs /\ d.added \in SUBSET Pairs
      /\ d.secured \in SUBSET Words /\ d.policies \in SUBSET Pairs
      /\ d.seeded \in BOOLEAN /\ d.failed \in BOOLEAN
  BY DEF Catalogs
<1>1. [d EXCEPT !.failed = TRUE] \in Catalogs
  BY DEF Catalogs
<1>2. op.on \in Words
  BY DEF IsDdl
<1> HIDE DEF Words
<1>3. ASSUME op.do = "create_type" PROVE M!Apply(d, op) \in Catalogs
  <2>1. M!Apply(d, op) = [d EXCEPT !.types = d.types \union {op.on}]
    BY <1>3 DEF M!Apply
  <2>2. d.types \union {op.on} \in SUBSET Words
    BY <1>0, <1>2
  <2>. QED
    BY <2>1, <2>2 DEF Catalogs
<1>4. ASSUME op.do = "create_table", op.with.refs \in SUBSET Words, op.with.types \in SUBSET Words
      PROVE  M!Apply(d, op) \in Catalogs
  <2> DEFINE r == {<<op.on, t>> : t \in op.with.refs}
             u == {<<op.on, t>> : t \in op.with.types}
  <2>1. M!Apply(d, op) = [d EXCEPT !.tables = d.tables \union {op.on},
                                   !.refs = d.refs \union r, !.uses = d.uses \union u]
    BY <1>4 DEF M!Apply
  <2>2. r \in SUBSET Pairs /\ u \in SUBSET Pairs
    BY <1>2, <1>4 DEF Pairs
  <2> HIDE DEF r, u
  <2>3. /\ d.tables \union {op.on} \in SUBSET Words /\ d.refs \union r \in SUBSET Pairs
        /\ d.uses \union u \in SUBSET Pairs
    BY <1>0, <1>2, <2>2
  <2>. QED
    BY <2>1, <2>3 DEF Catalogs
<1>5. ASSUME op.do \in {"create_index", "add_column", "drop_column", "create_policy"},
             op.with \in Words
      PROVE  M!Apply(d, op) \in Catalogs
  <2>1. <<op.on, op.with>> \in Pairs
    BY <1>2, <1>5 DEF Pairs
  <2>2. /\ d.indexes \union {<<op.on, op.with>>} \in SUBSET Pairs
        /\ d.added \union {<<op.on, op.with>>} \in SUBSET Pairs
        /\ d.added \ {<<op.on, op.with>>} \in SUBSET Pairs
        /\ d.policies \union {<<op.on, op.with>>} \in SUBSET Pairs
    BY <1>0, <2>1
  <2>3. CASE op.do = "create_index"
    <3>1. M!Apply(d, op) = [d EXCEPT !.indexes = d.indexes \union {<<op.on, op.with>>}]
      BY <2>3 DEF M!Apply
    <3>. QED
      BY <2>2, <3>1 DEF Catalogs
  <2>4. CASE op.do = "add_column"
    <3>1. M!Apply(d, op) = [d EXCEPT !.added = d.added \union {<<op.on, op.with>>}]
      BY <2>4 DEF M!Apply
    <3>. QED
      BY <2>2, <3>1 DEF Catalogs
  <2>5. CASE op.do = "drop_column"
    <3>1. M!Apply(d, op) = [d EXCEPT !.added = d.added \ {<<op.on, op.with>>}]
      BY <2>5 DEF M!Apply
    <3>. QED
      BY <2>2, <3>1 DEF Catalogs
  <2>6. CASE op.do = "create_policy"
    <3>1. M!Apply(d, op) = [d EXCEPT !.policies = d.policies \union {<<op.on, op.with>>}]
      BY <2>6 DEF M!Apply
    <3>. QED
      BY <2>2, <3>1 DEF Catalogs
  <2>. QED
    BY <1>5, <2>3, <2>4, <2>5, <2>6
<1>6. ASSUME op.do = "drop_table" PROVE M!Apply(d, op) \in Catalogs
  <2> DEFINE r == {x \in d.refs : x[1] # op.on}
             u == {x \in d.uses : x[1] # op.on}
             i == {x \in d.indexes : x[2] # op.on}
             p == {x \in d.policies : x[2] # op.on}
             a == {x \in d.added : x[1] # op.on}
             s == d.seeded /\ op.on # "model_aliases"
  <2>1. M!Apply(d, op) = [d EXCEPT !.tables = d.tables \ {op.on}, !.refs = r, !.uses = u,
                                   !.indexes = i, !.policies = p, !.added = a,
                                   !.secured = d.secured \ {op.on}, !.seeded = s]
    BY <1>6 DEF M!Apply
  <2>2. /\ r \in SUBSET Pairs /\ u \in SUBSET Pairs /\ i \in SUBSET Pairs
        /\ p \in SUBSET Pairs /\ a \in SUBSET Pairs
        /\ d.tables \ {op.on} \in SUBSET Words /\ d.secured \ {op.on} \in SUBSET Words
    BY <1>0
  <2>3. s \in BOOLEAN
    OBVIOUS
  <2> DEFINE t == d.tables \ {op.on}
             c == d.secured \ {op.on}
  <2>4. t \in SUBSET Words /\ c \in SUBSET Words
    BY <2>2
  <2> HIDE DEF r, u, i, p, a, s
  <2>5. M!Apply(d, op) = [types |-> d.types, tables |-> t, refs |-> r, uses |-> u,
                          indexes |-> i, added |-> a, secured |-> c, policies |-> p,
                          seeded |-> s, failed |-> d.failed]
    <3>1. M!Apply(d, op) = Rewritten(d, t, r, u, i, p, a, c, s)
      BY <2>1 DEF Rewritten
    <3>2. Keeps(d, d.types, d.failed)
      BY <1>0 DEF Keeps
    <3> HIDE DEF t, c
    <3>. QED
      BY <3>1, <3>2, Changed
  <2> HIDE DEF t, c
  <2>. QED
    BY <1>0, <2>2, <2>3, <2>4, <2>5 DEF Catalogs
<1>7. ASSUME op.do \in {"drop_index", "drop_policy"} PROVE M!Apply(d, op) \in Catalogs
  <2> DEFINE i == {x \in d.indexes : x[1] # op.on}
             p == {x \in d.policies : x[1] # op.on}
  <2>1. op.do = "drop_index" => M!Apply(d, op) = [d EXCEPT !.indexes = i]
    BY DEF M!Apply
  <2>2. op.do = "drop_policy" => M!Apply(d, op) = [d EXCEPT !.policies = p]
    BY DEF M!Apply
  <2>3. i \in SUBSET Pairs /\ p \in SUBSET Pairs
    BY <1>0
  <2> HIDE DEF i, p
  <2>. QED
    BY <1>7, <2>1, <2>2, <2>3 DEF Catalogs
<1>8. ASSUME op.do \in {"drop_type", "secure", "unsecure"} PROVE M!Apply(d, op) \in Catalogs
  <2>1. op.do = "drop_type" => M!Apply(d, op) = [d EXCEPT !.types = d.types \ {op.on}]
    BY DEF M!Apply
  <2>2. op.do = "secure" => M!Apply(d, op) = [d EXCEPT !.secured = d.secured \union {op.on}]
    BY DEF M!Apply
  <2>3. op.do = "unsecure" => M!Apply(d, op) = [d EXCEPT !.secured = d.secured \ {op.on}]
    BY DEF M!Apply
  <2>4. /\ d.types \ {op.on} \in SUBSET Words /\ d.secured \union {op.on} \in SUBSET Words
        /\ d.secured \ {op.on} \in SUBSET Words
    BY <1>0, <1>2
  <2>. QED
    BY <1>8, <2>1, <2>2, <2>3, <2>4 DEF Catalogs
<1>9. ASSUME op.do = "seed" PROVE M!Apply(d, op) \in Catalogs
  <2>1. M!Apply(d, op) = [d EXCEPT !.seeded = TRUE]
    BY <1>9 DEF M!Apply
  <2>. QED
    BY <2>1 DEF Catalogs
<1>10. M!Apply(d, op) \in Catalogs
  BY <1>3, <1>4, <1>5, <1>6, <1>7, <1>8, <1>9 DEF IsDdl
<1>. QED
  BY <1>1, <1>10 DEF Executed

\* A statement is accepted and leads from one catalog to another.
Takes(d, op, e) == IsDdl(op) /\ ~ d.failed /\ M!Accepts(d, op) /\ M!Apply(d, op) = e

\* n statements lead from the first catalog of c to its last.
IsChain(c, ops, n) ==
  /\ n \in Nat /\ DOMAIN ops = 1 .. n
  /\ c[1] \in Catalogs /\ ~ c[n + 1].failed
  /\ \A i \in 1 .. n : Takes(c[i], ops[i], c[i + 1])

\* A revision whose statements are accepted one after the other leads to the last
\* catalog.
LEMMA RunIs ==
  ASSUME NEW ops, NEW n, NEW c, IsChain(c, ops, n)
  PROVE  M!Run(c[1], ops) = c[n + 1]
<1> DEFINE first == c[1]
           step == [i \in 1 .. n |-> [d \in Catalogs |-> Executed(d, ops[i])]]
           Is(f) == f = [u \in SUBSET (DOMAIN ops) |->
                           IF u = {} THEN first
                           ELSE IF f[u \ {Max(u)}].failed \/ ~ M!Accepts(f[u \ {Max(u)}], ops[Max(u)])
                                THEN [f[u \ {Max(u)}] EXCEPT !.failed = TRUE]
                                ELSE M!Apply(f[u \ {Max(u)}], ops[Max(u)])]
           g == CHOOSE f : Is(f)
<1>1. /\ n \in Nat /\ DOMAIN ops = 1 .. n /\ first \in Catalogs
      /\ \A i \in 1 .. n : IsDdl(ops[i]) /\ Takes(c[i], ops[i], c[i + 1])
  BY DEF IsChain, Takes
<1>2. M!Run(c[1], ops) = IF g[DOMAIN ops].failed THEN [first EXCEPT !.failed = TRUE]
                         ELSE g[DOMAIN ops]
  BY DEF M!Run, M!FoldLeft, M!MapThenFoldSet, M!Max, Max
<1> HIDE DEF first
<1>3. ASSUME NEW i \in 1 .. n, NEW d \in Catalogs PROVE Executed(d, ops[i]) \in Catalogs
  BY <1>1, ExecutedTyped
<1>4. step \in [1 .. n -> [Catalogs -> Catalogs]]
  BY <1>3
<1>5. PICK f : IsFoldIn(Catalogs, f, step, n, first)
  <2> HIDE DEF step
  <2>. QED
    BY <1>1, <1>4, FoldExists
<1>6. Is(f)
  <2>1. f = [u \in SUBSET (1 .. n) |-> IF u = {} THEN first ELSE step[Max(u)][f[u \ {Max(u)}]]]
    BY <1>5 DEF IsFoldIn, IsFold
  <2>2. ASSUME NEW u \in SUBSET (1 .. n), u # {}
        PROVE  step[Max(u)][f[u \ {Max(u)}]] = Executed(f[u \ {Max(u)}], ops[Max(u)])
    <3>1. f[u \ {Max(u)}] \in Catalogs /\ Max(u) \in 1 .. n
      BY <1>1, <1>5, <2>2, MaxIsIn DEF IsFoldIn
    <3>. QED
      BY <3>1
  <2> HIDE DEF step
  <2>3. f = [u \in SUBSET (1 .. n) |-> IF u = {} THEN first
                                       ELSE Executed(f[u \ {Max(u)}], ops[Max(u)])]
    BY <2>1, <2>2
  <2>. QED
    BY <1>1, <2>3 DEF Executed
<1>7. Is(g)
  <2> HIDE DEF Is
  <2>. QED
    BY <1>6, Zenon
<1> HIDE DEF g, step
<1>8. g = [u \in SUBSET (1 .. n) |-> IF u = {} THEN first
                                     ELSE Executed(g[u \ {Max(u)}], ops[Max(u)])]
  BY <1>1, <1>7 DEF Executed
<1> HIDE DEF Is
<1>9. ASSUME NEW i \in 1 .. n PROVE g[1 .. i] = Executed(g[1 .. (i - 1)], ops[i])
  <2>1. /\ 1 .. i \in SUBSET (1 .. n) /\ 1 .. i # {}
        /\ Max(1 .. i) = i /\ (1 .. i) \ {i} = 1 .. (i - 1)
    BY <1>1, FirstNumbers
  <2>. QED
    BY <1>8, <2>1
<1>10. g[1 .. 0] = first
  <2>1. 1 .. 0 = {} /\ {} \in SUBSET (1 .. n)
    OBVIOUS
  <2>. QED
    BY <1>8, <2>1
<1> DEFINE T == {i \in Nat : i <= n => g[1 .. i] = c[i + 1]}
<1>11. 0 \in T
  BY <1>10 DEF first
<1>12. ASSUME NEW i \in T PROVE i + 1 \in T
  <2> SUFFICES ASSUME i + 1 <= n PROVE g[1 .. (i + 1)] = c[(i + 1) + 1]
    OBVIOUS
  <2>1. PICK k \in 1 .. n : k = i + 1 /\ k - 1 = i
    BY <1>1
  <2>2. g[1 .. (k - 1)] = c[k]
    BY <1>1, <2>1
  <2>3. Executed(c[k], ops[k]) = c[k + 1]
    BY <1>1 DEF Executed, Takes
  <2>. QED
    BY <1>9, <2>1, <2>2, <2>3
<1>13. n \in T
  <2> HIDE DEF T
  <2>1. T = Nat
    BY <1>11, <1>12, SetInduction DEF T
  <2>. QED
    BY <1>1, <2>1
<1>14. g[DOMAIN ops] = c[n + 1] /\ ~ c[n + 1].failed
  BY <1>1, <1>13 DEF IsChain
<1>. QED
  BY <1>2, <1>14

\* What tables.py declares, by table.
DeclaredRefs == UNION {{<<t.name, r>> : r \in t.refs} : t \in M!Metadata}
DeclaredUses == UNION {{<<t.name, e>> : e \in t.types} : t \in M!Metadata}
DeclaredIndexes == UNION {{<<i, t.name>> : i \in t.indexes} : t \in M!Metadata}

\* Spelled out.
LEMMA Declared ==
  /\ DeclaredRefs = {<<"budgets", "api_keys">>, <<"call_records", "api_keys">>,
                     <<"call_records", "model_aliases">>, <<"prompt_versions", "prompts">>,
                     <<"prompt_versions", "model_aliases">>}
  /\ DeclaredUses = {<<"model_aliases", "provider_enum">>, <<"api_keys", "key_status_enum">>,
                     <<"call_records", "provider_enum">>,
                     <<"prompt_versions", "prompt_status_enum">>}
  /\ DeclaredIndexes = {<<"idx_api_keys_hashed_secret", "api_keys">>,
                        <<"idx_api_keys_app", "api_keys">>,
                        <<"idx_budgets_api_key_id", "budgets">>,
                        <<"idx_call_records_api_key_id", "call_records">>,
                        <<"idx_call_records_created_at", "call_records">>,
                        <<"idx_call_records_alias", "call_records">>,
                        <<"idx_prompt_versions_prompt_id", "prompt_versions">>,
                        <<"idx_prompt_versions_status", "prompt_versions">>}
<1> USE DEF M!Metadata, M!ModelAliases, M!ApiKeys, M!Budgets, M!CallRecords, M!Prompts,
            M!PromptVersions, M!Table
<1>1. DeclaredRefs = {<<"budgets", "api_keys">>, <<"call_records", "api_keys">>,
                     <<"call_records", "model_aliases">>, <<"prompt_versions", "prompts">>,
                     <<"prompt_versions", "model_aliases">>}
  BY DEF DeclaredRefs
<1>2. DeclaredUses = {<<"model_aliases", "provider_enum">>, <<"api_keys", "key_status_enum">>,
                     <<"call_records", "provider_enum">>,
                     <<"prompt_versions", "prompt_status_enum">>}
  BY DEF DeclaredUses
<1>3. DeclaredIndexes = {<<"idx_api_keys_hashed_secret", "api_keys">>,
                        <<"idx_api_keys_app", "api_keys">>,
                        <<"idx_budgets_api_key_id", "budgets">>,
                        <<"idx_call_records_api_key_id", "call_records">>,
                        <<"idx_call_records_created_at", "call_records">>,
                        <<"idx_call_records_alias", "call_records">>,
                        <<"idx_prompt_versions_prompt_id", "prompt_versions">>,
                        <<"idx_prompt_versions_status", "prompt_versions">>}
  BY DEF DeclaredIndexes
<1>. QED
  BY <1>1, <1>2, <1>3

\* The catalog with these types, tables, indexes, columns, and so on, and what
\* tables.py declares of them.
Catalog(types, tables, names, added, secured, policies, seeded) ==
  [types |-> types, tables |-> tables,
   refs |-> {r \in DeclaredRefs : r[1] \in tables},
   uses |-> {u \in DeclaredUses : u[1] \in tables},
   indexes |-> {i \in DeclaredIndexes : i[1] \in names},
   added |-> added, secured |-> secured, policies |-> policies, seeded |-> seeded,
   failed |-> FALSE]

\* Without what the later revisions add.
Plain(types, tables, names, seeded) == Catalog(types, tables, names, {}, {}, {}, seeded)

\* What the statements of the revisions do to such a catalog: a type comes, ...
LEMMA CreatesType ==
  ASSUME NEW types, NEW tables, NEW names, NEW seeded, NEW t \in Words
  PROVE  Takes(Plain(types, tables, names, seeded), M!CreateType(t),
               Plain(types \union {t}, tables, names, seeded))
BY DEF Takes, IsDdl, Plain, Catalog, M!Accepts, M!Apply, M!CreateType, M!Op

\* ... and goes while no table uses it;
LEMMA DropsType ==
  ASSUME NEW types, NEW names, NEW seeded, NEW t \in Words, NEW tables,
         \A u \in DeclaredUses : u[1] \in tables => u[2] # t
  PROVE  Takes(Plain(types, tables, names, seeded), M!DropType(t),
               Plain(types \ {t}, tables, names, seeded))
BY DEF Takes, IsDdl, Plain, Catalog, M!Accepts, M!Apply, M!DropType, M!Op

\* a table comes with its references, ...
LEMMA CreatesTable ==
  ASSUME NEW types, NEW tables, NEW names, NEW seeded, NEW t \in Words, t \notin tables,
         NEW refs \in SUBSET Words, NEW uses \in SUBSET Words,
         refs \subseteq tables, uses \subseteq types,
         {r \in DeclaredRefs : r[1] = t} = {<<t, r>> : r \in refs},
         {u \in DeclaredUses : u[1] = t} = {<<t, u>> : u \in uses}
  PROVE  Takes(Plain(types, tables, names, seeded), M!CreateTable(t, refs, uses),
               Plain(types, tables \union {t}, names, seeded))
<1> DEFINE d == Plain(types, tables, names, seeded)
           op == M!CreateTable(t, refs, uses)
           more == tables \union {t}
           r == {<<op.on, x>> : x \in op.with.refs}
           u == {<<op.on, x>> : x \in op.with.types}
<1> HIDE DEF Words
<1>1. /\ op.do = "create_table" /\ op.on = t /\ op.with.refs = refs /\ op.with.types = uses
      /\ IsDdl(op) /\ M!Accepts(d, op) /\ ~ d.failed
  BY DEF IsDdl, Plain, Catalog, M!Accepts, M!CreateTable, M!Op
<1>2. /\ r = {y \in DeclaredRefs : y[1] = t} /\ u = {y \in DeclaredUses : y[1] = t}
  BY <1>1
<1>3. /\ d.tables \union {op.on} = more
      /\ d.refs \union r = {y \in DeclaredRefs : y[1] \in more}
      /\ d.uses \union u = {y \in DeclaredUses : y[1] \in more}
  BY <1>1, <1>2 DEF Plain, Catalog
<1>4. M!Apply(d, op) = [d EXCEPT !.tables = d.tables \union {op.on},
                                 !.refs = d.refs \union r, !.uses = d.uses \union u]
  BY <1>1 DEF M!Apply
<1> HIDE DEF r, u, op
<1>5. M!Apply(d, op) = [d EXCEPT !.tables = more,
                                 !.refs = {y \in DeclaredRefs : y[1] \in more},
                                 !.uses = {y \in DeclaredUses : y[1] \in more}]
  BY <1>3, <1>4
<1>6. M!Apply(d, op) = Plain(types, more, names, seeded)
  BY <1>5 DEF Plain, Catalog
<1>. QED
  BY <1>1, <1>6 DEF Takes, op

\* ... and goes while none refers to it and its indexes are gone;
LEMMA DropsTable ==
  ASSUME NEW types, NEW tables, NEW names, NEW seeded \in BOOLEAN, NEW t \in Words, t \in tables,
         \A r \in DeclaredRefs : r[1] \in tables => r[2] # t,
         \A i \in DeclaredIndexes : i[1] \in names => i[2] # t
  PROVE  Takes(Plain(types, tables, names, seeded), M!DropTable(t),
               Plain(types, tables \ {t}, names, seeded /\ t # "model_aliases"))
<1> DEFINE d == Plain(types, tables, names, seeded)
           op == M!DropTable(t)
           less == tables \ {t}
           left == seeded /\ t # "model_aliases"
<1> HIDE DEF Words
<1>1. /\ op.do = "drop_table" /\ op.on = t /\ IsDdl(op) /\ M!Accepts(d, op) /\ ~ d.failed
  BY DEF IsDdl, Plain, Catalog, M!Accepts, M!DropTable, M!Op
<1>2. /\ {r \in d.refs : r[1] # t} = {r \in DeclaredRefs : r[1] \in less}
      /\ {u \in d.uses : u[1] # t} = {u \in DeclaredUses : u[1] \in less}
      /\ {i \in d.indexes : i[2] # t} = d.indexes
      /\ {p \in d.policies : p[2] # t} = {} /\ {c \in d.added : c[1] # t} = {}
      /\ d.secured \ {t} = {} /\ d.tables \ {t} = less /\ d.seeded = seeded
  BY DEF Plain, Catalog
<1>3. M!Apply(d, op) = [d EXCEPT !.tables = d.tables \ {t},
                                 !.refs = {r \in d.refs : r[1] # t},
                                 !.uses = {u \in d.uses : u[1] # t},
                                 !.indexes = {i \in d.indexes : i[2] # t},
                                 !.policies = {p \in d.policies : p[2] # t},
                                 !.added = {c \in d.added : c[1] # t},
                                 !.secured = d.secured \ {t},
                                 !.seeded = d.seeded /\ t # "model_aliases"]
  BY <1>1 DEF M!Apply
<1>4. M!Apply(d, op) = [d EXCEPT !.tables = less,
                                 !.refs = {r \in DeclaredRefs : r[1] \in less},
                                 !.uses = {u \in DeclaredUses : u[1] \in less},
                                 !.indexes = d.indexes, !.policies = {}, !.added = {},
                                 !.secured = {}, !.seeded = left]
  BY <1>2, <1>3
<1> HIDE DEF left
<1>5. M!Apply(d, op) = Plain(types, less, names, left)
  <2> DEFINE no == FALSE
             nothing == {}
  <2>1. Keeps(d, types, no) /\ d.indexes = {i \in DeclaredIndexes : i[1] \in names}
    BY DEF Plain, Catalog, Keeps
  <2> HIDE DEF d, op, less, no
  <2> DEFINE refs == {r \in DeclaredRefs : r[1] \in less}
             uses == {u \in DeclaredUses : u[1] \in less}
  <2>2. M!Apply(d, op)
          = Rewritten(d, less, refs, uses, d.indexes, nothing, nothing, nothing, left)
    BY <1>4 DEF Rewritten
  <2> HIDE DEF refs, uses, nothing
  <2>3. M!Apply(d, op) = [types |-> types, tables |-> less, refs |-> refs, uses |-> uses,
                          indexes |-> d.indexes, added |-> nothing, secured |-> nothing,
                          policies |-> nothing, seeded |-> left, failed |-> no]
    BY <2>1, <2>2, Changed
  <2>. QED
    BY <2>1, <2>3 DEF Plain, Catalog, no, refs, uses, nothing
<1>. QED
  BY <1>1, <1>5 DEF Takes, left

\* an index comes, ...
LEMMA CreatesIndex ==
  ASSUME NEW types, NEW tables, NEW names, NEW seeded, NEW x \in Words, NEW t \in Words,
         x \notin names, t \in tables, {i \in DeclaredIndexes : i[1] = x} = {<<x, t>>}
  PROVE  Takes(Plain(types, tables, names, seeded), M!CreateIndex(x, t),
               Plain(types, tables, names \union {x}, seeded))
<1> DEFINE d == Plain(types, tables, names, seeded)
           op == M!CreateIndex(x, t)
           more == names \union {x}
<1> HIDE DEF Words
<1>1. /\ op.do = "create_index" /\ op.on = x /\ op.with = t
      /\ IsDdl(op) /\ M!Accepts(d, op) /\ ~ d.failed
  BY DEF IsDdl, Plain, Catalog, M!Accepts, M!CreateIndex, M!Op
<1>2. {i \in DeclaredIndexes : i[1] \in more} = d.indexes \union {<<x, t>>}
  BY DEF Plain, Catalog
<1>3. M!Apply(d, op) = [d EXCEPT !.indexes = d.indexes \union {<<x, t>>}]
  BY <1>1 DEF M!Apply
<1>4. M!Apply(d, op) = Plain(types, tables, more, seeded)
  BY <1>2, <1>3 DEF Plain, Catalog
<1>. QED
  BY <1>1, <1>4 DEF Takes

\* ... and goes.
LEMMA DropsIndex ==
  ASSUME NEW types, NEW tables, NEW names, NEW seeded, NEW x \in Words,
         x \in names, \E i \in DeclaredIndexes : i[1] = x
  PROVE  Takes(Plain(types, tables, names, seeded), M!DropIndex(x),
               Plain(types, tables, names \ {x}, seeded))
<1> DEFINE d == Plain(types, tables, names, seeded)
           op == M!DropIndex(x)
           less == names \ {x}
<1> HIDE DEF Words
<1>1. /\ op.do = "drop_index" /\ op.on = x
      /\ IsDdl(op) /\ M!Accepts(d, op) /\ ~ d.failed
  BY DEF IsDdl, Plain, Catalog, M!Accepts, M!DropIndex, M!Op
<1>2. {i \in DeclaredIndexes : i[1] \in less} = {i \in d.indexes : i[1] # x}
  BY DEF Plain, Catalog
<1>3. M!Apply(d, op) = [d EXCEPT !.indexes = {i \in d.indexes : i[1] # x}]
  BY <1>1 DEF M!Apply
<1>4. M!Apply(d, op) = Plain(types, tables, less, seeded)
  BY <1>2, <1>3 DEF Plain, Catalog
<1>. QED
  BY <1>1, <1>4 DEF Takes

\* The revisions create types, tables and indexes in this order, and drop them in
\* the reverse order.
TypeOrder == <<"provider_enum", "key_status_enum", "prompt_status_enum">>
TableOrder == <<"model_aliases", "api_keys", "budgets", "call_records", "prompts",
                "prompt_versions">>
IndexOrder == <<"idx_api_keys_hashed_secret", "idx_api_keys_app", "idx_budgets_api_key_id",
                "idx_call_records_api_key_id", "idx_call_records_created_at",
                "idx_call_records_alias", "idx_prompt_versions_prompt_id",
                "idx_prompt_versions_status">>

FirstOf(order, n) == {order[k] : k \in 1 .. n}

\* So far: the first so many of each.
SoFar(a, b, i, seeded) ==
  Plain(FirstOf(TypeOrder, a), FirstOf(TableOrder, b), FirstOf(IndexOrder, i), seeded)

\* The table that is the first to use a type, the table of an index, and what a
\* table needs.
FirstUse == <<1, 2, 6>>
TableOf == <<2, 2, 3, 4, 4, 4, 6, 6>>
RefsOf == <<{}, {}, {"api_keys"}, {"api_keys", "model_aliases"}, {},
            {"prompts", "model_aliases"}>>
UsesOf == <<{"provider_enum"}, {"key_status_enum"}, {}, {"provider_enum"}, {},
            {"prompt_status_enum"}>>
TypesFor == <<1, 2, 0, 1, 0, 3>>
IndexesBefore == <<0, 0, 2, 3, 6, 6>>

\* One more of an order without repetitions.
LEMMA FirstGrows ==
  ASSUME NEW order, NEW k \in Nat \ {0}, \A x, y \in 1 .. k : order[x] = order[y] => x = y
  PROVE  /\ FirstOf(order, k - 1) \union {order[k]} = FirstOf(order, k)
         /\ FirstOf(order, k) \ {order[k]} = FirstOf(order, k - 1)
         /\ order[k] \in FirstOf(order, k) /\ order[k] \notin FirstOf(order, k - 1)
<1>1. 1 .. k = (1 .. (k - 1)) \union {k} /\ k \notin 1 .. (k - 1)
  OBVIOUS
<1>. QED
  BY <1>1 DEF FirstOf

\* Nothing is in an order twice.
LEMMA OrdersAre ==
  /\ \A x, y \in 1 .. 3 : TypeOrder[x] = TypeOrder[y] => x = y
  /\ \A x, y \in 1 .. 6 : TableOrder[x] = TableOrder[y] => x = y
  /\ \A x, y \in 1 .. 8 : IndexOrder[x] = IndexOrder[y] => x = y
  /\ \A x \in 1 .. 3 : TypeOrder[x] \in Words
  /\ \A x \in 1 .. 6 : TableOrder[x] \in Words
  /\ \A x \in 1 .. 8 : IndexOrder[x] \in Words
<1>1. \A x, y \in 1 .. 3 : TypeOrder[x] = TypeOrder[y] => x = y
  BY DEF TypeOrder
<1>2. \A x, y \in 1 .. 6 : TableOrder[x] = TableOrder[y] => x = y
  BY DEF TableOrder
<1>3. \A x, y \in 1 .. 8 : IndexOrder[x] = IndexOrder[y] => x = y
  BY DEF IndexOrder
<1>4. \A x \in 1 .. 3 : TypeOrder[x] \in Words
  BY DEF TypeOrder, Words
<1>5. \A x \in 1 .. 6 : TableOrder[x] \in Words
  BY DEF TableOrder, Words
<1>6. \A x \in 1 .. 8 : IndexOrder[x] \in Words
  BY DEF IndexOrder, Words
<1>. QED
  BY <1>1, <1>2, <1>3, <1>4, <1>5, <1>6

\* What is declared, by its place in the orders.
LEMMA Ranked ==
  /\ \A r \in DeclaredRefs :
       \E x, y \in 1 .. 6 : r = <<TableOrder[x], TableOrder[y]>> /\ y < x
  /\ \A u \in DeclaredUses :
       \E x \in 1 .. 6, y \in 1 .. 3 : u = <<TableOrder[x], TypeOrder[y]>> /\ FirstUse[y] <= x
  /\ \A i \in DeclaredIndexes :
       \E x \in 1 .. 8 : i = <<IndexOrder[x], TableOrder[TableOf[x]]>>
  /\ \A x \in 1 .. 8 : TableOf[x] \in 1 .. 6
                       /\ <<IndexOrder[x], TableOrder[TableOf[x]]>> \in DeclaredIndexes
<1>1. \A r \in DeclaredRefs :
        \E x, y \in 1 .. 6 : r = <<TableOrder[x], TableOrder[y]>> /\ y < x
  <2>1. /\ TableOrder[1] = "model_aliases" /\ TableOrder[2] = "api_keys"
        /\ TableOrder[3] = "budgets" /\ TableOrder[4] = "call_records"
        /\ TableOrder[5] = "prompts" /\ TableOrder[6] = "prompt_versions"
    BY DEF TableOrder
  <2>. QED
    BY <2>1, Declared
<1>2. \A u \in DeclaredUses :
        \E x \in 1 .. 6, y \in 1 .. 3 : u = <<TableOrder[x], TypeOrder[y]>> /\ FirstUse[y] <= x
  <2>1. /\ TableOrder[1] = "model_aliases" /\ TableOrder[2] = "api_keys"
        /\ TableOrder[4] = "call_records" /\ TableOrder[6] = "prompt_versions"
        /\ TypeOrder[1] = "provider_enum" /\ TypeOrder[2] = "key_status_enum"
        /\ TypeOrder[3] = "prompt_status_enum"
        /\ FirstUse[1] = 1 /\ FirstUse[2] = 2 /\ FirstUse[3] = 6
    BY DEF TableOrder, TypeOrder, FirstUse
  <2>. QED
    BY <2>1, Declared
<1>3. /\ TableOrder[2] = "api_keys" /\ TableOrder[3] = "budgets"
      /\ TableOrder[4] = "call_records" /\ TableOrder[6] = "prompt_versions"
      /\ IndexOrder[1] = "idx_api_keys_hashed_secret" /\ IndexOrder[2] = "idx_api_keys_app"
      /\ IndexOrder[3] = "idx_budgets_api_key_id"
      /\ IndexOrder[4] = "idx_call_records_api_key_id"
      /\ IndexOrder[5] = "idx_call_records_created_at"
      /\ IndexOrder[6] = "idx_call_records_alias"
      /\ IndexOrder[7] = "idx_prompt_versions_prompt_id"
      /\ IndexOrder[8] = "idx_prompt_versions_status"
  BY DEF TableOrder, IndexOrder
<1>4. /\ TableOf[1] = 2 /\ TableOf[2] = 2 /\ TableOf[3] = 3 /\ TableOf[4] = 4
      /\ TableOf[5] = 4 /\ TableOf[6] = 4 /\ TableOf[7] = 6 /\ TableOf[8] = 6
  BY DEF TableOf
<1>5. \A i \in DeclaredIndexes :
        \E x \in 1 .. 8 : i = <<IndexOrder[x], TableOrder[TableOf[x]]>>
  BY <1>3, <1>4, Declared
<1>6. \A x \in 1 .. 8 : TableOf[x] \in 1 .. 6
                        /\ <<IndexOrder[x], TableOrder[TableOf[x]]>> \in DeclaredIndexes
  <2>1. \A x \in 1 .. 8 : x = 1 \/ x = 2 \/ x = 3 \/ x = 4 \/ x = 5 \/ x = 6 \/ x = 7 \/ x = 8
    OBVIOUS
  <2>. QED
    BY <1>3, <1>4, <2>1, Declared
<1>. QED
  BY <1>1, <1>2, <1>5, <1>6

\* A type comes, and goes while no table uses it.
LEMMA TypeGoes ==
  ASSUME NEW k \in 1 .. 3, NEW j, j = k - 1, NEW b \in 0 .. 6, NEW i, NEW s
  PROVE  /\ Takes(SoFar(j, b, i, s), M!CreateType(TypeOrder[k]), SoFar(k, b, i, s))
         /\ b < FirstUse[k] =>
              Takes(SoFar(k, b, i, s), M!DropType(TypeOrder[k]), SoFar(j, b, i, s))
<1> DEFINE t == TypeOrder[k]
           tables == FirstOf(TableOrder, b)
<1>1. /\ FirstOf(TypeOrder, j) \union {t} = FirstOf(TypeOrder, k)
      /\ FirstOf(TypeOrder, k) \ {t} = FirstOf(TypeOrder, j)
      /\ t \in Words
  <2>1. k \in Nat \ {0} /\ \A x, y \in 1 .. k : TypeOrder[x] = TypeOrder[y] => x = y
    BY OrdersAre
  <2>. QED
    BY <2>1, FirstGrows, OrdersAre
<1>2. ASSUME b < FirstUse[k], NEW u \in DeclaredUses, u[1] \in tables PROVE u[2] # t
  <2>1. PICK x \in 1 .. 6, y \in 1 .. 3 : u = <<TableOrder[x], TypeOrder[y]>> /\ FirstUse[y] <= x
    BY Ranked
  <2>2. u[1] = TableOrder[x] /\ u[2] = TypeOrder[y]
    BY <2>1
  <2>3. PICK z \in 1 .. b : TableOrder[x] = TableOrder[z]
    BY <1>2, <2>2 DEF FirstOf
  <2>4. x <= b
    BY <2>3, OrdersAre
  <2>5. \A n \in 1 .. 3 : FirstUse[n] \in Nat
    BY DEF FirstUse
  <2>6. y # k
    BY <1>2, <2>1, <2>4, <2>5
  <2>. QED
    BY <2>2, <2>6, OrdersAre
<1>3. \A u \in DeclaredUses : b < FirstUse[k] /\ u[1] \in tables => u[2] # t
  BY <1>2
<1> HIDE DEF t, tables
<1>4. Takes(SoFar(j, b, i, s), M!CreateType(t), SoFar(k, b, i, s))
  BY <1>1, CreatesType DEF SoFar
<1>5. ASSUME b < FirstUse[k]
      PROVE  Takes(SoFar(k, b, i, s), M!DropType(t), SoFar(j, b, i, s))
  BY <1>1, <1>3, <1>5, DropsType DEF SoFar, tables
<1>. QED
  BY <1>4, <1>5 DEF t

\* A table comes once its types are there, and goes once its indexes are gone.
LEMMA TableGoes ==
  ASSUME NEW k \in 1 .. 6, NEW j, j = k - 1, NEW a \in 0 .. 3, NEW i \in 0 .. 8,
         NEW s \in BOOLEAN
  PROVE  /\ a >= TypesFor[k] =>
              Takes(SoFar(a, j, i, s), M!CreateTable(TableOrder[k], RefsOf[k], UsesOf[k]),
                    SoFar(a, k, i, s))
         /\ \A left \in BOOLEAN :
              i <= IndexesBefore[k] /\ (IF k = 1 THEN ~ left ELSE left = s) =>
                Takes(SoFar(a, k, i, s), M!DropTable(TableOrder[k]), SoFar(a, j, i, left))
<1> DEFINE t == TableOrder[k]
           before == FirstOf(TableOrder, j)
           types == FirstOf(TypeOrder, a)
<1>1. /\ before \union {t} = FirstOf(TableOrder, k)
      /\ FirstOf(TableOrder, k) \ {t} = before
      /\ t \in FirstOf(TableOrder, k) /\ t \notin before
      /\ t \in Words
  <2>1. k \in Nat \ {0} /\ \A x, y \in 1 .. k : TableOrder[x] = TableOrder[y] => x = y
    BY OrdersAre
  <2>. QED
    BY <2>1, FirstGrows, OrdersAre
<1>2. t # "model_aliases" <=> k # 1
  BY DEF TableOrder
<1>3. /\ {r \in DeclaredRefs : r[1] = t} = {<<t, r>> : r \in RefsOf[k]}
      /\ {u \in DeclaredUses : u[1] = t} = {<<t, u>> : u \in UsesOf[k]}
      /\ RefsOf[k] \in SUBSET Words /\ UsesOf[k] \in SUBSET Words
  <2>1. CASE k = 1
    <3>1. t = "model_aliases" /\ RefsOf[k] = {} /\ UsesOf[k] = {"provider_enum"}
      BY <2>1 DEF TableOrder, RefsOf, UsesOf
    <3>. QED
      BY <3>1, Declared DEF Words
  <2>2. CASE k = 2
    <3>1. t = "api_keys" /\ RefsOf[k] = {} /\ UsesOf[k] = {"key_status_enum"}
      BY <2>2 DEF TableOrder, RefsOf, UsesOf
    <3>. QED
      BY <3>1, Declared DEF Words
  <2>3. CASE k = 3
    <3>1. t = "budgets" /\ RefsOf[k] = {"api_keys"} /\ UsesOf[k] = {}
      BY <2>3 DEF TableOrder, RefsOf, UsesOf
    <3>. QED
      BY <3>1, Declared DEF Words
  <2>4. CASE k = 4
    <3>1. /\ t = "call_records" /\ RefsOf[k] = {"api_keys", "model_aliases"}
          /\ UsesOf[k] = {"provider_enum"}
      BY <2>4 DEF TableOrder, RefsOf, UsesOf
    <3>. QED
      BY <3>1, Declared DEF Words
  <2>5. CASE k = 5
    <3>1. t = "prompts" /\ RefsOf[k] = {} /\ UsesOf[k] = {}
      BY <2>5 DEF TableOrder, RefsOf, UsesOf
    <3>. QED
      BY <3>1, Declared DEF Words
  <2>6. CASE k = 6
    <3>1. /\ t = "prompt_versions" /\ RefsOf[k] = {"prompts", "model_aliases"}
          /\ UsesOf[k] = {"prompt_status_enum"}
      BY <2>6 DEF TableOrder, RefsOf, UsesOf
    <3>. QED
      BY <3>1, Declared DEF Words
  <2>. QED
    BY <2>1, <2>2, <2>3, <2>4, <2>5, <2>6
<1>4. RefsOf[k] \subseteq before
  <2>1. /\ TableOrder[1] = "model_aliases" /\ TableOrder[2] = "api_keys"
        /\ TableOrder[5] = "prompts"
    BY DEF TableOrder
  <2>2. RefsOf[1] = {} /\ RefsOf[2] = {} /\ RefsOf[3] = {TableOrder[2]} /\ RefsOf[5] = {}
        /\ RefsOf[4] = {TableOrder[2], TableOrder[1]}
        /\ RefsOf[6] = {TableOrder[5], TableOrder[1]}
    BY <2>1 DEF RefsOf
  <2>. QED
    BY <2>2 DEF FirstOf
<1>5. ASSUME a >= TypesFor[k] PROVE UsesOf[k] \subseteq types
  <2>1. /\ TypeOrder[1] = "provider_enum" /\ TypeOrder[2] = "key_status_enum"
        /\ TypeOrder[3] = "prompt_status_enum"
    BY DEF TypeOrder
  <2>2. UsesOf[1] = {TypeOrder[1]} /\ UsesOf[2] = {TypeOrder[2]} /\ UsesOf[3] = {}
        /\ UsesOf[4] = {TypeOrder[1]} /\ UsesOf[5] = {} /\ UsesOf[6] = {TypeOrder[3]}
    BY <2>1 DEF UsesOf
  <2>3. TypesFor[1] = 1 /\ TypesFor[2] = 2 /\ TypesFor[4] = 1 /\ TypesFor[6] = 3
    BY DEF TypesFor
  <2>. QED
    BY <1>5, <2>2, <2>3 DEF FirstOf
<1>6. ASSUME NEW r \in DeclaredRefs, r[1] \in FirstOf(TableOrder, k) PROVE r[2] # t
  <2>1. PICK x, y \in 1 .. 6 : r = <<TableOrder[x], TableOrder[y]>> /\ y < x
    BY Ranked
  <2>2. r[1] = TableOrder[x] /\ r[2] = TableOrder[y]
    BY <2>1
  <2>3. PICK z \in 1 .. k : TableOrder[x] = TableOrder[z]
    BY <1>6, <2>2 DEF FirstOf
  <2>4. x <= k
    BY <2>3, OrdersAre
  <2>. QED
    BY <2>1, <2>2, <2>4, OrdersAre
<1>7. ASSUME i <= IndexesBefore[k], NEW y \in DeclaredIndexes, y[1] \in FirstOf(IndexOrder, i)
      PROVE  y[2] # t
  <2>1. PICK x \in 1 .. 8 : y = <<IndexOrder[x], TableOrder[TableOf[x]]>> /\ TableOf[x] \in 1 .. 6
    BY Ranked
  <2>2. y[1] = IndexOrder[x] /\ y[2] = TableOrder[TableOf[x]]
    BY <2>1
  <2>3. PICK z \in 1 .. i : IndexOrder[x] = IndexOrder[z]
    BY <1>7, <2>2 DEF FirstOf
  <2>4. x <= i
    BY <2>3, OrdersAre
  <2>5. x <= IndexesBefore[k] => TableOf[x] # k
    BY DEF IndexesBefore, TableOf
  <2>6. IndexesBefore[k] \in Nat
    BY DEF IndexesBefore
  <2>. QED
    BY <1>7, <2>1, <2>2, <2>4, <2>5, <2>6, OrdersAre
<1>8. /\ \A r \in DeclaredRefs : r[1] \in FirstOf(TableOrder, k) => r[2] # t
      /\ \A y \in DeclaredIndexes :
           i <= IndexesBefore[k] /\ y[1] \in FirstOf(IndexOrder, i) => y[2] # t
  BY <1>6, <1>7
<1> HIDE DEF t, before, types
<1>9. ASSUME a >= TypesFor[k]
      PROVE  Takes(SoFar(a, j, i, s), M!CreateTable(t, RefsOf[k], UsesOf[k]),
                   SoFar(a, k, i, s))
  <2>1. Takes(Plain(types, before, FirstOf(IndexOrder, i), s),
              M!CreateTable(t, RefsOf[k], UsesOf[k]),
              Plain(types, before \union {t}, FirstOf(IndexOrder, i), s))
    BY <1>1, <1>3, <1>4, <1>5, <1>9, CreatesTable
  <2>. QED
    BY <1>1, <2>1 DEF SoFar, types, before
<1>10. ASSUME NEW left \in BOOLEAN, i <= IndexesBefore[k], IF k = 1 THEN ~ left ELSE left = s
       PROVE  Takes(SoFar(a, k, i, s), M!DropTable(t), SoFar(a, j, i, left))
  <2>1. Takes(Plain(types, FirstOf(TableOrder, k), FirstOf(IndexOrder, i), s), M!DropTable(t),
              Plain(types, FirstOf(TableOrder, k) \ {t}, FirstOf(IndexOrder, i),
                    s /\ t # "model_aliases"))
    BY <1>1, <1>8, <1>10, DropsTable
  <2>2. (s /\ t # "model_aliases") = left
    BY <1>2, <1>10
  <2>. QED
    BY <1>1, <2>1, <2>2 DEF SoFar, types, before
<1>. QED
  BY <1>9, <1>10 DEF t

\* An index comes once its table is there, and goes.
LEMMA IndexGoes ==
  ASSUME NEW k \in 1 .. 8, NEW j, j = k - 1, NEW a, NEW b \in 0 .. 6, NEW s
  PROVE  /\ b >= TableOf[k] =>
              Takes(SoFar(a, b, j, s), M!CreateIndex(IndexOrder[k], TableOrder[TableOf[k]]),
                    SoFar(a, b, k, s))
         /\ Takes(SoFar(a, b, k, s), M!DropIndex(IndexOrder[k]), SoFar(a, b, j, s))
<1> DEFINE x == IndexOrder[k]
           t == TableOrder[TableOf[k]]
           before == FirstOf(IndexOrder, j)
           tables == FirstOf(TableOrder, b)
<1>1. /\ before \union {x} = FirstOf(IndexOrder, k)
      /\ FirstOf(IndexOrder, k) \ {x} = before
      /\ x \in FirstOf(IndexOrder, k) /\ x \notin before
      /\ x \in Words /\ t \in Words
  <2>1. k \in Nat \ {0} /\ \A y, z \in 1 .. k : IndexOrder[y] = IndexOrder[z] => y = z
    BY OrdersAre
  <2>. QED
    BY <2>1, FirstGrows, OrdersAre, Ranked
<1>2. {i \in DeclaredIndexes : i[1] = x} = {<<x, t>>}
  <2>1. <<x, t>> \in DeclaredIndexes
    BY Ranked
  <2>2. ASSUME NEW i \in DeclaredIndexes, i[1] = x PROVE i = <<x, t>>
    <3>1. PICK y \in 1 .. 8 : i = <<IndexOrder[y], TableOrder[TableOf[y]]>>
      BY Ranked
    <3>2. IndexOrder[y] = x
      BY <2>2, <3>1
    <3>3. y = k
      BY <3>2, OrdersAre
    <3>. QED
      BY <3>1, <3>3
  <2>. QED
    BY <2>1, <2>2
<1>3. b >= TableOf[k] => t \in tables
  BY Ranked DEF FirstOf
<1>4. \E i \in DeclaredIndexes : i[1] = x
  BY <1>2
<1> HIDE DEF x, t, before, tables
<1>5. ASSUME b >= TableOf[k]
      PROVE  Takes(SoFar(a, b, j, s), M!CreateIndex(x, t), SoFar(a, b, k, s))
  <2>1. Takes(Plain(FirstOf(TypeOrder, a), tables, before, s), M!CreateIndex(x, t),
              Plain(FirstOf(TypeOrder, a), tables, before \union {x}, s))
    BY <1>1, <1>2, <1>3, <1>5, CreatesIndex
  <2>. QED
    BY <1>1, <2>1 DEF SoFar, before, tables
<1>6. Takes(SoFar(a, b, k, s), M!DropIndex(x), SoFar(a, b, j, s))
  <2>1. Takes(Plain(FirstOf(TypeOrder, a), tables, FirstOf(IndexOrder, k), s), M!DropIndex(x),
              Plain(FirstOf(TypeOrder, a), tables, FirstOf(IndexOrder, k) \ {x}, s))
    BY <1>1, <1>4, DropsIndex
  <2>. QED
    BY <1>1, <2>1 DEF SoFar, before, tables
<1>. QED
  BY <1>5, <1>6 DEF x, t

\* The rows of the aliases come.
LEMMA Seeds ==
  ASSUME NEW a, NEW b, NEW i
  PROVE  Takes(SoFar(a, b, i, FALSE), M!SeedAliases, SoFar(a, b, i, TRUE))
BY DEF Takes, IsDdl, SoFar, Plain, Catalog, Words, M!Accepts, M!Apply, M!SeedAliases, M!Op

\* The catalogs of the revisions.
Base == SoFar(0, 0, 0, FALSE)
AtB113 == SoFar(2, 4, 6, TRUE)
AtCb47 == SoFar(3, 6, 8, TRUE)

\* What is made of the orders is a catalog.
LEMMA CatalogIsOne ==
  ASSUME NEW a \in 0 .. 3, NEW b \in 0 .. 6, NEW i \in 0 .. 8, NEW added \in SUBSET Pairs,
         NEW secured \in SUBSET Words, NEW policies \in SUBSET Pairs, NEW s \in BOOLEAN,
         NEW d, d = Catalog(FirstOf(TypeOrder, a), FirstOf(TableOrder, b),
                            FirstOf(IndexOrder, i), added, secured, policies, s)
  PROVE  d \in Catalogs /\ ~ d.failed
<1> DEFINE types == FirstOf(TypeOrder, a)
           tables == FirstOf(TableOrder, b)
           names == FirstOf(IndexOrder, i)
<1>1. types \in SUBSET Words /\ tables \in SUBSET Words
  BY OrdersAre DEF FirstOf
<1>2. /\ DeclaredRefs \in SUBSET Pairs /\ DeclaredUses \in SUBSET Pairs
      /\ DeclaredIndexes \in SUBSET Pairs
  <2>1. DeclaredRefs \in SUBSET Pairs
    BY Ranked, OrdersAre DEF Pairs
  <2>2. DeclaredUses \in SUBSET Pairs
    BY Ranked, OrdersAre DEF Pairs
  <2>3. DeclaredIndexes \in SUBSET Pairs
    BY Ranked, OrdersAre DEF Pairs
  <2>. QED
    BY <2>1, <2>2, <2>3
<1> HIDE DEF types, tables, names
<1>3. d = Catalog(types, tables, names, added, secured, policies, s)
  BY DEF types, tables, names
<1>4. /\ {r \in DeclaredRefs : r[1] \in tables} \in SUBSET Pairs
      /\ {u \in DeclaredUses : u[1] \in tables} \in SUBSET Pairs
      /\ {x \in DeclaredIndexes : x[1] \in names} \in SUBSET Pairs
  BY <1>2
<1>. QED
  BY <1>1, <1>3, <1>4 DEF Catalog, Catalogs

\* What there is so far is a catalog, and nothing was refused.
LEMMA SoFarIsOne ==
  ASSUME NEW a \in 0 .. 3, NEW b \in 0 .. 6, NEW i \in 0 .. 8, NEW s \in BOOLEAN
  PROVE  SoFar(a, b, i, s) \in Catalogs /\ ~ SoFar(a, b, i, s).failed
BY CatalogIsOne DEF SoFar, Plain

\* Nothing is the empty catalog.
LEMMA BaseIsEmpty == Base = M!Empty
<1>1. \A order : FirstOf(order, 0) = {}
  BY DEF FirstOf
<1>. QED
  BY <1>1 DEF Base, SoFar, Plain, Catalog, M!Empty

\* The first revision leads from nothing to the tables of a gateway, ...
LEMMA UpB113 == M!Run(Base, M!UpgradeB113) = AtB113
<1> DEFINE no == FALSE
           yes == TRUE
           c == <<SoFar(0, 0, 0, no), SoFar(1, 0, 0, no), SoFar(2, 0, 0, no),
                  SoFar(2, 1, 0, no), SoFar(2, 2, 0, no), SoFar(2, 2, 1, no),
                  SoFar(2, 2, 2, no), SoFar(2, 3, 2, no), SoFar(2, 3, 3, no),
                  SoFar(2, 4, 3, no), SoFar(2, 4, 4, no), SoFar(2, 4, 5, no),
                  SoFar(2, 4, 6, no), SoFar(2, 4, 6, yes)>>
           ops == M!UpgradeB113
<1>1. /\ Len(ops) = 13 /\ DOMAIN ops = 1 .. 13
      /\ ops[1] = M!CreateType(TypeOrder[1]) /\ ops[2] = M!CreateType(TypeOrder[2])
      /\ ops[3] = M!CreateTable(TableOrder[1], RefsOf[1], UsesOf[1])
      /\ ops[4] = M!CreateTable(TableOrder[2], RefsOf[2], UsesOf[2])
      /\ ops[5] = M!CreateIndex(IndexOrder[1], TableOrder[TableOf[1]])
      /\ ops[6] = M!CreateIndex(IndexOrder[2], TableOrder[TableOf[2]])
      /\ ops[7] = M!CreateTable(TableOrder[3], RefsOf[3], UsesOf[3])
      /\ ops[8] = M!CreateIndex(IndexOrder[3], TableOrder[TableOf[3]])
      /\ ops[9] = M!CreateTable(TableOrder[4], RefsOf[4], UsesOf[4])
      /\ ops[10] = M!CreateIndex(IndexOrder[4], TableOrder[TableOf[4]])
      /\ ops[11] = M!CreateIndex(IndexOrder[5], TableOrder[TableOf[5]])
      /\ ops[12] = M!CreateIndex(IndexOrder[6], TableOrder[TableOf[6]])
      /\ ops[13] = M!SeedAliases
  BY DEF M!UpgradeB113, TypeOrder, TableOrder, IndexOrder, TableOf, RefsOf, UsesOf
<1>2. /\ c[1] = SoFar(0, 0, 0, no) /\ c[2] = SoFar(1, 0, 0, no)
      /\ c[3] = SoFar(2, 0, 0, no) /\ c[4] = SoFar(2, 1, 0, no)
      /\ c[5] = SoFar(2, 2, 0, no) /\ c[6] = SoFar(2, 2, 1, no)
      /\ c[7] = SoFar(2, 2, 2, no) /\ c[8] = SoFar(2, 3, 2, no)
      /\ c[9] = SoFar(2, 3, 3, no) /\ c[10] = SoFar(2, 4, 3, no)
      /\ c[11] = SoFar(2, 4, 4, no) /\ c[12] = SoFar(2, 4, 5, no)
      /\ c[13] = SoFar(2, 4, 6, no) /\ c[14] = SoFar(2, 4, 6, yes)
  OBVIOUS
<1>0. no \in BOOLEAN /\ yes \in BOOLEAN
  OBVIOUS
<1> HIDE DEF c, ops, no, yes
<1>3. Takes(c[1], ops[1], c[2]) /\ Takes(c[2], ops[2], c[3])
  <2>1. /\ Takes(SoFar(0, 0, 0, no), M!CreateType(TypeOrder[1]), SoFar(1, 0, 0, no))
        /\ Takes(SoFar(1, 0, 0, no), M!CreateType(TypeOrder[2]), SoFar(2, 0, 0, no))
    BY TypeGoes
  <2>. QED
    BY <1>1, <1>2, <2>1
<1>4. /\ Takes(c[3], ops[3], c[4]) /\ Takes(c[4], ops[4], c[5])
      /\ Takes(c[7], ops[7], c[8]) /\ Takes(c[9], ops[9], c[10])
  <2> DEFINE Creates(k) == M!CreateTable(TableOrder[k], RefsOf[k], UsesOf[k])
  <2>1. TypesFor[1] = 1 /\ TypesFor[2] = 2 /\ TypesFor[3] = 0 /\ TypesFor[4] = 1
    BY DEF TypesFor
  <2>2. /\ Takes(SoFar(2, 0, 0, no), Creates(1), SoFar(2, 1, 0, no))
        /\ Takes(SoFar(2, 1, 0, no), Creates(2), SoFar(2, 2, 0, no))
        /\ Takes(SoFar(2, 2, 2, no), Creates(3), SoFar(2, 3, 2, no))
        /\ Takes(SoFar(2, 3, 3, no), Creates(4), SoFar(2, 4, 3, no))
    BY <1>0, <2>1, TableGoes
  <2>. QED
    BY <1>1, <1>2, <2>2
<1>5. /\ Takes(c[5], ops[5], c[6]) /\ Takes(c[6], ops[6], c[7]) /\ Takes(c[8], ops[8], c[9])
      /\ Takes(c[10], ops[10], c[11]) /\ Takes(c[11], ops[11], c[12])
      /\ Takes(c[12], ops[12], c[13])
  <2> DEFINE Creates(k) == M!CreateIndex(IndexOrder[k], TableOrder[TableOf[k]])
  <2>1. /\ TableOf[1] = 2 /\ TableOf[2] = 2 /\ TableOf[3] = 3 /\ TableOf[4] = 4
        /\ TableOf[5] = 4 /\ TableOf[6] = 4
    BY DEF TableOf
  <2>2. /\ Takes(SoFar(2, 2, 0, no), Creates(1), SoFar(2, 2, 1, no))
        /\ Takes(SoFar(2, 2, 1, no), Creates(2), SoFar(2, 2, 2, no))
        /\ Takes(SoFar(2, 3, 2, no), Creates(3), SoFar(2, 3, 3, no))
        /\ Takes(SoFar(2, 4, 3, no), Creates(4), SoFar(2, 4, 4, no))
        /\ Takes(SoFar(2, 4, 4, no), Creates(5), SoFar(2, 4, 5, no))
        /\ Takes(SoFar(2, 4, 5, no), Creates(6), SoFar(2, 4, 6, no))
    BY <2>1, IndexGoes
  <2>. QED
    BY <1>1, <1>2, <2>2
<1>6. Takes(c[13], ops[13], c[14])
  BY <1>1, <1>2, Seeds DEF no, yes
<1>7. \A i \in 1 .. 13 : Takes(c[i], ops[i], c[i + 1])
  BY <1>3, <1>4, <1>5, <1>6
<1>8. c[1] \in Catalogs /\ ~ c[14].failed
  <2>1. SoFar(0, 0, 0, no) \in Catalogs /\ ~ SoFar(2, 4, 6, yes).failed
    BY <1>0, SoFarIsOne
  <2>. QED
    BY <1>2, <2>1
<1>9. IsChain(c, ops, 13)
  BY <1>1, <1>7, <1>8 DEF IsChain
<1>10. M!Run(c[1], ops) = c[14]
  BY <1>9, RunIs
<1>. QED
  BY <1>2, <1>10 DEF Base, AtB113, ops, no, yes

\* ... and back.
LEMMA DownB113 == M!Run(AtB113, M!DowngradeB113) = Base
<1> DEFINE no == FALSE
           yes == TRUE
           c == <<SoFar(2, 4, 6, yes), SoFar(2, 4, 5, yes), SoFar(2, 4, 4, yes),
                  SoFar(2, 4, 3, yes), SoFar(2, 3, 3, yes), SoFar(2, 3, 2, yes),
                  SoFar(2, 2, 2, yes), SoFar(2, 2, 1, yes), SoFar(2, 2, 0, yes),
                  SoFar(2, 1, 0, yes), SoFar(2, 0, 0, no), SoFar(1, 0, 0, no),
                  SoFar(0, 0, 0, no)>>
           ops == M!DowngradeB113
<1>1. /\ Len(ops) = 12 /\ DOMAIN ops = 1 .. 12
      /\ ops[1] = M!DropIndex(IndexOrder[6]) /\ ops[2] = M!DropIndex(IndexOrder[5])
      /\ ops[3] = M!DropIndex(IndexOrder[4]) /\ ops[4] = M!DropTable(TableOrder[4])
      /\ ops[5] = M!DropIndex(IndexOrder[3]) /\ ops[6] = M!DropTable(TableOrder[3])
      /\ ops[7] = M!DropIndex(IndexOrder[2]) /\ ops[8] = M!DropIndex(IndexOrder[1])
      /\ ops[9] = M!DropTable(TableOrder[2]) /\ ops[10] = M!DropTable(TableOrder[1])
      /\ ops[11] = M!DropType(TypeOrder[2]) /\ ops[12] = M!DropType(TypeOrder[1])
  BY DEF M!DowngradeB113, TypeOrder, TableOrder, IndexOrder
<1>2. /\ c[1] = SoFar(2, 4, 6, yes) /\ c[2] = SoFar(2, 4, 5, yes)
      /\ c[3] = SoFar(2, 4, 4, yes) /\ c[4] = SoFar(2, 4, 3, yes)
      /\ c[5] = SoFar(2, 3, 3, yes) /\ c[6] = SoFar(2, 3, 2, yes)
      /\ c[7] = SoFar(2, 2, 2, yes) /\ c[8] = SoFar(2, 2, 1, yes)
      /\ c[9] = SoFar(2, 2, 0, yes) /\ c[10] = SoFar(2, 1, 0, yes)
      /\ c[11] = SoFar(2, 0, 0, no) /\ c[12] = SoFar(1, 0, 0, no)
      /\ c[13] = SoFar(0, 0, 0, no)
  OBVIOUS
<1>0. no \in BOOLEAN /\ yes \in BOOLEAN /\ ~ no
  OBVIOUS
<1> HIDE DEF c, ops, no, yes
<1>3. /\ Takes(c[1], ops[1], c[2]) /\ Takes(c[2], ops[2], c[3]) /\ Takes(c[3], ops[3], c[4])
      /\ Takes(c[5], ops[5], c[6]) /\ Takes(c[7], ops[7], c[8]) /\ Takes(c[8], ops[8], c[9])
  <2>1. /\ Takes(SoFar(2, 4, 6, yes), M!DropIndex(IndexOrder[6]), SoFar(2, 4, 5, yes))
        /\ Takes(SoFar(2, 4, 5, yes), M!DropIndex(IndexOrder[5]), SoFar(2, 4, 4, yes))
        /\ Takes(SoFar(2, 4, 4, yes), M!DropIndex(IndexOrder[4]), SoFar(2, 4, 3, yes))
        /\ Takes(SoFar(2, 3, 3, yes), M!DropIndex(IndexOrder[3]), SoFar(2, 3, 2, yes))
        /\ Takes(SoFar(2, 2, 2, yes), M!DropIndex(IndexOrder[2]), SoFar(2, 2, 1, yes))
        /\ Takes(SoFar(2, 2, 1, yes), M!DropIndex(IndexOrder[1]), SoFar(2, 2, 0, yes))
    BY IndexGoes
  <2>. QED
    BY <1>1, <1>2, <2>1
<1>4. /\ Takes(c[4], ops[4], c[5]) /\ Takes(c[6], ops[6], c[7]) /\ Takes(c[9], ops[9], c[10])
      /\ Takes(c[10], ops[10], c[11])
  <2>1. /\ IndexesBefore[1] = 0 /\ IndexesBefore[2] = 0 /\ IndexesBefore[3] = 2
        /\ IndexesBefore[4] = 3
    BY DEF IndexesBefore
  <2>2. /\ Takes(SoFar(2, 4, 3, yes), M!DropTable(TableOrder[4]), SoFar(2, 3, 3, yes))
        /\ Takes(SoFar(2, 3, 2, yes), M!DropTable(TableOrder[3]), SoFar(2, 2, 2, yes))
        /\ Takes(SoFar(2, 2, 0, yes), M!DropTable(TableOrder[2]), SoFar(2, 1, 0, yes))
        /\ Takes(SoFar(2, 1, 0, yes), M!DropTable(TableOrder[1]), SoFar(2, 0, 0, no))
    BY <1>0, <2>1, TableGoes
  <2>. QED
    BY <1>1, <1>2, <2>2
<1>5. Takes(c[11], ops[11], c[12]) /\ Takes(c[12], ops[12], c[13])
  <2>1. FirstUse[1] = 1 /\ FirstUse[2] = 2
    BY DEF FirstUse
  <2>2. /\ Takes(SoFar(2, 0, 0, no), M!DropType(TypeOrder[2]), SoFar(1, 0, 0, no))
        /\ Takes(SoFar(1, 0, 0, no), M!DropType(TypeOrder[1]), SoFar(0, 0, 0, no))
    BY <2>1, TypeGoes
  <2>. QED
    BY <1>1, <1>2, <2>2
<1>6. \A i \in 1 .. 12 : Takes(c[i], ops[i], c[i + 1])
  BY <1>3, <1>4, <1>5
<1>7. c[1] \in Catalogs /\ ~ c[13].failed
  <2>1. SoFar(2, 4, 6, yes) \in Catalogs /\ ~ SoFar(0, 0, 0, no).failed
    BY <1>0, SoFarIsOne
  <2>. QED
    BY <1>2, <2>1
<1>8. IsChain(c, ops, 12)
  BY <1>1, <1>6, <1>7 DEF IsChain
<1>9. M!Run(c[1], ops) = c[13]
  BY <1>8, RunIs
<1>. QED
  BY <1>2, <1>9 DEF Base, AtB113, ops, no, yes

\* The second adds the tables of the prompts, ...
LEMMA UpCb47 == M!Run(AtB113, M!UpgradeCb47) = AtCb47
<1> DEFINE yes == TRUE
           c == <<SoFar(2, 4, 6, yes), SoFar(3, 4, 6, yes), SoFar(3, 5, 6, yes),
                  SoFar(3, 6, 6, yes), SoFar(3, 6, 7, yes), SoFar(3, 6, 8, yes)>>
           ops == M!UpgradeCb47
<1>1. /\ Len(ops) = 5 /\ DOMAIN ops = 1 .. 5
      /\ ops[1] = M!CreateType(TypeOrder[3])
      /\ ops[2] = M!CreateTable(TableOrder[5], RefsOf[5], UsesOf[5])
      /\ ops[3] = M!CreateTable(TableOrder[6], RefsOf[6], UsesOf[6])
      /\ ops[4] = M!CreateIndex(IndexOrder[7], TableOrder[TableOf[7]])
      /\ ops[5] = M!CreateIndex(IndexOrder[8], TableOrder[TableOf[8]])
  BY DEF M!UpgradeCb47, TypeOrder, TableOrder, IndexOrder, TableOf, RefsOf, UsesOf
<1>2. /\ c[1] = SoFar(2, 4, 6, yes) /\ c[2] = SoFar(3, 4, 6, yes)
      /\ c[3] = SoFar(3, 5, 6, yes) /\ c[4] = SoFar(3, 6, 6, yes)
      /\ c[5] = SoFar(3, 6, 7, yes) /\ c[6] = SoFar(3, 6, 8, yes)
  OBVIOUS
<1>0. yes \in BOOLEAN
  OBVIOUS
<1> HIDE DEF c, ops, yes
<1>3. Takes(c[1], ops[1], c[2])
  <2>1. Takes(SoFar(2, 4, 6, yes), M!CreateType(TypeOrder[3]), SoFar(3, 4, 6, yes))
    BY TypeGoes
  <2>. QED
    BY <1>1, <1>2, <2>1
<1>4. Takes(c[2], ops[2], c[3]) /\ Takes(c[3], ops[3], c[4])
  <2> DEFINE Creates(k) == M!CreateTable(TableOrder[k], RefsOf[k], UsesOf[k])
  <2>1. TypesFor[5] = 0 /\ TypesFor[6] = 3
    BY DEF TypesFor
  <2>2. /\ Takes(SoFar(3, 4, 6, yes), Creates(5), SoFar(3, 5, 6, yes))
        /\ Takes(SoFar(3, 5, 6, yes), Creates(6), SoFar(3, 6, 6, yes))
    BY <1>0, <2>1, TableGoes
  <2>. QED
    BY <1>1, <1>2, <2>2
<1>5. Takes(c[4], ops[4], c[5]) /\ Takes(c[5], ops[5], c[6])
  <2> DEFINE Creates(k) == M!CreateIndex(IndexOrder[k], TableOrder[TableOf[k]])
  <2>1. TableOf[7] = 6 /\ TableOf[8] = 6
    BY DEF TableOf
  <2>2. /\ Takes(SoFar(3, 6, 6, yes), Creates(7), SoFar(3, 6, 7, yes))
        /\ Takes(SoFar(3, 6, 7, yes), Creates(8), SoFar(3, 6, 8, yes))
    BY <2>1, IndexGoes
  <2>. QED
    BY <1>1, <1>2, <2>2
<1>6. \A i \in 1 .. 5 : Takes(c[i], ops[i], c[i + 1])
  BY <1>3, <1>4, <1>5
<1>7. c[1] \in Catalogs /\ ~ c[6].failed
  <2>1. SoFar(2, 4, 6, yes) \in Catalogs /\ ~ SoFar(3, 6, 8, yes).failed
    BY <1>0, SoFarIsOne
  <2>. QED
    BY <1>2, <2>1
<1>8. IsChain(c, ops, 5)
  BY <1>1, <1>6, <1>7 DEF IsChain
<1>9. M!Run(c[1], ops) = c[6]
  BY <1>8, RunIs
<1>. QED
  BY <1>2, <1>9 DEF AtB113, AtCb47, ops, yes

\* ... and takes them back.
LEMMA DownCb47 == M!Run(AtCb47, M!DowngradeCb47) = AtB113
<1> DEFINE yes == TRUE
           c == <<SoFar(3, 6, 8, yes), SoFar(3, 6, 7, yes), SoFar(3, 6, 6, yes),
                  SoFar(3, 5, 6, yes), SoFar(3, 4, 6, yes), SoFar(2, 4, 6, yes)>>
           ops == M!DowngradeCb47
<1>1. /\ Len(ops) = 5 /\ DOMAIN ops = 1 .. 5
      /\ ops[1] = M!DropIndex(IndexOrder[8]) /\ ops[2] = M!DropIndex(IndexOrder[7])
      /\ ops[3] = M!DropTable(TableOrder[6]) /\ ops[4] = M!DropTable(TableOrder[5])
      /\ ops[5] = M!DropType(TypeOrder[3])
  BY DEF M!DowngradeCb47, TypeOrder, TableOrder, IndexOrder
<1>2. /\ c[1] = SoFar(3, 6, 8, yes) /\ c[2] = SoFar(3, 6, 7, yes)
      /\ c[3] = SoFar(3, 6, 6, yes) /\ c[4] = SoFar(3, 5, 6, yes)
      /\ c[5] = SoFar(3, 4, 6, yes) /\ c[6] = SoFar(2, 4, 6, yes)
  OBVIOUS
<1>0. yes \in BOOLEAN
  OBVIOUS
<1> HIDE DEF c, ops, yes
<1>3. Takes(c[1], ops[1], c[2]) /\ Takes(c[2], ops[2], c[3])
  <2>1. /\ Takes(SoFar(3, 6, 8, yes), M!DropIndex(IndexOrder[8]), SoFar(3, 6, 7, yes))
        /\ Takes(SoFar(3, 6, 7, yes), M!DropIndex(IndexOrder[7]), SoFar(3, 6, 6, yes))
    BY IndexGoes
  <2>. QED
    BY <1>1, <1>2, <2>1
<1>4. Takes(c[3], ops[3], c[4]) /\ Takes(c[4], ops[4], c[5])
  <2>1. IndexesBefore[5] = 6 /\ IndexesBefore[6] = 6
    BY DEF IndexesBefore
  <2>2. /\ Takes(SoFar(3, 6, 6, yes), M!DropTable(TableOrder[6]), SoFar(3, 5, 6, yes))
        /\ Takes(SoFar(3, 5, 6, yes), M!DropTable(TableOrder[5]), SoFar(3, 4, 6, yes))
    BY <1>0, <2>1, TableGoes
  <2>. QED
    BY <1>1, <1>2, <2>2
<1>5. Takes(c[5], ops[5], c[6])
  <2>1. FirstUse[3] = 6
    BY DEF FirstUse
  <2>2. Takes(SoFar(3, 4, 6, yes), M!DropType(TypeOrder[3]), SoFar(2, 4, 6, yes))
    BY <2>1, TypeGoes
  <2>. QED
    BY <1>1, <1>2, <2>2
<1>6. \A i \in 1 .. 5 : Takes(c[i], ops[i], c[i + 1])
  BY <1>3, <1>4, <1>5
<1>7. c[1] \in Catalogs /\ ~ c[6].failed
  <2>1. SoFar(3, 6, 8, yes) \in Catalogs /\ ~ SoFar(2, 4, 6, yes).failed
    BY <1>0, SoFarIsOne
  <2>. QED
    BY <1>2, <2>1
<1>8. IsChain(c, ops, 5)
  BY <1>1, <1>6, <1>7 DEF IsChain
<1>9. M!Run(c[1], ops) = c[6]
  BY <1>8, RunIs
<1>. QED
  BY <1>2, <1>9 DEF AtB113, AtCb47, ops, yes

\* The third adds a column to api_keys, the fourth secures the tenants' tables.
AtD2f1 == Catalog(FirstOf(TypeOrder, 3), FirstOf(TableOrder, 6), FirstOf(IndexOrder, 8),
                  {<<"api_keys", "expires_at">>}, {}, {}, TRUE)

Securing(secured, policies) ==
  Catalog(FirstOf(TypeOrder, 3), FirstOf(TableOrder, 6), FirstOf(IndexOrder, 8),
          {<<"api_keys", "expires_at">>}, secured, policies, TRUE)

AtE4b8 == Securing({"call_records", "budgets"},
                   {<<"call_records_read_tenant", "call_records">>,
                    <<"call_records_insert_server", "call_records">>,
                    <<"budgets_read_tenant", "budgets">>,
                    <<"budgets_insert_server", "budgets">>})

\* Those catalogs, too, are catalogs.
LEMMA LaterAreCatalogs ==
  /\ AtCb47 \in Catalogs /\ AtD2f1 \in Catalogs /\ AtE4b8 \in Catalogs
  /\ ~ AtCb47.failed /\ ~ AtD2f1.failed /\ ~ AtE4b8.failed
<1> DEFINE yes == TRUE
           added == {<<"api_keys", "expires_at">>}
           secured == {"call_records", "budgets"}
           policies == {<<"call_records_read_tenant", "call_records">>,
                        <<"call_records_insert_server", "call_records">>,
                        <<"budgets_read_tenant", "budgets">>,
                        <<"budgets_insert_server", "budgets">>}
           made(a, s, p) == Catalog(FirstOf(TypeOrder, 3), FirstOf(TableOrder, 6),
                                    FirstOf(IndexOrder, 8), a, s, p, yes)
<1>1. /\ added \in SUBSET Pairs /\ secured \in SUBSET Words /\ policies \in SUBSET Pairs
      /\ yes \in BOOLEAN
  BY DEF Words, Pairs
<1>2. /\ AtCb47 = made({}, {}, {}) /\ AtD2f1 = made(added, {}, {})
      /\ AtE4b8 = made(added, secured, policies)
  BY DEF AtCb47, SoFar, Plain, AtD2f1, AtE4b8, Securing
<1> HIDE DEF added, secured, policies, yes
<1>. QED
  BY <1>1, <1>2, CatalogIsOne

\* The third revision adds the column, ...
LEMMA UpD2f1 == M!Run(AtCb47, M!UpgradeD2f1) = AtD2f1
<1> DEFINE c == <<AtCb47, AtD2f1>>
           ops == M!UpgradeD2f1
<1>1. Len(ops) = 1 /\ DOMAIN ops = 1 .. 1 /\ ops[1] = M!AddColumn("api_keys", "expires_at")
  BY DEF M!UpgradeD2f1
<1>2. c[1] = AtCb47 /\ c[2] = AtD2f1
  OBVIOUS
<1>3. "api_keys" \in FirstOf(TableOrder, 6)
  <2>1. TableOrder[2] = "api_keys"
    BY DEF TableOrder
  <2>. QED
    BY <2>1 DEF FirstOf
<1> HIDE DEF c, ops
<1>4. Takes(AtCb47, M!AddColumn("api_keys", "expires_at"), AtD2f1)
  BY <1>3 DEF Takes, IsDdl, Words, AtCb47, AtD2f1, SoFar, Plain, Catalog, M!Accepts, M!Apply,
     M!AddColumn, M!Op
<1>5. IsChain(c, ops, 1)
  BY <1>1, <1>2, <1>4, LaterAreCatalogs DEF IsChain
<1>6. M!Run(c[1], ops) = c[2]
  BY <1>5, RunIs
<1>. QED
  BY <1>2, <1>6 DEF ops

\* ... and drops it.
LEMMA DownD2f1 == M!Run(AtD2f1, M!DowngradeD2f1) = AtCb47
<1> DEFINE c == <<AtD2f1, AtCb47>>
           ops == M!DowngradeD2f1
<1>1. Len(ops) = 1 /\ DOMAIN ops = 1 .. 1 /\ ops[1] = M!DropColumn("api_keys", "expires_at")
  BY DEF M!DowngradeD2f1
<1>2. c[1] = AtD2f1 /\ c[2] = AtCb47
  OBVIOUS
<1> HIDE DEF c, ops
<1>4. Takes(AtD2f1, M!DropColumn("api_keys", "expires_at"), AtCb47)
  BY DEF Takes, IsDdl, Words, AtCb47, AtD2f1, SoFar, Plain, Catalog, M!Accepts, M!Apply,
     M!DropColumn, M!Op
<1>5. IsChain(c, ops, 1)
  BY <1>1, <1>2, <1>4, LaterAreCatalogs DEF IsChain
<1>6. M!Run(c[1], ops) = c[2]
  BY <1>5, RunIs
<1>. QED
  BY <1>2, <1>6 DEF ops

\* A table is secured, and no longer.
LEMMA SecurityGoes ==
  ASSUME NEW t \in Words, t \in FirstOf(TableOrder, 6), NEW s, NEW more, NEW p
  PROVE  /\ more = s \union {t} => Takes(Securing(s, p), M!Op("secure", t, {}), Securing(more, p))
         /\ s = more \ {t} => Takes(Securing(more, p), M!Op("unsecure", t, {}), Securing(s, p))
<1> HIDE DEF Words
<1>. QED
  BY DEF Takes, IsDdl, Securing, Catalog, M!Accepts, M!Apply, M!Op

\* A policy comes under a name that is free, and goes by its name.
LEMMA PolicyGoes ==
  ASSUME NEW t \in Words, t \in FirstOf(TableOrder, 6), NEW x \in Words, NEW s, NEW p, NEW more
  PROVE  /\ more = p \union {<<x, t>>} /\ (\A q \in p : q[1] # x) =>
              Takes(Securing(s, p), M!Op("create_policy", x, t), Securing(s, more))
         /\ p = {q \in more : q[1] # x} =>
              Takes(Securing(s, more), M!Op("drop_policy", x, t), Securing(s, p))
<1> HIDE DEF Words
<1>1. ASSUME more = p \union {<<x, t>>}, \A q \in p : q[1] # x
      PROVE  Takes(Securing(s, p), M!Op("create_policy", x, t), Securing(s, more))
  BY <1>1 DEF Takes, IsDdl, Securing, Catalog, M!Accepts, M!Apply, M!Op
<1>2. ASSUME p = {q \in more : q[1] # x}
      PROVE  Takes(Securing(s, more), M!Op("drop_policy", x, t), Securing(s, p))
  BY <1>2 DEF Takes, IsDdl, Securing, Catalog, M!Accepts, M!Apply, M!Op
<1>. QED
  BY <1>1, <1>2

\* The tenants' tables, and their policies.
LEMMA SecuredAre ==
  /\ "call_records" \in FirstOf(TableOrder, 6) /\ "budgets" \in FirstOf(TableOrder, 6)
  /\ "call_records" \in Words /\ "budgets" \in Words
  /\ "call_records_read_tenant" \in Words /\ "call_records_insert_server" \in Words
  /\ "budgets_read_tenant" \in Words /\ "budgets_insert_server" \in Words
<1>1. TableOrder[4] = "call_records" /\ TableOrder[3] = "budgets"
  BY DEF TableOrder
<1>. QED
  BY <1>1 DEF FirstOf, Words

\* The fourth secures the tables of the tenants, ...
LEMMA UpE4b8 == M!Run(AtD2f1, M!UpgradeE4b8) = AtE4b8
<1> DEFINE t == "call_records"
           u == "budgets"
           tr == <<"call_records_read_tenant", "call_records">>
           ti == <<"call_records_insert_server", "call_records">>
           ur == <<"budgets_read_tenant", "budgets">>
           ui == <<"budgets_insert_server", "budgets">>
           c == <<Securing({}, {}), Securing({t}, {}), Securing({t}, {tr}),
                  Securing({t}, {tr, ti}), Securing({t, u}, {tr, ti}),
                  Securing({t, u}, {tr, ti, ur}), Securing({t, u}, {tr, ti, ur, ui})>>
           ops == M!UpgradeE4b8
<1>1. /\ Len(ops) = 6 /\ DOMAIN ops = 1 .. 6
      /\ ops[1] = M!Op("secure", t, {})
      /\ ops[2] = M!Op("create_policy", "call_records_read_tenant", t)
      /\ ops[3] = M!Op("create_policy", "call_records_insert_server", t)
      /\ ops[4] = M!Op("secure", u, {})
      /\ ops[5] = M!Op("create_policy", "budgets_read_tenant", u)
      /\ ops[6] = M!Op("create_policy", "budgets_insert_server", u)
  <2>1. /\ M!EnableSql(t) = <<M!Op("secure", t, {}),
                              M!Op("create_policy", "call_records_read_tenant", t),
                              M!Op("create_policy", "call_records_insert_server", t)>>
        /\ M!EnableSql(u) = <<M!Op("secure", u, {}),
                              M!Op("create_policy", "budgets_read_tenant", u),
                              M!Op("create_policy", "budgets_insert_server", u)>>
    BY DEF M!EnableSql, M!ReadPolicy, M!InsertPolicy
  <2>2. ops = M!EnableSql(t) \o M!EnableSql(u)
    BY DEF M!UpgradeE4b8, M!RlsTables
  <2> HIDE DEF t, u, ops
  <2>. QED
    BY <2>1, <2>2
<1>2. /\ c[1] = Securing({}, {}) /\ c[2] = Securing({t}, {}) /\ c[3] = Securing({t}, {tr})
      /\ c[4] = Securing({t}, {tr, ti}) /\ c[5] = Securing({t, u}, {tr, ti})
      /\ c[6] = Securing({t, u}, {tr, ti, ur}) /\ c[7] = Securing({t, u}, {tr, ti, ur, ui})
  OBVIOUS
<1> HIDE DEF c, ops
<1>3. Takes(c[1], ops[1], c[2])
  <2>1. Takes(Securing({}, {}), M!Op("secure", t, {}), Securing({t}, {}))
    BY SecuredAre, SecurityGoes
  <2>. QED
    BY <1>1, <1>2, <2>1
<1>4. Takes(c[2], ops[2], c[3])
  <2>1. {tr} = {} \union {tr}
    OBVIOUS
  <2>2. Takes(Securing({t}, {}), M!Op("create_policy", "call_records_read_tenant", t),
              Securing({t}, {tr}))
    BY <2>1, SecuredAre, PolicyGoes
  <2>. QED
    BY <1>1, <1>2, <2>2
<1>5. Takes(c[3], ops[3], c[4])
  <2>1. {tr, ti} = {tr} \union {ti} /\ \A q \in {tr} : q[1] # "call_records_insert_server"
    OBVIOUS
  <2>2. Takes(Securing({t}, {tr}), M!Op("create_policy", "call_records_insert_server", t),
              Securing({t}, {tr, ti}))
    BY <2>1, SecuredAre, PolicyGoes
  <2>. QED
    BY <1>1, <1>2, <2>2
<1>6. Takes(c[4], ops[4], c[5])
  <2>1. {t, u} = {t} \union {u}
    OBVIOUS
  <2>2. Takes(Securing({t}, {tr, ti}), M!Op("secure", u, {}), Securing({t, u}, {tr, ti}))
    BY <2>1, SecuredAre, SecurityGoes
  <2>. QED
    BY <1>1, <1>2, <2>2
<1>7. Takes(c[5], ops[5], c[6])
  <2>1. /\ {tr, ti, ur} = {tr, ti} \union {ur}
        /\ \A q \in {tr, ti} : q[1] # "budgets_read_tenant"
    OBVIOUS
  <2>2. Takes(Securing({t, u}, {tr, ti}), M!Op("create_policy", "budgets_read_tenant", u),
              Securing({t, u}, {tr, ti, ur}))
    BY <2>1, SecuredAre, PolicyGoes
  <2>. QED
    BY <1>1, <1>2, <2>2
<1>8. Takes(c[6], ops[6], c[7])
  <2>1. /\ {tr, ti, ur, ui} = {tr, ti, ur} \union {ui}
        /\ \A q \in {tr, ti, ur} : q[1] # "budgets_insert_server"
    OBVIOUS
  <2>2. Takes(Securing({t, u}, {tr, ti, ur}), M!Op("create_policy", "budgets_insert_server", u),
              Securing({t, u}, {tr, ti, ur, ui}))
    BY <2>1, SecuredAre, PolicyGoes
  <2>. QED
    BY <1>1, <1>2, <2>2
<1>9. \A i \in 1 .. 6 : Takes(c[i], ops[i], c[i + 1])
  BY <1>3, <1>4, <1>5, <1>6, <1>7, <1>8
<1>10. c[1] = AtD2f1 /\ c[7] = AtE4b8
  BY <1>2 DEF AtD2f1, AtE4b8, Securing
<1>11. IsChain(c, ops, 6)
  BY <1>1, <1>9, <1>10, LaterAreCatalogs DEF IsChain
<1>12. M!Run(c[1], ops) = c[7]
  BY <1>11, RunIs
<1>. QED
  BY <1>10, <1>12 DEF ops

\* ... and undoes it.
LEMMA DownE4b8 == M!Run(AtE4b8, M!DowngradeE4b8) = AtD2f1
<1> DEFINE t == "call_records"
           u == "budgets"
           tr == <<"call_records_read_tenant", "call_records">>
           ti == <<"call_records_insert_server", "call_records">>
           ur == <<"budgets_read_tenant", "budgets">>
           ui == <<"budgets_insert_server", "budgets">>
           c == <<Securing({t, u}, {tr, ti, ur, ui}), Securing({t, u}, {tr, ur, ui}),
                  Securing({t, u}, {ur, ui}), Securing({u}, {ur, ui}), Securing({u}, {ur}),
                  Securing({u}, {}), Securing({}, {})>>
           ops == M!DowngradeE4b8
<1>1. /\ Len(ops) = 6 /\ DOMAIN ops = 1 .. 6
      /\ ops[1] = M!Op("drop_policy", "call_records_insert_server", t)
      /\ ops[2] = M!Op("drop_policy", "call_records_read_tenant", t)
      /\ ops[3] = M!Op("unsecure", t, {})
      /\ ops[4] = M!Op("drop_policy", "budgets_insert_server", u)
      /\ ops[5] = M!Op("drop_policy", "budgets_read_tenant", u)
      /\ ops[6] = M!Op("unsecure", u, {})
  <2>1. /\ M!DisableSql(t) = <<M!Op("drop_policy", "call_records_insert_server", t),
                               M!Op("drop_policy", "call_records_read_tenant", t),
                               M!Op("unsecure", t, {})>>
        /\ M!DisableSql(u) = <<M!Op("drop_policy", "budgets_insert_server", u),
                               M!Op("drop_policy", "budgets_read_tenant", u),
                               M!Op("unsecure", u, {})>>
    BY DEF M!DisableSql, M!ReadPolicy, M!InsertPolicy
  <2>2. ops = M!DisableSql(t) \o M!DisableSql(u)
    BY DEF M!DowngradeE4b8, M!RlsTables
  <2> HIDE DEF t, u, ops
  <2>. QED
    BY <2>1, <2>2
<1>2. /\ c[1] = Securing({t, u}, {tr, ti, ur, ui}) /\ c[2] = Securing({t, u}, {tr, ur, ui})
      /\ c[3] = Securing({t, u}, {ur, ui}) /\ c[4] = Securing({u}, {ur, ui})
      /\ c[5] = Securing({u}, {ur}) /\ c[6] = Securing({u}, {}) /\ c[7] = Securing({}, {})
  OBVIOUS
<1> HIDE DEF c, ops
<1>3. Takes(c[1], ops[1], c[2])
  <2>1. {tr, ur, ui} = {q \in {tr, ti, ur, ui} : q[1] # "call_records_insert_server"}
    OBVIOUS
  <2>2. Takes(Securing({t, u}, {tr, ti, ur, ui}),
              M!Op("drop_policy", "call_records_insert_server", t), Securing({t, u}, {tr, ur, ui}))
    BY <2>1, SecuredAre, PolicyGoes
  <2>. QED
    BY <1>1, <1>2, <2>2
<1>4. Takes(c[2], ops[2], c[3])
  <2>1. {ur, ui} = {q \in {tr, ur, ui} : q[1] # "call_records_read_tenant"}
    OBVIOUS
  <2>2. Takes(Securing({t, u}, {tr, ur, ui}),
              M!Op("drop_policy", "call_records_read_tenant", t), Securing({t, u}, {ur, ui}))
    BY <2>1, SecuredAre, PolicyGoes
  <2>. QED
    BY <1>1, <1>2, <2>2
<1>5. Takes(c[3], ops[3], c[4])
  <2>1. {u} = {t, u} \ {t}
    OBVIOUS
  <2>2. Takes(Securing({t, u}, {ur, ui}), M!Op("unsecure", t, {}), Securing({u}, {ur, ui}))
    BY <2>1, SecuredAre, SecurityGoes
  <2>. QED
    BY <1>1, <1>2, <2>2
<1>6. Takes(c[4], ops[4], c[5])
  <2>1. {ur} = {q \in {ur, ui} : q[1] # "budgets_insert_server"}
    OBVIOUS
  <2>2. Takes(Securing({u}, {ur, ui}), M!Op("drop_policy", "budgets_insert_server", u),
              Securing({u}, {ur}))
    BY <2>1, SecuredAre, PolicyGoes
  <2>. QED
    BY <1>1, <1>2, <2>2
<1>7. Takes(c[5], ops[5], c[6])
  <2>1. {} = {q \in {ur} : q[1] # "budgets_read_tenant"}
    OBVIOUS
  <2>2. Takes(Securing({u}, {ur}), M!Op("drop_policy", "budgets_read_tenant", u),
              Securing({u}, {}))
    BY <2>1, SecuredAre, PolicyGoes
  <2>. QED
    BY <1>1, <1>2, <2>2
<1>8. Takes(c[6], ops[6], c[7])
  <2>1. {} = {u} \ {u}
    OBVIOUS
  <2>2. Takes(Securing({u}, {}), M!Op("unsecure", u, {}), Securing({}, {}))
    BY <2>1, SecuredAre, SecurityGoes
  <2>. QED
    BY <1>1, <1>2, <2>2
<1>9. \A i \in 1 .. 6 : Takes(c[i], ops[i], c[i + 1])
  BY <1>3, <1>4, <1>5, <1>6, <1>7, <1>8
<1>10. c[1] = AtE4b8 /\ c[7] = AtD2f1
  BY <1>2 DEF AtD2f1, AtE4b8, Securing
<1>11. IsChain(c, ops, 6)
  BY <1>1, <1>9, <1>10, LaterAreCatalogs DEF IsChain
<1>12. M!Run(c[1], ops) = c[7]
  BY <1>11, RunIs
<1>. QED
  BY <1>10, <1>12 DEF ops

\* The catalog of every revision, and where a walk over them may be.
Revision == <<Base, AtB113, AtCb47, AtD2f1, AtE4b8>>

Stop(r) == [rev |-> r, db |-> Revision[r + 1]]

Stops == {Stop(r) : r \in 0 .. 4}

\* A step up or down leads from a revision to the next or the one before, and
\* there is none after the last and before the first.
LEMMA MigrateIs ==
  ASSUME NEW r \in 0 .. 4
  PROVE  /\ r < 4 => M!Migrate(Stop(r), "up") = Stop(r + 1)
         /\ r > 0 => M!Migrate(Stop(r), "down") = Stop(r - 1)
         /\ r = 4 => M!Migrate(Stop(r), "up") = Stop(r)
         /\ r = 0 => M!Migrate(Stop(r), "down") = Stop(r)
<1>1. /\ Len(M!Upgrades) = 4 /\ M!Upgrades[1] = M!UpgradeB113 /\ M!Upgrades[2] = M!UpgradeCb47
      /\ M!Upgrades[3] = M!UpgradeD2f1 /\ M!Upgrades[4] = M!UpgradeE4b8
      /\ M!Downgrades[1] = M!DowngradeB113 /\ M!Downgrades[2] = M!DowngradeCb47
      /\ M!Downgrades[3] = M!DowngradeD2f1 /\ M!Downgrades[4] = M!DowngradeE4b8
  BY DEF M!Upgrades, M!Downgrades
<1>2. /\ Revision[1] = Base /\ Revision[2] = AtB113 /\ Revision[3] = AtCb47
      /\ Revision[4] = AtD2f1 /\ Revision[5] = AtE4b8
  BY DEF Revision
<1>3. /\ M!Run(Revision[1], M!Upgrades[1]) = Revision[2]
      /\ M!Run(Revision[2], M!Upgrades[2]) = Revision[3]
      /\ M!Run(Revision[3], M!Upgrades[3]) = Revision[4]
      /\ M!Run(Revision[4], M!Upgrades[4]) = Revision[5]
  BY <1>1, <1>2, UpB113, UpCb47, UpD2f1, UpE4b8
<1>4. /\ M!Run(Revision[2], M!Downgrades[1]) = Revision[1]
      /\ M!Run(Revision[3], M!Downgrades[2]) = Revision[2]
      /\ M!Run(Revision[4], M!Downgrades[3]) = Revision[3]
      /\ M!Run(Revision[5], M!Downgrades[4]) = Revision[4]
  BY <1>1, <1>2, DownB113, DownCb47, DownD2f1, DownE4b8
<1>5. \A k \in 1 .. 4 : k = 1 \/ k = 2 \/ k = 3 \/ k = 4
  OBVIOUS
<1>6. \A k \in 1 .. 4 : /\ M!Run(Revision[k], M!Upgrades[k]) = Revision[k + 1]
                        /\ M!Run(Revision[k + 1], M!Downgrades[k]) = Revision[k]
  BY <1>3, <1>4, <1>5
<1>7. Stop(r).rev = r /\ Stop(r).db = Revision[r + 1]
  BY DEF Stop
<1>8. ASSUME r < 4 PROVE M!Migrate(Stop(r), "up") = Stop(r + 1)
  <2>1. M!Migrate(Stop(r), "up") = [rev |-> r + 1, db |-> M!Run(Revision[r + 1], M!Upgrades[r + 1])]
    BY <1>1, <1>7, <1>8 DEF M!Migrate
  <2>2. r + 1 \in 1 .. 4
    BY <1>8
  <2>3. M!Run(Revision[r + 1], M!Upgrades[r + 1]) = Revision[(r + 1) + 1]
    BY <1>6, <2>2
  <2>. QED
    BY <2>1, <2>3 DEF Stop
<1>9. ASSUME r > 0 PROVE M!Migrate(Stop(r), "down") = Stop(r - 1)
  <2>1. M!Migrate(Stop(r), "down") = [rev |-> r - 1, db |-> M!Run(Revision[r + 1], M!Downgrades[r])]
    BY <1>7, <1>9 DEF M!Migrate
  <2>2. r \in 1 .. 4 /\ (r - 1) + 1 = r
    BY <1>9
  <2>3. M!Run(Revision[r + 1], M!Downgrades[r]) = Revision[r]
    BY <1>6, <2>2
  <2>. QED
    BY <2>1, <2>2, <2>3 DEF Stop
<1>10. ASSUME r = 4 PROVE M!Migrate(Stop(r), "up") = Stop(r)
  BY <1>1, <1>7, <1>10 DEF M!Migrate
<1>11. ASSUME r = 0 PROVE M!Migrate(Stop(r), "down") = Stop(r)
  BY <1>7, <1>11 DEF M!Migrate
<1>. QED
  BY <1>8, <1>9, <1>10, <1>11

\* A walk over the revisions is taken step by step.
LEMMA WalkIsStepwise ==
  ASSUME NEW steps \in Seq({"up", "down"})
  PROVE  \E walk : /\ walk[0] = Stop(0)
                   /\ walk[Len(steps)] = M!Walk(steps)
                   /\ \A n \in 1 .. Len(steps) : walk[n] = M!Migrate(walk[n - 1], steps[n])
<1> DEFINE Acc == Stops
           last == Len(steps)
           first == [rev |-> 0, db |-> M!Empty]
           step == [n \in 1 .. last |-> [s \in Acc |-> M!Migrate(s, steps[n])]]
           Is(f) == f = [u \in SUBSET (DOMAIN steps) |->
                           IF u = {} THEN first ELSE M!Migrate(f[u \ {Max(u)}], steps[Max(u)])]
           g == CHOOSE f : Is(f)
<1>1. /\ last \in Nat /\ DOMAIN steps = 1 .. last
      /\ \A n \in 1 .. last : steps[n] = "up" \/ steps[n] = "down"
  OBVIOUS
<1>2. M!Walk(steps) = g[DOMAIN steps]
  BY DEF M!Walk, M!FoldLeft, M!MapThenFoldSet, M!Max, Max
<1> HIDE DEF last
<1>3. ASSUME NEW n \in 1 .. last, NEW s \in Acc PROVE M!Migrate(s, steps[n]) \in Acc
  <2>1. PICK r \in 0 .. 4 : s = Stop(r)
    BY DEF Stops
  <2>2. r < 4 \/ r = 4
    OBVIOUS
  <2>3. r > 0 \/ r = 0
    OBVIOUS
  <2>4. M!Migrate(Stop(r), "up") \in Acc
    BY <2>2, MigrateIs DEF Stops
  <2>5. M!Migrate(Stop(r), "down") \in Acc
    BY <2>3, MigrateIs DEF Stops
  <2>. QED
    BY <1>1, <2>1, <2>4, <2>5
<1>4. step \in [1 .. last -> [Acc -> Acc]]
  BY <1>3
<1>5. first = Stop(0) /\ first \in Acc
  <2>1. Revision[1] = M!Empty
    BY BaseIsEmpty DEF Revision
  <2>. QED
    BY <2>1 DEF Stop, Stops
<1> HIDE DEF Acc, first
<1>6. PICK f : IsFoldIn(Acc, f, step, last, first)
  <2> HIDE DEF step
  <2>. QED
    BY <1>1, <1>4, <1>5, FoldExists
<1>7. Is(f)
  <2>1. f = [u \in SUBSET (1 .. last) |-> IF u = {} THEN first ELSE step[Max(u)][f[u \ {Max(u)}]]]
    BY <1>6 DEF IsFoldIn, IsFold
  <2>2. ASSUME NEW u \in SUBSET (1 .. last), u # {}
        PROVE  step[Max(u)][f[u \ {Max(u)}]] = M!Migrate(f[u \ {Max(u)}], steps[Max(u)])
    <3>1. f[u \ {Max(u)}] \in Acc /\ Max(u) \in 1 .. last
      BY <1>1, <1>6, <2>2, MaxIsIn DEF IsFoldIn
    <3>. QED
      BY <3>1
  <2> HIDE DEF step
  <2>. QED
    BY <1>1, <2>1, <2>2
<1>8. Is(g)
  <2> HIDE DEF Is
  <2>. QED
    BY <1>7, Zenon
<1> HIDE DEF g, step
<1>9. ASSUME NEW n \in 1 .. last PROVE g[1 .. n] = M!Migrate(g[1 .. (n - 1)], steps[n])
  <2>1. /\ 1 .. n \in SUBSET (1 .. last) /\ 1 .. n # {}
        /\ Max(1 .. n) = n /\ (1 .. n) \ {n} = 1 .. (n - 1)
    BY <1>1, FirstNumbers
  <2>. QED
    BY <1>1, <1>8, <2>1
<1>10. g[1 .. 0] = first
  <2>1. 1 .. 0 = {} /\ {} \in SUBSET (1 .. last)
    OBVIOUS
  <2>. QED
    BY <1>1, <1>8, <2>1
<1> HIDE DEF Is
<1> DEFINE walk == [n \in 0 .. last |-> g[1 .. n]]
<1>11. walk[0] = Stop(0) /\ walk[last] = M!Walk(steps)
  BY <1>1, <1>2, <1>5, <1>10
<1>12. ASSUME NEW n \in 1 .. last PROVE walk[n] = M!Migrate(walk[n - 1], steps[n])
  <2>1. n \in 0 .. last /\ n - 1 \in 0 .. last
    BY <1>1
  <2>. QED
    BY <1>9, <2>1
<1>. QED
  BY <1>11, <1>12 DEF last

\* However the revisions are walked, the walk is at one of them.
LEMMA WalkStops ==
  ASSUME NEW steps \in Seq({"up", "down"})
  PROVE  M!Walk(steps) \in Stops
<1> DEFINE last == Len(steps)
<1>1. /\ last \in Nat /\ \A n \in 1 .. last : steps[n] = "up" \/ steps[n] = "down"
  OBVIOUS
<1>2. PICK walk : /\ walk[0] = Stop(0) /\ walk[last] = M!Walk(steps)
                  /\ \A n \in 1 .. last : walk[n] = M!Migrate(walk[n - 1], steps[n])
  BY WalkIsStepwise
<1> HIDE DEF last
<1> DEFINE T == {n \in Nat : n <= last => walk[n] \in Stops}
<1>3. 0 \in T
  BY <1>2 DEF Stops
<1>4. ASSUME NEW n \in T PROVE n + 1 \in T
  <2> SUFFICES ASSUME n + 1 <= last PROVE walk[n + 1] \in Stops
    OBVIOUS
  <2>1. PICK k \in 1 .. last : k = n + 1 /\ k - 1 = n
    BY <1>1
  <2>2. PICK r \in 0 .. 4 : walk[k - 1] = Stop(r)
    BY <1>1, <2>1 DEF Stops
  <2>3. r < 4 \/ r = 4
    OBVIOUS
  <2>4. r > 0 \/ r = 0
    OBVIOUS
  <2>5. M!Migrate(Stop(r), "up") \in Stops
    BY <2>3, MigrateIs DEF Stops
  <2>6. M!Migrate(Stop(r), "down") \in Stops
    BY <2>4, MigrateIs DEF Stops
  <2>7. walk[k] = M!Migrate(walk[k - 1], steps[k])
    BY <1>2
  <2>8. walk[k] \in Stops
    BY <1>1, <2>2, <2>5, <2>6, <2>7
  <2>. QED
    BY <2>1, <2>8
<1>5. last \in T
  <2> HIDE DEF T
  <2>1. T = Nat
    BY <1>3, <1>4, SetInduction DEF T
  <2>. QED
    BY <1>1, <2>1
<1>. QED
  BY <1>1, <1>2, <1>5

\* Straight up leads to the revision of that number.
LEMMA WalkUp ==
  ASSUME NEW r \in 0 .. 4
  PROVE  M!Walk([i \in 1 .. r |-> "up"]) = Stop(r)
<1> DEFINE steps == [i \in 1 .. r |-> "up"]
<1>1. steps \in Seq({"up", "down"}) /\ Len(steps) = r /\ \A n \in 1 .. r : steps[n] = "up"
  OBVIOUS
<1> HIDE DEF steps
<1>2. PICK walk : /\ walk[0] = Stop(0) /\ walk[r] = M!Walk(steps)
                  /\ \A n \in 1 .. r : walk[n] = M!Migrate(walk[n - 1], steps[n])
  BY <1>1, WalkIsStepwise
<1> DEFINE T == {n \in Nat : n <= r => walk[n] = Stop(n)}
<1>3. 0 \in T
  BY <1>2
<1>4. ASSUME NEW n \in T PROVE n + 1 \in T
  <2> SUFFICES ASSUME n + 1 <= r PROVE walk[n + 1] = Stop(n + 1)
    OBVIOUS
  <2>1. n \in 0 .. 4 /\ n < 4 /\ n + 1 \in 1 .. r /\ (n + 1) - 1 = n
    OBVIOUS
  <2>2. walk[n + 1] = M!Migrate(walk[n], "up")
    BY <1>1, <1>2, <2>1
  <2>3. walk[n] = Stop(n)
    BY <2>1
  <2>. QED
    BY <2>1, <2>2, <2>3, MigrateIs
<1>5. r \in T
  <2> HIDE DEF T
  <2>1. T = Nat
    BY <1>3, <1>4, SetInduction DEF T
  <2>. QED
    BY <2>1
<1>. QED
  BY <1>2, <1>5 DEF steps

\* The last revision is the schema that is declared.
LEMMA HeadIsSchema == M!IsSchemaOf(AtE4b8)
<1>1. \A n \in 1 .. 6 : n = 1 \/ n = 2 \/ n = 3 \/ n = 4 \/ n = 5 \/ n = 6
  OBVIOUS
<1>2. \A n \in 1 .. 8 : n = 1 \/ n = 2 \/ n = 3 \/ n = 4 \/ n = 5 \/ n = 6 \/ n = 7 \/ n = 8
  OBVIOUS
<1>3. FirstOf(TableOrder, 6) = {"model_aliases", "api_keys", "budgets", "call_records",
                                "prompts", "prompt_versions"}
  <2>1. /\ TableOrder[1] = "model_aliases" /\ TableOrder[2] = "api_keys"
        /\ TableOrder[3] = "budgets" /\ TableOrder[4] = "call_records"
        /\ TableOrder[5] = "prompts" /\ TableOrder[6] = "prompt_versions"
    BY DEF TableOrder
  <2>. QED
    BY <1>1, <2>1 DEF FirstOf
<1>4. \A x \in 1 .. 8 : IndexOrder[x] \in FirstOf(IndexOrder, 8)
  BY DEF FirstOf
<1>5. {t.name : t \in M!Metadata} = {"model_aliases", "api_keys", "budgets", "call_records",
                                     "prompts", "prompt_versions"}
  BY DEF M!Metadata, M!Table, M!ModelAliases, M!ApiKeys, M!Budgets, M!CallRecords, M!Prompts,
     M!PromptVersions
<1>6. \A i \in DeclaredIndexes : i[1] \in FirstOf(IndexOrder, 8)
  BY <1>4, Ranked
<1>7. \A r \in DeclaredRefs : r[1] \in FirstOf(TableOrder, 6)
  BY Ranked DEF FirstOf
<1>8. \A u \in DeclaredUses : u[1] \in FirstOf(TableOrder, 6)
  BY Ranked DEF FirstOf
<1>9. M!ToSet(M!RlsTables) = {"call_records", "budgets"}
  <2>1. DOMAIN M!RlsTables = 1 .. 2 /\ M!RlsTables[1] = "call_records" /\ M!RlsTables[2] = "budgets"
    BY DEF M!RlsTables
  <2>2. 1 .. 2 = {1, 2}
    OBVIOUS
  <2>. QED
    BY <2>1, <2>2 DEF M!ToSet
<1>10. /\ AtE4b8.tables = FirstOf(TableOrder, 6)
       /\ AtE4b8.refs = {r \in DeclaredRefs : r[1] \in FirstOf(TableOrder, 6)}
       /\ AtE4b8.uses = {u \in DeclaredUses : u[1] \in FirstOf(TableOrder, 6)}
       /\ AtE4b8.indexes = {i \in DeclaredIndexes : i[1] \in FirstOf(IndexOrder, 8)}
       /\ AtE4b8.added = {<<"api_keys", "expires_at">>}
       /\ AtE4b8.secured = {"call_records", "budgets"} /\ AtE4b8.seeded
  BY DEF AtE4b8, Securing, Catalog
<1>11. /\ AtE4b8.refs = DeclaredRefs /\ AtE4b8.uses = DeclaredUses
       /\ AtE4b8.indexes = DeclaredIndexes
  BY <1>6, <1>7, <1>8, <1>10
<1>. QED
  BY <1>3, <1>5, <1>9, <1>10, <1>11 DEF M!IsSchemaOf, DeclaredRefs, DeclaredUses, DeclaredIndexes

\* However the revisions are walked, no statement is refused, a revision has one
\* catalog, the last is the declared schema and before the first there is nothing.
LEMMA WalksAreReversible ==
  ASSUME NEW steps \in Seq({"up", "down"})
  PROVE  M!Reversible(steps)
<1>1. PICK r \in 0 .. 4 : M!Walk(steps) = Stop(r)
  BY WalkStops DEF Stops
<1>2. M!Walk([i \in 1 .. r |-> "up"]) = Stop(r)
  BY WalkUp
<1>3. Stop(r).rev = r /\ Stop(r).db = Revision[r + 1]
  BY DEF Stop
<1>4. /\ Revision[1] = Base /\ Revision[2] = AtB113 /\ Revision[3] = AtCb47
      /\ Revision[4] = AtD2f1 /\ Revision[5] = AtE4b8
  BY DEF Revision
<1>5. ~ Base.failed /\ ~ AtB113.failed
  <2> DEFINE no == FALSE
             yes == TRUE
  <2>1. no \in BOOLEAN /\ yes \in BOOLEAN
    OBVIOUS
  <2>2. Base = SoFar(0, 0, 0, no) /\ AtB113 = SoFar(2, 4, 6, yes)
    BY DEF Base, AtB113
  <2> HIDE DEF no, yes
  <2>3. ~ SoFar(0, 0, 0, no).failed
    BY <2>1, SoFarIsOne
  <2>4. ~ SoFar(2, 4, 6, yes).failed
    BY <2>1, SoFarIsOne
  <2>. QED
    BY <2>2, <2>3, <2>4
<1>6. \A k \in 0 .. 4 : k = 0 \/ k = 1 \/ k = 2 \/ k = 3 \/ k = 4
  OBVIOUS
<1>7. ~ Revision[r + 1].failed
  BY <1>4, <1>5, <1>6, LaterAreCatalogs
<1>8. r = 4 => M!IsSchemaOf(Revision[r + 1])
  BY <1>4, HeadIsSchema
<1>9. r = 0 => Revision[r + 1] = M!Empty
  BY <1>4, BaseIsEmpty
<1>10. Len(M!Upgrades) = 4
  BY DEF M!Upgrades
<1>. QED
  BY <1>1, <1>2, <1>3, <1>7, <1>8, <1>9, <1>10 DEF M!Reversible

\* Every walk up and down the revisions (alembic/versions) leaves the catalog
\* that the revision's number says: the declared schema at the head, nothing at
\* the base, and no statement refused on the way.
THEOREM MigrationsCorrect == SpecInput => []MigrationsReachTables
<1>1. InputInv => MigrationsReachTables
  <2> SUFFICES ASSUME InputInv, subject = "migrations" PROVE M!Reversible(input)
    BY DEF MigrationsReachTables
  <2>1. input \in Seq({"up", "down"})
    BY DEF InputInv, Alphabet
  <2>. QED
    BY <2>1, WalksAreReversible
<1>. QED
  BY <1>1, InputIsTyped, PTL

=============================================================================
