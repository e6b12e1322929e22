------------------------- MODULE RateLimiterProofs --------------------------
(***************************************************************************)
(* Proofs about RateLimiter, for every capacity, refill rate and set of    *)
(* callers, and however far apart the replicas' clocks are.                *)
(***************************************************************************)
EXTENDS RateLimiter, TLAPS

\* When, on the slowest clock, the transaction read that committed last.
Written == bucket.ts - lead

\* A clean transaction has read the bucket as it still is.
ReadsAreCurrent ==
  \A c \in Caller : pc[c] = "check" /\ ~dirty[c] =>
    /\ Written <= at[c] /\ at[c] <= now
    /\ \/ now < expires /\ snap[c] = bucket
       \/ expires <= at[c] /\ snap[c] = [tokens |-> Full, ts |-> Clock(c)]

\* The key outlives the time in which it would be full again.
LivesUntilFull ==
  /\ Written \in Nat /\ Written <= now
  /\ Written + TtlTicks <= expires \/ count = 0

\* What was taken since "from" and what is left are covered by one full
\* bucket and the refill since.
Covered ==
  /\ from <= now
  /\ count # 0 =>
       /\ from <= Written
       /\ count * Unit + bucket.tokens <= Full + (Written - from + gained) * Rate

\* The refill until the promised time makes a token.
PromiseCovered ==
  promise # 0 => Unit <= bucket.tokens + (promise - bucket.ts) * Rate

IInv ==
  /\ TypeOK
  /\ ReadsAreCurrent
  /\ LivesUntilFull
  /\ Covered
  /\ PromiseCovered

-----------------------------------------------------------------------------
(* Arithmetic.                                                             *)

USE BucketAssumption

\* Arithmetic, spelled out for the solver: products of naturals,
LEMMA Product ==
  ASSUME NEW m \in Nat, NEW n \in Nat
  PROVE  m * n \in Nat
OBVIOUS

\* their distribution over sums,
LEMMA Distributes ==
  ASSUME NEW m \in Int, NEW n \in Int, NEW k \in Int
  PROVE  /\ (m + n) * k = m * k + n * k
         /\ m * k \in Int
OBVIOUS

\* and their growth with a factor.
LEMMA Monotone ==
  ASSUME NEW m \in Int, NEW n \in Int, NEW k \in Nat, m <= n
  PROVE  m * k <= n * k
OBVIOUS

\* Rounding up covers what was asked for.
LEMMA CeilDivCovers ==
  ASSUME NEW m \in Nat, NEW d \in Nat \ {0}
  PROVE  CeilDiv(m, d) \in Nat /\ m <= CeilDiv(m, d) * d
BY DEF CeilDiv

\* A full bucket holds a token.
LEMMA FullSize == Full \in Nat /\ Unit <= Full
<1>1. Capacity * Unit \in Nat /\ 1 * Unit <= Capacity * Unit
  BY Product, Monotone
<1>2. QED
  BY <1>1 DEF Full

\* Seconds(parts) are at least one, and enough to refill "parts".
LEMMA SecondsCover ==
  ASSUME NEW parts \in Nat
  PROVE  /\ Seconds(parts) * Second \in Nat \ {0}
         /\ parts <= Seconds(parts) * Second * Rate
<1>1. Rate * Second \in Nat \ {0}
  OBVIOUS
<1> DEFINE n == CeilDiv(parts, Rate * Second)
<1>2. n \in Nat /\ parts <= n * (Rate * Second)
  BY <1>1, CeilDivCovers
<1>3. Seconds(parts) \in Nat \ {0} /\ n <= Seconds(parts)
  BY <1>2 DEF Seconds, Most
<1>4. n * (Rate * Second) <= Seconds(parts) * (Rate * Second)
  BY <1>1, <1>2, <1>3, Monotone
<1>5. Seconds(parts) * (Rate * Second) = Seconds(parts) * Second * Rate
  BY <1>3
<1>6. Seconds(parts) * Second \in Nat \ {0}
  BY <1>3
<1>7. QED
  BY <1>1, <1>2, <1>3, <1>4, <1>5, <1>6

\* An untouched bucket is full by the time its key expires.
LEMMA TtlCovers == TtlTicks \in Nat \ {0} /\ Full <= TtlTicks * Rate
BY SecondsCover, FullSize DEF TtlTicks

\* How long a bucket is refilled at "time": not at all by a clock behind ts.
Elapsed(b, time) == Most(0, time - b.ts)

\* The refill adds what has elapsed, up to capacity.
LEMMA RefilledIs ==
  ASSUME NEW b \in Bucket, NEW time \in Nat
  PROVE  /\ Elapsed(b, time) \in Nat /\ Elapsed(b, time) * Rate \in Nat
         /\ time - b.ts <= Elapsed(b, time)
         /\ Refilled(b, time) \in 0..Full
         /\ Refilled(b, time) <= b.tokens + Elapsed(b, time) * Rate
         /\ \/ Refilled(b, time) = Full
            \/ Refilled(b, time) = b.tokens + Elapsed(b, time) * Rate
<1>1. Elapsed(b, time) \in Nat /\ time - b.ts <= Elapsed(b, time)
  BY DEF Elapsed, Most, Bucket
<1>2. Elapsed(b, time) * Rate \in Nat
  BY <1>1, Product
<1>3. b.tokens \in 0..Full
  BY DEF Bucket
<1>4. Refilled(b, time) = Least(Full, b.tokens + Elapsed(b, time) * Rate)
  BY DEF Refilled, Elapsed
<1>5. QED
  BY <1>1, <1>2, <1>3, <1>4, FullSize DEF Least

-----------------------------------------------------------------------------
(* What a committing transaction decided.                                  *)

\* A transaction that commits decides on the bucket as it is, and keeps its level
\* within the clamp.
LEMMA DecidesOnCurrent ==
  ASSUME IInv, NEW c \in Caller, pc[c] = "check", ~dirty[c]
  PROVE  /\ at[c] \in Nat /\ Clock(c) \in Nat
         /\ Written <= at[c] /\ at[c] <= now
         /\ Elapsed(bucket, Clock(c)) \in Nat
         /\ Clock(c) - bucket.ts <= Elapsed(bucket, Clock(c))
         /\ Level(c) \in 0..Full
         /\ Level(c) < Unit =>
              Level(c) = bucket.tokens + Elapsed(bucket, Clock(c)) * Rate
         /\ \/ Level(c) <= bucket.tokens + Elapsed(bucket, Clock(c)) * Rate
            \/ expires <= at[c]
<1>1. /\ at[c] \in Nat /\ snap[c] \in Bucket /\ bucket \in Bucket
      /\ Clock(c) \in Nat
  BY DEF IInv, TypeOK, Clock
<1>2. /\ Written <= at[c] /\ at[c] <= now
      /\ snap[c] = bucket \/ (expires <= at[c] /\ snap[c] = [tokens |-> Full, ts |-> Clock(c)])
  BY DEF IInv, ReadsAreCurrent
<1>3. /\ Elapsed(bucket, Clock(c)) \in Nat
      /\ Clock(c) - bucket.ts <= Elapsed(bucket, Clock(c))
  BY <1>1, RefilledIs
<1>4. /\ Elapsed(snap[c], Clock(c)) * Rate \in Nat
      /\ Level(c) \in 0..Full
      /\ Level(c) <= snap[c].tokens + Elapsed(snap[c], Clock(c)) * Rate
      /\ \/ Level(c) = Full
         \/ Level(c) = snap[c].tokens + Elapsed(snap[c], Clock(c)) * Rate
  BY <1>1, RefilledIs DEF Level
<1>5. CASE snap[c] = bucket
  BY <1>1, <1>2, <1>3, <1>4, <1>5, FullSize
<1>6. CASE expires <= at[c] /\ snap[c] = [tokens |-> Full, ts |-> Clock(c)]
  <2>1. snap[c].tokens = Full
    BY <1>6
  <2>2. Full <= Level(c)
    BY <1>1, <1>4, <2>1, FullSize
  <2>3. ~(Level(c) < Unit)
    BY <1>4, <2>2, FullSize
  <2>4. QED
    BY <1>1, <1>2, <1>3, <1>4, <1>6, <2>3
<1>7. QED
  BY <1>2, <1>5, <1>6

\* What the stamps have gained once "c" writes.
GainedBy(c) == gained + Most(0, Offset[c] - lead)

\* The bucket is refilled for the time between the two reads, and for what
\* the second clock is ahead of the first.
LEMMA ElapsedIs ==
  ASSUME IInv, NEW c \in Caller, pc[c] = "check", ~dirty[c]
  PROVE  /\ GainedBy(c) \in Nat /\ gained <= GainedBy(c)
         /\ Elapsed(bucket, Clock(c)) <= at[c] - Written + GainedBy(c) - gained
<1>1. /\ at[c] \in Nat /\ Offset[c] \in Nat /\ lead \in Nat /\ gained \in Nat
      /\ bucket.ts \in Nat /\ bucket.ts - lead <= at[c]
  BY DecidesOnCurrent DEF IInv, TypeOK, Bucket, Written
<1>2. QED
  BY <1>1 DEF GainedBy, Elapsed, Clock, Most, Written

\* What is left at the decision is still covered, even if the key has expired.
LEMMA StillCovered ==
  ASSUME IInv, NEW c \in Caller, pc[c] = "check", ~dirty[c], count # 0
  PROVE  /\ from <= at[c]
         /\ count * Unit + Level(c) <= Full + (at[c] - from + GainedBy(c)) * Rate
<1>1. /\ at[c] \in Nat /\ from \in Nat /\ expires \in Nat /\ count * Unit \in Nat
      /\ bucket.tokens \in Nat /\ Written \in Nat /\ Level(c) \in 0..Full
      /\ Full \in Nat /\ TtlTicks \in Nat /\ gained \in Nat /\ GainedBy(c) \in Nat
      /\ Elapsed(bucket, Clock(c)) \in Nat
  BY DecidesOnCurrent, ElapsedIs, FullSize, TtlCovers, Product
     DEF IInv, TypeOK, Bucket, LivesUntilFull
<1>2. /\ from <= Written /\ Written <= at[c]
      /\ count * Unit + bucket.tokens <= Full + (Written - from + gained) * Rate
      /\ Written + TtlTicks <= expires
  BY DecidesOnCurrent DEF IInv, Covered, LivesUntilFull
<1> DEFINE before == Written - from + gained
           since == at[c] - Written + GainedBy(c) - gained
<1>3. /\ before \in Int /\ since \in Int
      /\ before + since = at[c] - from + GainedBy(c)
      /\ Elapsed(bucket, Clock(c)) <= since
      /\ at[c] - Written <= since
  BY <1>1, ElapsedIs
<1>4. /\ before * Rate \in Int /\ since * Rate \in Int
      /\ (before + since) * Rate = before * Rate + since * Rate
  BY <1>3, Distributes
<1> HIDE DEF before, since
<1>5. count * Unit + bucket.tokens <= Full + before * Rate
  BY <1>2 DEF before
<1>6. Level(c) - bucket.tokens <= since * Rate
  <2>1. CASE Level(c) <= bucket.tokens + Elapsed(bucket, Clock(c)) * Rate
    <3>1. Elapsed(bucket, Clock(c)) * Rate <= since * Rate
      BY <1>1, <1>3, Monotone
    <3>2. Elapsed(bucket, Clock(c)) * Rate \in Nat
      BY <1>1, Product
    <3>3. QED
      BY <1>1, <1>4, <2>1, <3>1, <3>2
  <2>2. CASE expires <= at[c]
    <3>1. TtlTicks <= since
      BY <1>1, <1>2, <1>3, <2>2
    <3>2. TtlTicks * Rate <= since * Rate /\ TtlTicks * Rate \in Int
      BY <1>1, <1>3, <3>1, Monotone, Distributes
    <3>3. QED
      BY <1>1, <1>4, <3>2, TtlCovers
  <2>3. QED
    BY <2>1, <2>2, DecidesOnCurrent
<1>7. count * Unit + Level(c) <= Full + (before + since) * Rate
  BY <1>1, <1>4, <1>5, <1>6
<1>8. QED
  BY <1>1, <1>2, <1>3, <1>7

\* An EXEC, whichever way it decided.
LEMMA StoreStep ==
  ASSUME IInv, NEW c \in Caller, NEW tokens \in 0..Full, Store(c, tokens),
         count' \in Nat, promise' \in Nat
  PROVE  /\ TypeOK' /\ ReadsAreCurrent' /\ LivesUntilFull'
         /\ bucket' = [tokens |-> tokens, ts |-> Clock(c)]
         /\ Written' = at[c]
<1>1. pc[c] = "check" /\ ~dirty[c]
  BY DEF Store
<1>2. /\ at[c] \in Nat /\ at[c] <= now /\ Clock(c) \in Nat
      /\ bucket' = [tokens |-> tokens, ts |-> Clock(c)]
  BY <1>1, DecidesOnCurrent DEF Store
<1>3. dirty' \in [Caller -> BOOLEAN]
  <2>1. \A d \in Caller : (dirty[d] \/ (pc[d] = "check" /\ d # c)) \in BOOLEAN
    BY DEF IInv, TypeOK
  <2>2. QED
    BY <2>1 DEF Store
<1>4. bucket' \in Bucket
  BY <1>2 DEF Bucket
<1>5. lead' = Offset[c] /\ lead' \in Nat /\ Written' = at[c]
  BY <1>2 DEF Store, Written, Clock
<1>6. gained' \in Nat
  <2>1. GainedBy(c) \in Nat /\ gained' = IF count = 0 THEN 0 ELSE GainedBy(c)
    BY <1>1, ElapsedIs DEF Store, GainedBy
  <2>2. QED
    BY <2>1
<1>7. expires' \in Nat /\ Written' + TtlTicks <= expires' /\ Written' <= now'
  BY <1>2, <1>5, TtlCovers DEF Store, IInv, TypeOK
<1>8. TypeOK'
  BY <1>3, <1>4, <1>5, <1>6, <1>7 DEF IInv, TypeOK, Store
<1>9. ASSUME NEW d \in Caller, pc'[d] = "check"
      PROVE  dirty'[d]
  BY <1>1, <1>9 DEF Store, IInv, TypeOK
<1>10. ReadsAreCurrent'
  BY <1>9 DEF ReadsAreCurrent
<1>11. QED
  BY <1>2, <1>5, <1>7, <1>8, <1>10 DEF LivesUntilFull

\* An admission keeps the invariant: the token it counts has left the bucket.
LEMMA AdmitStep ==
  ASSUME IInv, NEW c \in Caller, Admit(c)
  PROVE  IInv'
<1>1. /\ pc[c] = "check" /\ ~dirty[c] /\ Unit <= Level(c)
      /\ Store(c, Level(c) - Unit) /\ promise' = 0
      /\ count' = IF at[c] >= from THEN count + 1 ELSE count
      /\ gained' = IF count = 0 THEN 0 ELSE GainedBy(c)
  BY DEF Admit, Store, GainedBy
<1>2. Level(c) \in 0..Full /\ Level(c) - Unit \in 0..Full /\ at[c] \in Nat
      /\ from \in Nat /\ count \in Nat /\ Full \in Nat /\ now \in Nat /\ at[c] <= now
      /\ GainedBy(c) \in Nat
  BY <1>1, DecidesOnCurrent, ElapsedIs, FullSize DEF IInv, TypeOK
<1>3. /\ TypeOK' /\ ReadsAreCurrent' /\ LivesUntilFull'
      /\ bucket' = [tokens |-> Level(c) - Unit, ts |-> Clock(c)]
      /\ Written' = at[c]
  BY <1>1, <1>2, StoreStep
<1>4. UNCHANGED <<from, now>>
  BY <1>1 DEF Store
<1>5. ASSUME count' # 0
      PROVE  /\ from <= at[c]
             /\ count' * Unit + (Level(c) - Unit) <= Full + (at[c] - from + gained') * Rate
  <2>1. CASE at[c] < from
    BY <1>1, <1>2, <1>5, <2>1, StillCovered
  <2>2. CASE from <= at[c] /\ count # 0
    <3>1. count' * Unit = count * Unit + Unit
      BY <1>1, <1>2, <2>2, Distributes
    <3>2. count * Unit \in Nat /\ (at[c] - from + GainedBy(c)) * Rate \in Int
      BY <1>2, Product, Distributes
    <3>3. gained' = GainedBy(c)
      BY <1>1, <2>2
    <3>4. QED
      BY <1>1, <1>2, <2>2, <3>1, <3>2, <3>3, StillCovered
  <2>3. CASE from <= at[c] /\ count = 0
    <3>1. count' * Unit = Unit /\ gained' = 0
      BY <1>1, <1>2, <2>3
    <3>2. (at[c] - from + gained') * Rate \in Nat
      BY <1>2, <2>3, <3>1, Product
    <3>3. QED
      BY <1>2, <2>3, <3>1, <3>2
  <2>4. QED
    BY <1>2, <2>1, <2>2, <2>3
<1>6. Covered'
  BY <1>2, <1>3, <1>4, <1>5 DEF IInv, Covered
<1>7. PromiseCovered'
  BY <1>1 DEF PromiseCovered
<1>8. QED
  BY <1>3, <1>6, <1>7 DEF IInv

\* A denial finds the promised time not yet come, and what it stores still
\* makes a token by then.
LEMMA DenyKeepsPromise ==
  ASSUME IInv, NEW c \in Caller, Deny(c)
  PROVE  /\ promise' \in Nat
         /\ Unit <= Level(c) + (promise' - Clock(c)) * Rate
         /\ promise # 0 => Clock(c) < promise
<1>1. pc[c] = "check" /\ ~dirty[c] /\ Level(c) < Unit
  BY DEF Deny, Store
<1>2. /\ Clock(c) \in Nat /\ promise \in Nat /\ bucket.tokens \in Nat
      /\ bucket.ts \in Nat /\ Level(c) \in Nat
      /\ Elapsed(bucket, Clock(c)) \in Nat
      /\ Clock(c) - bucket.ts <= Elapsed(bucket, Clock(c))
      /\ Level(c) = bucket.tokens + Elapsed(bucket, Clock(c)) * Rate
  BY <1>1, DecidesOnCurrent DEF IInv, TypeOK, Bucket
<1>3. CASE promise = 0
  <2> DEFINE wait == Seconds(Unit - Level(c)) * Second
  <2>1. Unit - Level(c) \in Nat
    BY <1>1, <1>2
  <2>2. wait \in Nat \ {0} /\ Unit - Level(c) <= wait * Rate
    BY <2>1, SecondsCover
  <2>3. promise' = Clock(c) + wait
    BY <1>3 DEF Deny
  <2>4. wait * Rate \in Nat /\ promise' - Clock(c) = wait
    BY <1>2, <2>2, <2>3, Product
  <2>5. QED
    BY <1>2, <1>3, <2>2, <2>3, <2>4
<1>4. CASE promise # 0
  <2> DEFINE refill == (Clock(c) - bucket.ts) * Rate
             rest == (promise - Clock(c)) * Rate
  <2>1. promise' = promise
    BY <1>4 DEF Deny
  <2>2. Unit <= bucket.tokens + (promise - bucket.ts) * Rate
    BY <1>4 DEF IInv, PromiseCovered
  <2>3. /\ Clock(c) - bucket.ts \in Int /\ promise - Clock(c) \in Int
        /\ promise - bucket.ts = (Clock(c) - bucket.ts) + (promise - Clock(c))
    BY <1>2
  <2>4. refill \in Int /\ rest \in Int /\ (promise - bucket.ts) * Rate = refill + rest
    BY <2>3, Distributes
  <2>5. refill <= Elapsed(bucket, Clock(c)) * Rate
    BY <1>2, <2>3, Monotone
  <2>6. Elapsed(bucket, Clock(c)) * Rate \in Int
    BY <1>2, Distributes
  <2>7. Unit <= Level(c) + rest
    <3> HIDE DEF refill, rest
    <3>1. QED
      BY <1>2, <2>2, <2>4, <2>5, <2>6
  <2>8. Clock(c) < promise
    <3>1. SUFFICES ASSUME promise <= Clock(c) PROVE FALSE
      BY <1>2
    <3>2. rest <= 0 * Rate
      BY <1>2, <2>3, <3>1, Monotone
    <3>3. 0 * Rate = 0
      OBVIOUS
    <3> HIDE DEF rest
    <3>4. QED
      BY <1>1, <1>2, <2>4, <2>7, <3>2, <3>3
  <2>9. QED
    BY <1>2, <2>1, <2>7, <2>8
<1>5. QED
  BY <1>3, <1>4

\* A denial keeps the invariant: it only moves the refill into the bucket.
LEMMA DenyStep ==
  ASSUME IInv, NEW c \in Caller, Deny(c)
  PROVE  IInv'
<1>1. /\ pc[c] = "check" /\ ~dirty[c] /\ Store(c, Level(c)) /\ count' = count
      /\ count # 0 => gained' = GainedBy(c)
  BY DEF Deny, Store, GainedBy
<1>2. Level(c) \in 0..Full /\ count \in Nat /\ promise' \in Nat
  BY <1>1, DecidesOnCurrent, DenyKeepsPromise DEF IInv, TypeOK
<1>3. /\ TypeOK' /\ ReadsAreCurrent' /\ LivesUntilFull'
      /\ bucket' = [tokens |-> Level(c), ts |-> Clock(c)]
      /\ Written' = at[c]
  BY <1>1, <1>2, StoreStep
<1>4. UNCHANGED <<from, now>>
  BY <1>1 DEF Store
<1>5. Covered'
  BY <1>1, <1>3, <1>4, StillCovered DEF IInv, Covered
<1>6. PromiseCovered'
  BY <1>3, DenyKeepsPromise DEF PromiseCovered
<1>7. QED
  BY <1>3, <1>5, <1>6 DEF IInv

\* A read keeps the invariant, of a key that is there or absent.
LEMMA ReadStep ==
  ASSUME IInv, NEW c \in Caller, Read(c)
  PROVE  IInv'
<1>1. /\ pc' = [pc EXCEPT ![c] = "check"] /\ at' = [at EXCEPT ![c] = now]
      /\ dirty' = [dirty EXCEPT ![c] = FALSE]
      /\ snap' = [snap EXCEPT ![c] =
           IF now < expires THEN bucket ELSE [tokens |-> Full, ts |-> now + Offset[c]]]
      /\ UNCHANGED <<now, bucket, expires, lead, from, count, gained, promise>>
  BY DEF Read, redis, observer
<1>2. [tokens |-> Full, ts |-> now + Offset[c]] \in Bucket
  BY FullSize DEF IInv, TypeOK, Bucket
<1>3. TypeOK'
  BY <1>1, <1>2 DEF IInv, TypeOK
<1>4. Written' = Written
  BY <1>1 DEF Written
<1>5. ReadsAreCurrent'
  <2> SUFFICES ASSUME NEW d \in Caller, pc'[d] = "check", ~dirty'[d]
               PROVE  /\ Written <= at'[d] /\ at'[d] <= now
                      /\ \/ now < expires /\ snap'[d] = bucket
                         \/ /\ expires <= at'[d]
                            /\ snap'[d] = [tokens |-> Full, ts |-> at'[d] + Offset[d]]
    BY <1>1, <1>4 DEF ReadsAreCurrent, Clock
  <2>1. CASE d = c
    BY <1>1, <2>1 DEF IInv, TypeOK, LivesUntilFull
  <2>2. CASE d # c
    BY <1>1, <2>2 DEF IInv, TypeOK, ReadsAreCurrent, Clock
  <2>3. QED
    BY <2>1, <2>2
<1>6. LivesUntilFull' /\ Covered' /\ PromiseCovered'
  BY <1>1, <1>4 DEF IInv, LivesUntilFull, Covered, PromiseCovered
<1>7. QED
  BY <1>3, <1>5, <1>6 DEF IInv

\* A tick keeps the invariant.
LEMMA TickStep ==
  ASSUME IInv, Tick
  PROVE  IInv'
<1>1. dirty' \in [Caller -> BOOLEAN]
  <2>1. \A d \in Caller : (dirty[d] \/ (pc[d] = "check" /\ now' = expires)) \in BOOLEAN
    BY DEF IInv, TypeOK
  <2>2. QED
    BY <2>1 DEF Tick
<1>2. /\ now' = now + 1 /\ now \in Nat /\ now' \in Nat
      /\ UNCHANGED <<bucket, expires, lead, pc, at, snap, from, count, gained, promise>>
  BY DEF IInv, TypeOK, Tick, redis, observer
<1>3. TypeOK'
  BY <1>1, <1>2 DEF IInv, TypeOK
<1>4. Written' = Written
  BY <1>2 DEF Written
<1>5. ReadsAreCurrent'
  <2> SUFFICES ASSUME NEW d \in Caller, pc[d] = "check", ~dirty'[d]
               PROVE  /\ Written <= at[d] /\ at[d] <= now'
                      /\ \/ now' < expires /\ snap[d] = bucket
                         \/ /\ expires <= at[d]
                            /\ snap[d] = [tokens |-> Full, ts |-> Clock(d)]
    BY <1>2, <1>4 DEF ReadsAreCurrent, Clock
  <2>1. ~dirty[d] /\ now' # expires
    BY DEF Tick
  <2>2. /\ Written <= at[d] /\ at[d] <= now
        /\ \/ now < expires /\ snap[d] = bucket
           \/ expires <= at[d] /\ snap[d] = [tokens |-> Full, ts |-> Clock(d)]
    BY <2>1 DEF IInv, ReadsAreCurrent
  <2>3. at[d] \in Nat /\ expires \in Nat
    BY DEF IInv, TypeOK
  <2>4. QED
    BY <1>2, <2>1, <2>2, <2>3
<1>6. LivesUntilFull' /\ Covered' /\ PromiseCovered'
  BY <1>2, <1>4 DEF IInv, TypeOK, LivesUntilFull, Covered, PromiseCovered
<1>7. QED
  BY <1>3, <1>5, <1>6 DEF IInv

\* The initial states satisfy the inductive invariant.
LEMMA InitIInv == Init => IInv
<1> SUFFICES ASSUME Init PROVE IInv
  OBVIOUS
<1>1. bucket \in Bucket /\ dirty \in [Caller -> BOOLEAN]
  BY FullSize DEF Init, Bucket
<1>2. TypeOK
  BY <1>1 DEF Init, TypeOK
<1>3. ReadsAreCurrent /\ LivesUntilFull /\ Covered /\ PromiseCovered
  BY DEF Init, Written, ReadsAreCurrent, LivesUntilFull, Covered, PromiseCovered
<1>4. QED
  BY <1>2, <1>3 DEF IInv

\* A check given up keeps the invariant: it has written nothing.
LEMMA AbandonStep ==
  ASSUME IInv, NEW c \in Caller, Abandon(c)
  PROVE  IInv'
<1>1. /\ UNCHANGED <<now, bucket, expires, lead, at, snap, dirty, from, count, gained, promise>>
      /\ pc' = [pc EXCEPT ![c] = "idle"]
  BY DEF Abandon, redis, observer
<1>2. Written' = Written
  BY <1>1 DEF Written
<1>3. QED
  BY <1>1, <1>2 DEF IInv, TypeOK, ReadsAreCurrent, LivesUntilFull, Covered,
                    PromiseCovered, Clock

\* Every step keeps the inductive invariant.
LEMMA NextIInv == IInv /\ [Next]_vars => IInv'
<1> SUFFICES ASSUME IInv, [Next]_vars PROVE IInv'
  OBVIOUS
<1>1. ASSUME NEW c \in Caller, Check(c) \/ Retry(c) PROVE IInv'
  BY <1>1, ReadStep DEF Check, Retry
<1>2. ASSUME NEW c \in Caller, Admit(c) PROVE IInv'
  BY <1>2, AdmitStep
<1>3. ASSUME NEW c \in Caller, Deny(c) PROVE IInv'
  BY <1>3, DenyStep
<1>4. ASSUME NEW c \in Caller, Abandon(c) PROVE IInv'
  BY <1>4, AbandonStep
<1>5. CASE Tick
  BY <1>5, TickStep
<1>6. CASE Observe
  BY <1>6 DEF Observe, redis, IInv, TypeOK, ReadsAreCurrent, LivesUntilFull, Covered,
              PromiseCovered, Written, Clock
<1>7. CASE UNCHANGED vars
  BY <1>7 DEF vars, redis, observer, IInv, TypeOK, ReadsAreCurrent, LivesUntilFull,
              Covered, PromiseCovered, Written, Clock
<1>8. QED
  BY <1>1, <1>2, <1>3, <1>4, <1>5, <1>6, <1>7 DEF Next

-----------------------------------------------------------------------------

\* The inductive invariant.
THEOREM Invariance == Spec => []IInv
BY InitIInv, NextIInv, PTL DEF Spec

\* Every variable keeps its type.
THEOREM TypeCorrect == Spec => []TypeOK
<1>1. IInv => TypeOK
  BY DEF IInv
<1>2. QED
  BY Invariance, <1>1, PTL

\* What the inductive invariant says of the rate.
LEMMA RateFollows == IInv => RateBounded
<1> SUFFICES ASSUME IInv PROVE RateBounded
  OBVIOUS
<1>1. /\ now \in Nat /\ from \in Nat /\ from <= now /\ count \in Nat /\ gained \in Nat
      /\ bucket.tokens \in Nat /\ Written \in Nat /\ Written <= now
  BY DEF IInv, TypeOK, Bucket, LivesUntilFull, Covered
<1>2. (now - from + gained) * Rate \in Nat /\ count * Unit \in Nat
  BY <1>1, Product
<1>3. CASE count = 0
  BY <1>2, <1>3, FullSize DEF RateBounded
<1>4. CASE count # 0
  <2>1. count * Unit + bucket.tokens <= Full + (Written - from + gained) * Rate
    BY <1>4 DEF IInv, Covered
  <2>2. (Written - from + gained) * Rate <= (now - from + gained) * Rate
    BY <1>1, Monotone
  <2>3. (Written - from + gained) * Rate \in Int
    BY <1>1, Distributes
  <2>4. QED
    BY <1>1, <1>2, <2>1, <2>2, <2>3, FullSize DEF RateBounded
<1>5. QED
  BY <1>3, <1>4

\* From any moment on, a key is admitted no more often than a burst of
\* Capacity and the refill rate allow, over the time since and what the stamps
\* gained in it.
THEOREM RateCorrect == Spec => []RateBounded
BY Invariance, RateFollows, PTL

\* Where the replicas' clocks agree, nothing is gained, and the limiter keeps
\* to the burst and the rate it documents.
THEOREM SyncedRateCorrect ==
  ASSUME Synced
  PROVE  Spec => [](count * Unit <= Full + (now - from) * Rate)
<1> DEFINE NoGain == lead = 0 /\ gained = 0
<1>1. Init => NoGain
  BY DEF Init
<1>2. NoGain /\ [Next]_vars => NoGain'
  <2> SUFFICES ASSUME NoGain, [Next]_vars PROVE NoGain'
    OBVIOUS
  <2>1. ASSUME NEW c \in Caller, NEW tokens, Store(c, tokens) PROVE NoGain'
    <3>1. Offset[c] = 0
      BY DEF Synced
    <3>2. QED
      BY <2>1, <3>1 DEF Store, Most
  <2>2. QED
    BY <2>1 DEF Next, Check, Retry, Read, Admit, Deny, Abandon, Tick, Observe, vars,
                redis, observer
<1>3. IInv /\ NoGain => count * Unit <= Full + (now - from) * Rate
  <2> SUFFICES ASSUME IInv, NoGain PROVE count * Unit <= Full + (now - from) * Rate
    OBVIOUS
  <2>1. now - from + gained = now - from
    BY DEF IInv, TypeOK
  <2>2. QED
    BY <2>1, RateFollows DEF RateBounded
<1>4. QED
  BY <1>1, <1>2, <1>3, Invariance, PTL DEF Spec

\* Retry-After is kept, whatever was denied in between and by whom.
THEOREM RetryCorrect == Spec => RetryAfterSuffices
<1>1. IInv /\ [Next]_vars =>
        [\A c \in Caller : Deny(c) /\ promise # 0 => Clock(c) < promise]_vars
  BY DenyKeepsPromise
<1>2. QED
  BY Invariance, <1>1, PTL DEF Spec, RetryAfterSuffices
=============================================================================
