---------------------------- MODULE RateLimiter -----------------------------
(***************************************************************************)
(* TokenBucketRateLimiter (app/limits/ratelimit.py): one API key's bucket, *)
(* a Redis hash {tokens, ts} with a TTL, and the requests that check it on *)
(* every replica.                                                          *)
(*                                                                         *)
(* check is an optimistic transaction: WATCH and read the bucket and the   *)
(* replica's clock, refill, take a token or not, EXEC.  Tokens and time    *)
(* are integers here (the code has floats): Unit parts make a token, a     *)
(* tick is 1/Second of a second and refills Rate parts.                    *)
(***************************************************************************)
EXTENDS Integers

CONSTANTS
  Caller,      \* concurrent requests of the API key, on any replica
  Offset,      \* how far ahead of the slowest clock each one's replica is, in ticks
  Capacity,    \* tokens in a full bucket
  Unit, Rate, Second,
  Horizon,     \* bound: the clock stops here
  MaxGain      \* bound: an observer has started over before "gained" exceeds it

ASSUME BucketAssumption ==
  /\ Offset \in [Caller -> Nat]
  /\ Capacity \in Nat \ {0}
  /\ Unit \in Nat \ {0}
  /\ Rate \in Nat \ {0}
  /\ Second \in Nat \ {0}
  /\ Horizon \in Nat
  /\ MaxGain \in Nat

VARIABLES
  now,         \* Redis' clock, in ticks
  bucket,      \* the key's last value
  expires,     \* when its TTL ends: the key is there until then
  pc,          \* what each request is doing
  at,          \* when its closure read the bucket and the clock
  snap,        \* the bucket as read
  dirty,       \* the watched key was touched since
  from,        \* history: when an observer began counting
  count,       \* history: requests admitted whose closure ran since then
  lead,        \* history: how far ahead the clock is that wrote the bucket
  gained,      \* history: what the stamps gained since by passing to faster clocks
  promise      \* history: the retry time given, on the clock of the replica that
               \* gave it, until a token is taken

redis == <<bucket, expires, lead>>
observer == <<from, count, gained>>
vars == <<now, redis, pc, at, snap, dirty, observer, promise>>

Least(m, n) == IF m < n THEN m ELSE n
Most(m, n) == IF m > n THEN m ELSE n

\* The least n with n * d >= m.
CeilDiv(m, d) == (m + d - 1) \div d

Full == Capacity * Unit

\* Whole seconds in which "parts" are refilled, and at least one.
Seconds(parts) == Most(1, CeilDiv(parts, Rate * Second))

\* Mutant: the TTL is rounded down.
TtlTicksRoundedDown == Most(1, Full \div (Rate * Second)) * Second

TtlTicks == Seconds(Full) * Second

Bucket == [tokens : 0..Full, ts : Nat]

\* Mutant: not clamped.
RefilledUnclamped(b, time) == b.tokens + Most(0, time - b.ts) * Rate

\* Lazy refill, clamped to capacity, none if the clock is behind ts.
Refilled(b, time) == Least(Full, b.tokens + Most(0, time - b.ts) * Rate)

\* Type correctness: the bucket never holds more than its capacity, nor less
\* than nothing (the clamp and the test in check).
TypeOK ==
  /\ now \in Nat
  /\ bucket \in Bucket
  /\ expires \in Nat
  /\ pc \in [Caller -> {"idle", "check"}]
  /\ at \in [Caller -> Nat]
  /\ snap \in [Caller -> Bucket]
  /\ dirty \in [Caller -> BOOLEAN]
  /\ from \in Nat
  /\ count \in Nat
  /\ lead \in Nat
  /\ gained \in Nat
  /\ promise \in Nat

Init ==
  /\ now = 0
  /\ bucket = [tokens |-> Full, ts |-> 0]
  /\ expires = 0
  /\ pc = [c \in Caller |-> "idle"]
  /\ at = [c \in Caller |-> 0]
  /\ snap = [c \in Caller |-> bucket]
  /\ dirty = [c \in Caller |-> FALSE]
  /\ from = 0
  /\ count = 0
  /\ lead = 0
  /\ gained = 0
  /\ promise = 0

-----------------------------------------------------------------------------

Clock(c) == at[c] + Offset[c]

\* WATCH, HMGET and time.time().  An absent key reads as a full bucket.
Read(c) ==
  /\ pc' = [pc EXCEPT ![c] = "check"]
  /\ at' = [at EXCEPT ![c] = now]
  /\ snap' = [snap EXCEPT ![c] =
       IF now < expires THEN bucket
                        ELSE [tokens |-> Full, ts |-> now + Offset[c]]]
  /\ dirty' = [dirty EXCEPT ![c] = FALSE]
  /\ UNCHANGED <<now, redis, observer, promise>>

Check(c) == pc[c] = "idle" /\ Read(c)

\* EXEC fails: the closure runs again.
Retry(c) == pc[c] = "check" /\ dirty[c] /\ Read(c)

\* What the closure found.
Level(c) == Refilled(snap[c], Clock(c))

\* EXEC of HSET {tokens, ts} and EXPIRE; every other watcher becomes dirty.
Store(c, tokens) ==
  /\ pc[c] = "check"
  /\ ~dirty[c]
  /\ pc' = [pc EXCEPT ![c] = "idle"]
  /\ bucket' = [tokens |-> tokens, ts |-> Clock(c)]
  /\ expires' = now + TtlTicks
  /\ dirty' = [d \in Caller |-> dirty[d] \/ (pc[d] = "check" /\ d # c)]
  /\ lead' = Offset[c]
  /\ gained' = IF count = 0 THEN 0 ELSE gained + Most(0, Offset[c] - lead)
  /\ gained' <= MaxGain
  /\ UNCHANGED <<now, at, snap, from>>

Admit(c) ==
  /\ Level(c) >= Unit
  /\ Store(c, Level(c) - Unit)
  /\ count' = IF at[c] >= from THEN count + 1 ELSE count
  /\ promise' = 0

\* Mutant: the clock is stored, the refill is not.
DenyForgettingRefill(c) ==
  /\ Level(c) < Unit
  /\ Store(c, snap[c].tokens)
  /\ promise' = IF promise = 0
                  THEN Clock(c) + Seconds(Unit - Level(c)) * Second
                  ELSE promise
  /\ UNCHANGED count

\* RateLimitExceeded: the refill is stored, and retry_after promised.
Deny(c) ==
  /\ Level(c) < Unit
  /\ Store(c, Level(c))
  /\ promise' = IF promise = 0
                  THEN Clock(c) + Seconds(Unit - Level(c)) * Second
                  ELSE promise
  /\ UNCHANGED count

\* The request is cancelled, its replica dies, or Redis raises.
Abandon(c) ==
  /\ pc[c] = "check"
  /\ pc' = [pc EXCEPT ![c] = "idle"]
  /\ UNCHANGED <<now, redis, at, snap, dirty, observer, promise>>

\* Time passes; a key whose TTL ends now is dropped.
Tick ==
  /\ now < Horizon
  /\ now' = now + 1
  /\ dirty' = [c \in Caller |->
                 dirty[c] \/ (pc[c] = "check" /\ now' = expires)]
  /\ UNCHANGED <<redis, pc, at, snap, observer, promise>>

\* The observer starts over, at any moment.
Observe ==
  /\ from' = now
  /\ count' = 0
  /\ gained' = 0
  /\ UNCHANGED <<now, redis, pc, at, snap, dirty, promise>>

Next ==
  \/ \E c \in Caller :
       Check(c) \/ Retry(c) \/ Admit(c) \/ Deny(c) \/ Abandon(c)
  \/ Tick \/ Observe

Spec == Init /\ [][Next]_vars

-----------------------------------------------------------------------------
(* Properties.                                                             *)

\* "bursts up to capacity while bounding the sustained rate to
\* refill_per_sec": since any moment at all, the key was admitted no more
\* often than one full bucket and the refill since then allow, however the
\* transactions interleave and whenever the key expires.  The time that
\* refills is what has passed and what the stamps gained: the refill subtracts
\* a stamp another replica's clock wrote, so whenever the bucket passes from a
\* replica to one whose clock is ahead, the difference is refilled (again).
RateBounded == count * Unit <= Full + (now - from + gained) * Rate

\* Retry-After is kept: once a request is told when to come back, no request
\* is denied whose replica's clock has reached that time, unless a token was
\* taken in between; denials in between, which store the refill and may put the
\* stamp back, do not put it off.
RetryAfterSuffices ==
  [][\A c \in Caller : Deny(c) /\ promise # 0 => Clock(c) < promise]_vars

\* The replicas' clocks agree.
Synced == \A c \in Caller : Offset[c] = 0
=============================================================================
