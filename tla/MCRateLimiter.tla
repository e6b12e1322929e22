--------------------------- MODULE MCRateLimiter ----------------------------
EXTENDS RateLimiter, TLC

CONSTANTS c1, c2

\* c1's clock is one tick ahead of c2's.
Skewed == [c \in Caller |-> IF c = c1 THEN 1 ELSE 0]
=============================================================================
