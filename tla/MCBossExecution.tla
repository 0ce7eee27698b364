--------------------------- MODULE MCBossExecution ---------------------------
EXTENDS BossExecution, TLC

CONSTANTS a1, a2, r1, r2, r3

\* Requests are interchangeable.
SameRequests == Permutations(Requests)
=============================================================================
