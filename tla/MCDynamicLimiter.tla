---- MODULE MCDynamicLimiter ----
EXTENDS DynamicLimiter, TLC

CONSTANTS t1, t2

CallerSymmetry == Permutations({t1, t2})
====
