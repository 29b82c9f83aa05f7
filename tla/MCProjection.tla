---- MODULE MCProjection ----
EXTENDS Projection, TLC

CONSTANTS a, b

IdPermutations == Permutations({a, b})
====
