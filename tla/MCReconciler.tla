---- MODULE MCReconciler ----
EXTENDS Reconciler, TLC

CONSTANTS a, b, s1, s2

SweepSymmetry == Permutations({s1, s2})
IdAndSweepSymmetry == Permutations({a, b}) \cup Permutations({s1, s2})
====
