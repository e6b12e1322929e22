------------------------------ MODULE MCBudget ------------------------------
EXTENDS Budget, TLC

Replicas == Permutations(Caller)
=============================================================================
