----------------------------- MODULE MCBudget -----------------------------
(* Instances of Budget for TLC.                                            *)
EXTENDS Budget, TLC

CONSTANTS k1, r1, r2, w1, w2

\* Every request spends from the same key.
OneKey == [r \in Requests |-> k1]
=============================================================================
