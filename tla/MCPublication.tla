--------------------------- MODULE MCPublication ---------------------------
(* Instances of Publication for TLC.                                       *)
EXTENDS Publication, TLC

CONSTANTS w1, w2, b1, t1, q1

\* Mutation 1 leaves a logical model without a candidate, mutation 2 adds one.
BrokenThenRepaired == {c \in SUBSET Versions : 1 \in c => 2 \in c}

\* Every mutation leaves the tables fit to be served.
AlwaysValid == SUBSET Versions

WorkerSymmetry == Permutations(Workers)
=============================================================================
