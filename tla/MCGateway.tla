----------------------------- MODULE MCGateway -----------------------------
(* Instances of Gateway for TLC.                                           *)
EXTENDS Gateway, TLC

CONSTANTS r1, r2, r3, c1, c2

\* The first connection has a slot and a request quota, the second neither.
OneSlot == (c1 :> 1) @@ (c2 :> 0)
TwoCalls == (c1 :> 2) @@ (c2 :> 0)
NoCalls == (c1 :> 0) @@ (c2 :> 0)

BothOffered == {{c1, c2}}
FirstThenSecond ==
    {[S \in SUBSET Connections |-> SelectSeq(<<c1, c2>>, LAMBDA c : c \in S)]}

RequestSymmetry == Permutations(Requests)
=============================================================================
