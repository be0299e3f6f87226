----------------------------- MODULE MCAccess -----------------------------
(* Instances of Access for TLC.                                            *)
EXTENDS Access

CONSTANTS k1, k2, m1, m2, r1, r2, a1, a2

\* No restriction, and one that leaves a model out.
OneOrAll == {{}, {m1}}
=============================================================================
