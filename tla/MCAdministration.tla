-------------------------- MODULE MCAdministration --------------------------
(* Administration with small tables, for TLC. *)
EXTENDS Administration, TLC

\* Identifiers of one kind, and administrators, are interchangeable.
Symmetry ==
    Permutations(Admins) \cup Permutations(Providers) \cup Permutations(Models)
      \cup Permutations(Candidates) \cup Permutations(Protocols)
=============================================================================
