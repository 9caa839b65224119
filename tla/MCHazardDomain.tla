--------------------------- MODULE MCHazardDomain ---------------------------
(* HazardDomain for TLC. *)
EXTENDS HazardDomain, TLC

\* Records, addresses and the threads of the same roles are interchangeable.
Symmetry ==
  Permutations(Record) \cup Permutations(Addr) \cup
  Permutations(Mortal \ Scanner)
=============================================================================
