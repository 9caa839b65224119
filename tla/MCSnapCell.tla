----------------------------- MODULE MCSnapCell -----------------------------
EXTENDS SnapCellRefinement, TLC

\* Addresses are interchangeable.
Symmetry == Permutations(Addr)
=============================================================================
