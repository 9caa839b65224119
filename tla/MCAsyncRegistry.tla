-------------------------- MODULE MCAsyncRegistry --------------------------
(* AsyncRegistry for TLC. *)
EXTENDS AsyncRegistry, TLC
=============================================================================
