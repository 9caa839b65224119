------------------------- MODULE MCRegistryLifetime -------------------------
(* RegistryLifetime for TLC. *)
EXTENDS RegistryLifetime, TLC
=============================================================================
