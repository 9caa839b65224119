--------------------------- MODULE MCSyncRegistry ---------------------------
(* SyncRegistry for TLC. *)
EXTENDS SyncRegistry, TLC
=============================================================================
