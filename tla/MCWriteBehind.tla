---------------------------- MODULE MCWriteBehind ----------------------------
(* Small instances of WriteBehind for TLC; no symmetry, as liveness is checked. *)
EXTENDS WriteBehind, TLC
=============================================================================
