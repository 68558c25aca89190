------------------------------- MODULE MCRpc -------------------------------
(* Rpc, for TLC. *)
EXTENDS Rpc, TLC
=============================================================================
