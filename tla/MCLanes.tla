------------------------------ MODULE MCLanes ------------------------------
(* Lanes, for TLC. *)
EXTENDS Lanes, TLC
=============================================================================
