--------------------------- MODULE MCDelegations ---------------------------
(***************************************************************************)
(* Instances of Delegations for TLC.                                       *)
(***************************************************************************)
EXTENDS Delegations

Symmetry == Permutations(Conn)
=============================================================================
