----------------------------- MODULE MCNamespace -----------------------------
(* Small instances of Namespace for TLC. *)
EXTENDS Namespace, TLC
Symmetry == Permutations(Dir)
=============================================================================
