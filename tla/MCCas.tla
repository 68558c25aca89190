------------------------------- MODULE MCCas -------------------------------
(* Cas, for TLC. *)
EXTENDS Cas, TLC

Symmetry == Permutations(Hash) \cup Permutations(Thread)
=============================================================================
