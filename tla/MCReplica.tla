------------------------------ MODULE MCReplica ------------------------------
(* Small instances of Replica for TLC. *)
EXTENDS Replica, TLC

\* Names are alike, and so are the directories below the root.
Symmetry == Permutations(Name) \cup Permutations(DirNode \ {Root}) \cup Permutations(Stat)
=============================================================================
