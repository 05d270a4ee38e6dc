--------------------------- MODULE MCReplication ---------------------------
(* Instances of Replication for TLC. *)
EXTENDS Replication

CONSTANTS n1, n2, n3

Symmetry == Permutations(Node)
=============================================================================
