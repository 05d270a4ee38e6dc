------------------------------ MODULE MCLease ------------------------------
(* Instances of Lease for TLC. *)
EXTENDS Lease, TLC

CONSTANTS n1, n2, n3

Symmetry == Permutations(Node)
=============================================================================
