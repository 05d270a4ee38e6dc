----------------------------- MODULE MCElection -----------------------------
(* Instances of Election for TLC. *)
EXTENDS Election, TLC

CONSTANTS n1, n2, n3, o1, o2, NONE

NetworkBound == Cardinality(calls) + Cardinality(replies) <= 3

Symmetry == Permutations(Node)
=============================================================================
