------------------------- MODULE MCReplicationFive -------------------------
(* Five members, of which two lead by turns: a search of the few behaviours *)
(* of Replication that take one member back into office.                    *)
EXTENDS Replication

CONSTANTS n1, n2, n3, n4, n5

Symmetry == Permutations({n4, n5})

\* n1 leads in the terms 1 and 3, n2 in term 2.  In term 1 n1 reaches n3 only, in
\* term 2 so does n2, and in term 3 n1 reaches n3 and n5.  n4 votes for n2 alone.
Turns ==
  /\ \A n \in Node : role[n] = "Leader" =>
       \/ n = n1 /\ ctx[n].term = 1 /\ \A m \in Node : ctx[m].term < 3
       \/ n = n2 /\ ctx[n].term = 2 /\ writes = 1
       \/ n = n1 /\ ctx[n].term = 3
  /\ \A f \in {n2, n4, n5} : calls[n1][f] # <<>> => f = n5 /\ ctx[n1].term = 3
  /\ \A f \in {n1, n4, n5} : calls[n2][f] = <<>>
  /\ ctx[n4].term < 3
=============================================================================
