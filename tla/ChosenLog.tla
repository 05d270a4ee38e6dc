----------------------------- MODULE ChosenLog -----------------------------
(***************************************************************************)
(* What a Paxos group promises its clients and its members: one log, slot  *)
(* by slot, that only grows.  Each member knows a prefix of it, and a      *)
(* client is told of a write once the member it asked knows that the write *)
(* is in the log.                                                          *)
(***************************************************************************)
EXTENDS Naturals, FiniteSets

CONSTANT Node

VARIABLES chosen,  \* the log, as a set of [slot, value]
          known,   \* known[n]: how much of it n knows
          told     \* the values whose clients have been told of success

vars == <<chosen, known, told>>

\* One value for each slot, and no gap.
IsLog(entries) == {e.slot : e \in entries} = 1..Cardinality(entries)

Init == chosen = {} /\ known = [n \in Node |-> 0] /\ told = {}

\* n learns more of the log, which it may itself have made longer, and tells clients.
Advance(n) ==
  /\ chosen \subseteq chosen' /\ IsLog(chosen')
  /\ \E k \in known[n]..Cardinality(chosen') : known' = [known EXCEPT ![n] = k]
  /\ told \subseteq told'
  /\ \A v \in told' \ told : \E e \in chosen' : e.value = v /\ e.slot <= known'[n]

\* n panics, and forgets.
Lose(n) == known' = [known EXCEPT ![n] = 0] /\ UNCHANGED <<chosen, told>>

Next == \E n \in Node : Advance(n) \/ Lose(n)

Spec == Init /\ [][Next]_vars
=============================================================================
