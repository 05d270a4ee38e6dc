----------------------------- MODULE Countdown -----------------------------
(***************************************************************************)
(* What a count-down clock promises its owner: it expires at most once for *)
(* each time it was armed, and once stopped it can expire at most once     *)
(* more, if it was armed then.  It does not promise to be armed by a start.*)
(***************************************************************************)
EXTENDS Naturals

CONSTANT Clock

VARIABLES armed,     \* armed[k]: an expiry of k is to come
          stopped,   \* stopped[k]: the owner has stopped k
          expiries   \* expiries[k]: how often k has expired

Init == /\ armed = [k \in Clock |-> FALSE]
        /\ stopped = [k \in Clock |-> FALSE]
        /\ expiries = [k \in Clock |-> 0]

Arm(k) == /\ ~armed[k] /\ ~stopped[k]
          /\ armed' = [armed EXCEPT ![k] = TRUE]
          /\ UNCHANGED <<stopped, expiries>>

Expire(k) == /\ armed[k]
             /\ armed' = [armed EXCEPT ![k] = FALSE]
             /\ expiries' = [expiries EXCEPT ![k] = @ + 1]
             /\ UNCHANGED stopped

\* An expiry already on its way cannot be stopped any more.
Stop(k) == /\ stopped' = [stopped EXCEPT ![k] = TRUE]
           /\ \E still \in {armed[k], FALSE} : armed' = [armed EXCEPT ![k] = still]
           /\ UNCHANGED expiries

Next == \E k \in Clock : Arm(k) \/ Expire(k) \/ Stop(k)

Spec == Init /\ [][Next]_<<armed, stopped, expiries>>
=============================================================================
