----------------------------- MODULE Heartbeat -----------------------------
(***************************************************************************)
(* The Leader's heartbeat: a count-down clock owned by the Leader, the     *)
(* permit of HeartbeatState that its expiry stores, and the branch of the  *)
(* select loop that takes the permit, broadcasts and starts the clock      *)
(* again.  The permit belongs to the context and outlives the Leader; the  *)
(* clock is dropped with it, so each Leader has a clock of its own.        *)
(*                                                                         *)
(* The select is biased: no event is taken from the channel while a permit *)
(* waits, but an expired lease, which ends the Leader's office, is.        *)
(***************************************************************************)
EXTENDS CountDownClock

CONSTANTS Vacant,      \* no member of Clock: the state machine is no Leader
          MaxWrites    \* bound: client writes

ASSUME HeartbeatAssumption == Vacant \notin Clock /\ MaxWrites \in Nat

VARIABLES seat,      \* the clock of the Leader in office, or Vacant
          used,      \* the clocks of the Leaders so far
          signal,    \* the permit of HeartbeatState
          beating,   \* the loop is inside handle_heartbeat_timer
          writes     \* client writes so far

vars == <<clockVars, seat, used, signal, beating, writes>>

Init == /\ ClockInit
        /\ seat = Vacant
        /\ used = {}
        /\ signal = FALSE
        /\ beating = FALSE
        /\ writes = 0

\* Leader::new starts the clock it makes.
TakeOffice == /\ seat = Vacant /\ ~signal
              /\ \E k \in Clock \ used : /\ Start(k)
                                         /\ seat' = k
                                         /\ used' = used \union {k}
              /\ UNCHANGED <<signal, beating, writes>>

\* Mutant: Drop forgets the heartbeat clock.
LeaveOfficeOnly == /\ seat # Vacant /\ ~beating
                   /\ seat' = Vacant
                   /\ UNCHANGED <<clockVars, used, signal, beating, writes>>

\* Any event that makes the Leader a Follower drops it, and Drop cancels its clock.
LeaveOffice == /\ seat # Vacant /\ ~beating
               /\ Cancel(seat)
               /\ seat' = Vacant
               /\ UNCHANGED <<used, signal, beating, writes>>

\* A client write postpones the heartbeat.
ClientWrite == /\ seat # Vacant /\ ~beating /\ ~signal
               /\ writes < MaxWrites
               /\ Reset(seat)
               /\ writes' = writes + 1
               /\ UNCHANGED <<seat, used, signal, beating>>

\* HeartbeatTimerFired: the permit is taken; only a Leader does anything with it.
TakeSignal == /\ signal /\ ~beating
              /\ signal' = FALSE
              /\ beating' = (seat # Vacant)
              /\ UNCHANGED <<clockVars, seat, used, writes>>

\* The broadcast awaits; then the clock is started for the next idle window.
FinishBeat == /\ beating
              /\ Start(seat)
              /\ beating' = FALSE
              /\ UNCHANGED <<seat, used, signal, writes>>

\* The clock's task runs beside the loop; its on_expire stores the permit.
ClockRuns(k, i) == \/ /\ Wake(k, i) \/ Finish(k, i)
                      /\ UNCHANGED <<seat, used, signal, beating, writes>>
                   \/ /\ Fire(k, i)
                      /\ signal' = TRUE
                      /\ UNCHANGED <<seat, used, beating, writes>>

Next == \/ TakeOffice \/ LeaveOffice \/ ClientWrite \/ TakeSignal \/ FinishBeat
        \/ \E k \in Clock, i \in Tasks : ClockRuns(k, i)

Spec == Init /\ [][Next]_vars

\* The loop serves its branches and the clock's task is polled; nobody has to
\* write, to be elected or to step down.
FairSpec == /\ Spec
            /\ WF_vars(TakeSignal) /\ WF_vars(FinishBeat)
            /\ \A k \in Clock, i \in Tasks : WF_vars(ClockRuns(k, i))

-----------------------------------------------------------------------------
TypeOK == /\ ClockTypeOK
          /\ seat \in Clock \union {Vacant}
          /\ used \subseteq Clock
          /\ signal \in BOOLEAN /\ beating \in BOOLEAN
          /\ writes \in 0..MaxWrites

\* Only the Leader's clock counts: of a former Leader's clock at most an expiry
\* that was on its way when the Leader was dropped can still come.
OnlyTheLeadersClockRuns == \A k \in Clock : Pending(k) /\ k # seat =>
                             \E i \in Tasks : task[k][i] = "firing"

\* A Leader that steps down leaves no heartbeat task behind.
DroppedClocksEnd == \A k \in Clock : (k \in used /\ k # seat) ~> LiveTasks(k) = {}

\* In idle periods the Leader sends periodic heartbeats: in office, it always
\* comes to another one.
HeartbeatsGoOn == \A k \in Clock : seat = k ~> (beating \/ seat # k)
=============================================================================
