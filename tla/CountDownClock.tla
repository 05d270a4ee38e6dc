--------------------------- MODULE CountDownClock ---------------------------
(***************************************************************************)
(* The count-down clocks of spx_lib.  A start spawns a task that runs on a *)
(* thread of its own: it sleeps, is told to begin again or to stop, calls  *)
(* on_expire and last clears is_running.  The owner's calls come between   *)
(* any two of its steps.                                                   *)
(***************************************************************************)
EXTENDS Naturals, FiniteSets

CONSTANTS Clock,      \* the clocks
          MaxStarts   \* bound: tasks spawned by one clock

ASSUME StartsAssumption == MaxStarts \in Nat

VARIABLES running,    \* running[k]: k.is_running
          permit,     \* permit[k]: the permit stored in k.reset_notify
          cancelled,  \* cancelled[k]: k.token
          task,       \* task[k][i]: phase of the i-th task of k
          expiries    \* history: how often k has called on_expire

clockVars == <<running, permit, cancelled, task, expiries>>

Tasks == 1..MaxStarts
Live == {"waiting", "firing", "ending"}
Phases == Live \union {"unspawned", "ended"}

ClockInit == /\ running = [k \in Clock |-> FALSE]
             /\ permit = [k \in Clock |-> FALSE]
             /\ cancelled = [k \in Clock |-> FALSE]
             /\ task = [k \in Clock |-> [i \in Tasks |-> "unspawned"]]
             /\ expiries = [k \in Clock |-> 0]

-----------------------------------------------------------------------------
\* What the owner calls.

Spawn(k) == /\ \E i \in Tasks : /\ task[k][i] = "unspawned"
                                /\ \A j \in Tasks : j < i => task[k][j] # "unspawned"
                                /\ task' = [task EXCEPT ![k][i] = "waiting"]
            /\ running' = [running EXCEPT ![k] = TRUE]
            /\ UNCHANGED <<permit, cancelled, expiries>>

\* Mutant: the flag is not looked at.
StartAnyway(k) == Spawn(k)

\* start_fixed and start_random: a no-op while is_running is set.
Start(k) == \/ running[k] /\ UNCHANGED clockVars
            \/ ~running[k] /\ Spawn(k)

Reset(k) == /\ permit' = [permit EXCEPT ![k] = TRUE]
            /\ UNCHANGED <<running, cancelled, task, expiries>>

Cancel(k) == /\ cancelled' = [cancelled EXCEPT ![k] = TRUE]
             /\ UNCHANGED <<running, permit, task, expiries>>

-----------------------------------------------------------------------------
\* The task's steps.

Move(k, i, from, to) == /\ task[k][i] = from
                        /\ task' = [task EXCEPT ![k][i] = to]

\* Mutant: the select looks at the timer before it looks at the token.
WakeUnbiased(k, i) ==
  /\ Move(k, i, "waiting", "firing")
  /\ UNCHANGED <<running, permit, cancelled, expiries>>

\* Mutant: the token's branch continues the loop instead of leaving it.
WakeContinues(k, i) ==
  /\ \/ /\ ~permit[k] \/ cancelled[k]
        /\ Move(k, i, "waiting", IF cancelled[k] THEN "waiting" ELSE "firing")
        /\ UNCHANGED permit
     \/ /\ permit[k] /\ ~cancelled[k]
        /\ Move(k, i, "waiting", "waiting")
        /\ permit' = [permit EXCEPT ![k] = FALSE]
  /\ UNCHANGED <<running, cancelled, expiries>>

\* The biased select: the token first, then the reset permit, then the timer.
Wake(k, i) ==
  \/ /\ cancelled[k]
     /\ Move(k, i, "waiting", "ending")
     /\ UNCHANGED <<running, permit, cancelled, expiries>>
  \/ /\ ~cancelled[k] /\ permit[k]
     /\ Move(k, i, "waiting", "waiting")
     /\ permit' = [permit EXCEPT ![k] = FALSE]
     /\ UNCHANGED <<running, cancelled, expiries>>
  \/ /\ ~cancelled[k] /\ ~permit[k]
     /\ Move(k, i, "waiting", "firing")
     /\ UNCHANGED <<running, permit, cancelled, expiries>>

\* on_expire, then break.
Fire(k, i) == /\ Move(k, i, "firing", "ending")
              /\ expiries' = [expiries EXCEPT ![k] = @ + 1]
              /\ UNCHANGED <<running, permit, cancelled>>

\* is_running.store(false)
Finish(k, i) == /\ Move(k, i, "ending", "ended")
                /\ running' = [running EXCEPT ![k] = FALSE]
                /\ UNCHANGED <<permit, cancelled, expiries>>

-----------------------------------------------------------------------------
\* An owner that makes any call at any time.
ClockNext == \E k \in Clock :
               \/ Start(k) \/ Reset(k) \/ Cancel(k)
               \/ \E i \in Tasks : Wake(k, i) \/ Fire(k, i) \/ Finish(k, i)

ClockSpec == ClockInit /\ [][ClockNext]_clockVars

\* A spawned task is polled, and its sleep ends.
ClockFairness == \A k \in Clock, i \in Tasks : /\ WF_clockVars(Wake(k, i))
                                               /\ WF_clockVars(Fire(k, i))
                                               /\ WF_clockVars(Finish(k, i))

FairClockSpec == ClockSpec /\ ClockFairness

-----------------------------------------------------------------------------
ClockTypeOK == /\ running \in [Clock -> BOOLEAN]
               /\ permit \in [Clock -> BOOLEAN]
               /\ cancelled \in [Clock -> BOOLEAN]
               /\ task \in [Clock -> [Tasks -> Phases]]
               /\ expiries \in [Clock -> Nat]

LiveTasks(k) == {i \in Tasks : task[k][i] \in Live}

\* Only one task of a clock runs at a time, and is_running says whether one does:
\* the task that ends cannot clear the flag of the task after it.
OneTask == \A k \in Clock : /\ \A i, j \in LiveTasks(k) : i = j
                            /\ running[k] <=> LiveTasks(k) # {}

\* The clock keeps the promise of Countdown.
Pending(k) == \E i \in Tasks : \/ task[k][i] = "firing"
                               \/ task[k][i] = "waiting" /\ ~cancelled[k]

C == INSTANCE Countdown WITH armed <- [k \in Clock |-> Pending(k)], stopped <- cancelled

KeepsPromise == C!Spec

\* Whatever the owner does, a cancelled clock's tasks end: none is left behind.
CancelEndsTasks == \A k \in Clock : cancelled[k] ~> LiveTasks(k) = {}
=============================================================================
