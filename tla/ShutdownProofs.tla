--------------------------- MODULE ShutdownProofs ---------------------------
(***************************************************************************)
(* What the runners, and the end of the process, come to for every number  *)
(* of workers.                                                             *)
(***************************************************************************)
EXTENDS Shutdown, TLAPS

-----------------------------------------------------------------------------
LEMMA RunnersType == /\ Manager \in Runners
                     /\ 1 \in Managed
                     /\ \A w \in Managed : w \in Nat /\ w \in Runners
                     /\ \A w \in Runners : w < Workers => w + 1 \in Managed
                     /\ \A w \in Runners : w # Manager => w \in Managed
BY WorkersAssumption DEF Manager, Runners, Managed

\* Where main goes when a stop is over; only the manager's own is never followed by a join.
LEMMA AfterStopType ==
  ASSUME NEW w \in Runners, NEW b \in BOOLEAN
  PROVE  /\ AfterStop(w, b) \in [at : {"start", "await", "stop", "join", "returned", "panicked"},
                                 of : Runners]
         /\ AfterStop(w, b).at \in {"stop", "join", "returned", "panicked"}
         /\ AfterStop(w, b).at = "join" => w # Manager
BY RunnersType, WorkersAssumption DEF AfterStop, At, Managed, Runners, Manager

-----------------------------------------------------------------------------
\* Types, for every number of workers.
THEOREM TypeCorrect == Spec => []TypeOK
<1>1. Init => TypeOK
  <2> SUFFICES ASSUME Init PROVE TypeOK
    OBVIOUS
  <2>1. Idle \in [run_status : {"IDLE", "ACTIVE"}, stop_token : BOOLEAN, worker_task : BOOLEAN]
    BY DEF Idle
  <2>2. At("start", 1) \in [at : {"start", "await", "stop", "join", "returned", "panicked"},
                            of : Runners]
    BY RunnersType DEF At
  <2> QED
    BY <2>1, <2>2 DEF Init, TypeOK
<1>2. TypeOK /\ [Next]_vars => TypeOK'
  <2> SUFFICES ASSUME TypeOK, [Next]_vars PROVE TypeOK'
    OBVIOUS
  <2> USE DEF TypeOK
  <2>1. CASE Start
    <3>1. main.of \in Runners
      OBVIOUS
    <3>2. main' \in [at : {"start", "await"}, of : Runners]
      BY <2>1, <3>1, RunnersType, WorkersAssumption DEF Start, At, Managed, Runners
    <3>3. runner' = [runner EXCEPT ![main.of] = Active] /\ task' = [task EXCEPT ![main.of] = "select"]
      BY <2>1 DEF Start
    <3>4. Active \in [run_status : {"IDLE", "ACTIVE"}, stop_token : BOOLEAN, worker_task : BOOLEAN]
      BY DEF Active
    <3> QED
      BY <2>1, <3>1, <3>2, <3>3, <3>4 DEF Start, tokens
  <2>2. CASE StopManager
    BY <2>2, RunnersType DEF StopManager, At, tasks
  <2>3. CASE StopWorker
    BY <2>3 DEF StopWorker, OnStop, At, tasks
  <2>4. CASE Join
    <3>1. AfterStop(main.of, task[main.of] = "ok") \in
            [at : {"start", "await", "stop", "join", "returned", "panicked"}, of : Runners]
      BY AfterStopType
    <3> QED
      BY <2>4, <3>1 DEF Join, Joined, Reset, Idle, tokens, tasks
  <2>5. CASE JoinCancelled
    <3>1. AfterStop(main.of, FALSE) \in
            [at : {"start", "await", "stop", "join", "returned", "panicked"}, of : Runners]
      BY AfterStopType
    <3> QED
      BY <2>5, <3>1 DEF JoinCancelled, Joined, Reset, AbortTask, Idle, tokens
  <2>6. CASE ManagerTaskEnds \/ Signal \/ ServerFails
    BY <2>6, RunnersType
    DEF ManagerTaskEnds, Signal, ServerFails, CancelOnSignal, tokens, tasks, Over
  <2>7. ASSUME NEW w \in Managed, TaskStep(w) \/ Processed(w) PROVE TypeOK'
    BY <2>7, RunnersType DEF TaskStep, Poll, ProcessEvent, Abort, Processed, tokens, Over
  <2>8. CASE UNCHANGED vars
    BY <2>8 DEF vars, tokens, tasks
  <2> QED
    BY <2>1, <2>2, <2>3, <2>4, <2>5, <2>6, <2>7, <2>8 DEF Next, MainStep
<1> QED
  BY <1>1, <1>2, PTL DEF Spec

-----------------------------------------------------------------------------
\* No second task can be started while one runs, and none is left without a handle: the
\* task of a runner goes on until it is over, and a runner is reset, and the handle
\* dropped, only when it is, or is aborted.
HandlesInv == IdleHasNoTask /\ NoneDetached

\* The runner of a task that is not over nor aborted is active and has the task's handle.
THEOREM TasksHaveHandles == Spec => [](IdleHasNoTask /\ NoneDetached)
<1>1. Init => HandlesInv
  BY DEF Init, HandlesInv, IdleHasNoTask, NoneDetached
<1>2. TypeOK /\ HandlesInv /\ [Next]_vars => HandlesInv'
  <2> SUFFICES ASSUME TypeOK, HandlesInv, [Next]_vars PROVE HandlesInv'
    OBVIOUS
  <2> USE DEF TypeOK, HandlesInv, IdleHasNoTask, NoneDetached
  <2>1. CASE Start
    BY <2>1 DEF Start, Active, tokens
  <2>2. CASE StopManager
    BY <2>2, RunnersType DEF StopManager, tasks
  <2>3. CASE StopWorker
    BY <2>3 DEF StopWorker, tasks
  <2>4. CASE Join
    BY <2>4 DEF Join, Joined, Reset, Idle, tokens, tasks
  <2>5. CASE JoinCancelled
    BY <2>5 DEF JoinCancelled, Joined, Reset, AbortTask, tokens
  <2>6. CASE ManagerTaskEnds \/ Signal \/ ServerFails
    BY <2>6, RunnersType DEF ManagerTaskEnds, Signal, ServerFails, tokens, tasks, Over
  <2>7. ASSUME NEW w \in Managed, TaskStep(w) \/ Processed(w) PROVE HandlesInv'
    BY <2>7, RunnersType DEF TaskStep, Poll, ProcessEvent, Abort, Processed, tokens, Over
  <2>8. CASE UNCHANGED vars
    BY <2>8 DEF vars, tokens, tasks
  <2> QED
    BY <2>1, <2>2, <2>3, <2>4, <2>5, <2>6, <2>7, <2>8 DEF Next, MainStep
<1> QED
  BY <1>1, <1>2, TypeCorrect, PTL DEF Spec, HandlesInv

-----------------------------------------------------------------------------
EndInv == /\ SignalsEndNothing
          /\ StateMachinePanics
          /\ shutdown => failed

\* A signal never gets main past its wait, and no process of state machines returns.
THEOREM OnlyFailureEnds == Spec => [](SignalsEndNothing /\ StateMachinePanics)
<1>1. Init => EndInv
  BY DEF Init, EndInv, SignalsEndNothing, StateMachinePanics, At
<1>2. TypeOK /\ EndInv /\ [Next]_vars => EndInv'
  <2> SUFFICES ASSUME TypeOK, EndInv, [Next]_vars PROVE EndInv'
    OBVIOUS
  <2> USE DEF EndInv, SignalsEndNothing, StateMachinePanics
  <2>1. CASE Start
    BY <2>1 DEF Start, At, tokens
  <2>2. CASE StopManager
    BY <2>2 DEF StopManager, At
  <2>3. CASE StopWorker
    BY <2>3 DEF StopWorker, OnStop, At
  <2>4. CASE Join
    BY <2>4, AfterStopType DEF Join, Joined, tokens, TypeOK
  <2>5. CASE JoinCancelled
    BY <2>5, AfterStopType DEF JoinCancelled, Joined, tokens, TypeOK
  <2>6. CASE ManagerTaskEnds \/ Signal \/ ServerFails
    BY <2>6 DEF ManagerTaskEnds, Signal, ServerFails, CancelOnSignal, tokens
  <2>7. ASSUME NEW w \in Managed, TaskStep(w) \/ Processed(w) PROVE EndInv'
    BY <2>7 DEF TaskStep, Poll, ProcessEvent, Abort, Processed, tokens
  <2>8. CASE UNCHANGED vars
    BY <2>8 DEF vars, tokens, tasks
  <2> QED
    BY <2>1, <2>2, <2>3, <2>4, <2>5, <2>6, <2>7, <2>8 DEF Next, MainStep
<1> QED
  BY <1>1, <1>2, TypeCorrect, PTL DEF Spec, EndInv
=============================================================================
