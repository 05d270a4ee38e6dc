------------------------------ MODULE Shutdown ------------------------------
(***************************************************************************)
(* The life of a server process: main starts its workers, each in a        *)
(* WorkerRunner, and a manager of them, in a WorkerRunner too; it waits    *)
(* for the shutdown token and stops the manager, which stops the workers   *)
(* one after the other.                                                    *)
(*                                                                         *)
(* A runner's stop token is a child of the shutdown token: cancelling the  *)
(* parent cancels it as well, and not the other way round.  Tasks run on   *)
(* other threads than main.  A task that is aborted ends where it awaits   *)
(* something.  When main ends, by a panic or not, the process does.        *)
(***************************************************************************)
EXTENDS Naturals

CONSTANT Workers  \* how many runners the manager has

ASSUME WorkersAssumption == Workers \in Nat \ {0}

VARIABLES worker,     \* T of WorkerRunnerManager<T>
          shutdown,   \* whether the shutdown token has been cancelled
          cancelled,  \* whether the stop token of each runner has been, itself
          runner,     \* the WorkerRunners
          task,       \* where the task of each is
          aborting,   \* the tasks that have been aborted
          main,       \* where main is
          failed      \* whether the gRPC server has exited with an error

tokens == <<shutdown, cancelled>>
tasks == <<task, aborting>>
vars == <<worker, tokens, runner, tasks, main, failed>>

Manager == 0
Managed == 1..Workers
Runners == Managed \union {Manager}

Idle == [run_status |-> "IDLE", stop_token |-> FALSE, worker_task |-> FALSE]
Active == [run_status |-> "ACTIVE", stop_token |-> TRUE, worker_task |-> TRUE]

Over == {"ok", "error", "aborted"}
Ended == main.at \in {"returned", "panicked"}
At(label, w) == [at |-> label, of |-> w]

\* is_cancelled of the token that the task of w has.
Cancelled(w) == shutdown \/ cancelled[w]

Init == /\ worker \in {"PaxosStateMachine", "TaskDispatcher"}
        /\ shutdown = FALSE
        /\ cancelled = [w \in Runners |-> FALSE]
        /\ runner = [w \in Runners |-> Idle]
        /\ task = [w \in Runners |-> "none"]
        /\ aborting = {}
        /\ main = At("start", 1)
        /\ failed = FALSE

-----------------------------------------------------------------------------
\* The tasks.

\* The select of the loop: the token first, or else what there is to process.
Poll(w) ==
  /\ ~Ended
  /\ w \in Managed
  /\ task[w] = "select"
  /\ task' = [task EXCEPT ![w] = IF Cancelled(w) THEN "ok"
                                 ELSE IF worker = "PaxosStateMachine" THEN "chosen"
                                 ELSE "processing"]
  /\ UNCHANGED <<worker, tokens, runner, aborting, main, failed>>

\* process_event looks at the token again, and its error panics the loop.
ProcessEvent(w) ==
  /\ ~Ended
  /\ task[w] = "chosen"
  /\ task' = [task EXCEPT ![w] = IF Cancelled(w) THEN "error" ELSE "processing"]
  /\ UNCHANGED <<worker, tokens, runner, aborting, main, failed>>

\* The handler returns, with an error that panics the loop perhaps.
Processed(w) ==
  /\ ~Ended
  /\ task[w] = "processing"
  /\ \E next \in {"select"} \union (IF worker = "PaxosStateMachine" THEN {"error"} ELSE {}) :
       task' = [task EXCEPT ![w] = next]
  /\ UNCHANGED <<worker, tokens, runner, aborting, main, failed>>

Abort(w) ==
  /\ ~Ended
  /\ w \in aborting
  /\ task[w] \in {"select", "processing"}
  /\ task' = [task EXCEPT ![w] = "aborted"]
  /\ UNCHANGED <<worker, tokens, runner, aborting, main, failed>>

\* The manager's task: the token has been cancelled.
ManagerTaskEnds ==
  /\ ~Ended
  /\ task[Manager] = "select"
  /\ Cancelled(Manager)
  /\ task' = [task EXCEPT ![Manager] = "ok"]
  /\ UNCHANGED <<worker, tokens, runner, aborting, main, failed>>

CancelShutdown == shutdown' = TRUE /\ UNCHANGED cancelled

\* sigint_token.cancel(), sigterm_token.cancel()
CancelOnSignal == cancelled' = [cancelled EXCEPT ![Manager] = TRUE] /\ UNCHANGED shutdown

\* The manager's task: SIGINT or SIGTERM.
Signal ==
  /\ ~Ended
  /\ task[Manager] = "select"
  /\ CancelOnSignal
  /\ task' = [task EXCEPT ![Manager] = "ok"]
  /\ UNCHANGED <<worker, runner, aborting, main, failed>>

\* start_paxos_server: the server's task ends with an error.
ServerFails ==
  /\ ~Ended
  /\ ~shutdown
  /\ failed' = TRUE
  /\ shutdown' = TRUE
  /\ UNCHANGED <<worker, cancelled, runner, tasks, main>>

-----------------------------------------------------------------------------
\* main.

\* run: start spawns the task.
Start ==
  /\ main.at = "start"
  /\ LET w == main.of
     IN /\ runner' = [runner EXCEPT ![w] = Active]
        /\ task' = [task EXCEPT ![w] = "select"]
        /\ main' = IF w = Manager THEN At("await", Manager)
                   ELSE At("start", IF w < Workers THEN w + 1 ELSE Manager)
  /\ UNCHANGED <<worker, tokens, aborting, failed>>

\* shutdown_token.cancelled(), and runner_manager.stop until its on_stop.
StopManager ==
  /\ main.at = "await"
  /\ shutdown
  /\ runner' = [runner EXCEPT ![Manager].stop_token = FALSE]
  /\ cancelled' = [cancelled EXCEPT ![Manager] = TRUE]
  /\ main' = At("stop", 1)
  /\ UNCHANGED <<worker, shutdown, tasks, failed>>

OnStopReturns == main' = At("join", main.of)

\* PaxosStateMachine::on_stop is a todo!(), which panics main with it.
OnStop == main' = IF worker = "PaxosStateMachine" THEN At("panicked", main.of)
                  ELSE At("join", main.of)

\* stop of one of the manager's runners.
StopWorker ==
  /\ main.at = "stop"
  /\ runner' = [runner EXCEPT ![main.of].stop_token = FALSE]
  /\ cancelled' = [cancelled EXCEPT ![main.of] = TRUE]
  /\ OnStop
  /\ UNCHANGED <<worker, shutdown, tasks, failed>>

AfterStopPastLast(w, succeeded) ==
  IF w = Manager THEN At(IF succeeded THEN "returned" ELSE "panicked", Manager)
  ELSE IF w <= Workers THEN At("stop", w + 1)
  ELSE At("join", Manager)

\* What comes after a stop that has succeeded or not: the manager goes on to its next
\* runner either way, and main panics with its own manager's error.
AfterStop(w, succeeded) ==
  IF w = Manager THEN At(IF succeeded THEN "returned" ELSE "panicked", Manager)
  ELSE IF w < Workers THEN At("stop", w + 1)
  ELSE At("join", Manager)

ResetAlways(w, succeeded) == Idle

\* reset, which an error skips; the handle of the task is gone.
Reset(w, succeeded) == IF succeeded THEN Idle ELSE [runner[w] EXCEPT !.worker_task = FALSE]

Joined(w, succeeded) == /\ runner' = [runner EXCEPT ![w] = Reset(w, succeeded)]
                        /\ main' = AfterStop(w, succeeded)

\* stop_worker_task: the task has ended.
Join ==
  /\ main.at = "join"
  /\ task[main.of] \in Over
  /\ Joined(main.of, task[main.of] = "ok")
  /\ UNCHANGED <<worker, tokens, tasks, failed>>

AbortNot(w) == UNCHANGED aborting
AbortTask(w) == aborting' = aborting \union {w}

TokenOfMain(w) == FALSE

\* The token of stop_worker_task's select is the one that stop has just cancelled, not the
\* one that main has given to stop and never cancels.
IsJoinCancelled(w) == cancelled[w]

\* stop_worker_task: the token has been cancelled, whether the task has ended or not.
JoinCancelled ==
  /\ main.at = "join"
  /\ IsJoinCancelled(main.of)
  /\ AbortTask(main.of)
  /\ Joined(main.of, FALSE)
  /\ UNCHANGED <<worker, tokens, task, failed>>

-----------------------------------------------------------------------------
MainStep == Start \/ StopManager \/ StopWorker \/ Join \/ JoinCancelled

TaskStep(w) == Poll(w) \/ ProcessEvent(w) \/ Abort(w)

Next == \/ MainStep \/ ManagerTaskEnds \/ Signal \/ ServerFails
        \/ \E w \in Managed : TaskStep(w) \/ Processed(w)

\* main and the tasks are scheduled; a handler may wait for ever, or for a peer.
Fairness == /\ WF_vars(MainStep)
            /\ WF_vars(ManagerTaskEnds)
            /\ \A w \in Managed : WF_vars(TaskStep(w))

Spec == Init /\ [][Next]_vars /\ Fairness

-----------------------------------------------------------------------------
\* Types: the variables hold what the code's do.
TypeOK ==
  /\ worker \in {"PaxosStateMachine", "TaskDispatcher"}
  /\ shutdown \in BOOLEAN
  /\ cancelled \in [Runners -> BOOLEAN]
  /\ runner \in [Runners -> [run_status : {"IDLE", "ACTIVE"}, stop_token : BOOLEAN,
                             worker_task : BOOLEAN]]
  /\ task \in [Runners -> {"none", "select", "chosen", "processing"} \union Over]
  /\ aborting \subseteq Runners
  /\ main \in [at : {"start", "await", "stop", "join", "returned", "panicked"}, of : Runners]
  /\ failed \in BOOLEAN

\* SIGINT and SIGTERM, which the manager's task takes from the process, never end it: only
\* an error of the gRPC server reaches the token that main waits for.
SignalsEndNothing == main.at \notin {"start", "await"} => failed

\* A process whose workers are state machines never ends but by a panic.
StateMachinePanics == worker = "PaxosStateMachine" => main.at \notin {"join", "returned"}

\* An idle runner, which would start a second task if asked to, has none that still runs.
IdleHasNoTask ==
  \A w \in Runners : runner[w].run_status = "IDLE" => task[w] \in Over \union {"none"}

\* "Abort the task so it doesn't continue running detached in the background"
\* (runner.rs:127): no task runs on that no runner has a handle to.
NoneDetached ==
  \A w \in Runners : ~runner[w].worker_task => task[w] \in Over \union {"none"} \/ w \in aborting

\* A server that fails ends the process, whatever its workers are waiting for.
FailureEndsProcess == failed ~> Ended
=============================================================================
