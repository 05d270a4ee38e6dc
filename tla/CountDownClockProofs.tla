------------------------ MODULE CountDownClockProofs ------------------------
(***************************************************************************)
(* A clock runs one task at a time and keeps the promise of Countdown,     *)
(* whatever its owner calls and however often; the heartbeat's owner calls *)
(* it so that no former Leader's clock stays armed.                        *)
(***************************************************************************)
EXTENDS Heartbeat, TLAPS

ClockInv == ClockTypeOK /\ OneTask

LEMMA InitialClocks == ClockInit => ClockInv
BY DEF ClockInit, ClockInv, ClockTypeOK, OneTask, LiveTasks, Live, Phases

\* A step concerns one clock, and OneTask is about each clock by itself.
LEMMA OneTaskAgain ==
  ASSUME OneTask, NEW k \in Clock,
         \A x \in Clock \ {k} : running'[x] = running[x] /\ LiveTasks(x)' = LiveTasks(x),
         \A i, j \in LiveTasks(k)' : i = j,
         running'[k] <=> LiveTasks(k)' # {}
  PROVE  OneTask'
<1> SUFFICES ASSUME NEW x \in Clock
             PROVE  /\ \A i, j \in LiveTasks(x)' : i = j
                    /\ running'[x] <=> LiveTasks(x)' # {}
  BY DEF OneTask
<1>1. CASE x = k
  BY <1>1
<1>2. CASE x # k
  <2>1. running'[x] = running[x] /\ LiveTasks(x)' = LiveTasks(x)
    BY <1>2
  <2>2. (\A i, j \in LiveTasks(x) : i = j) /\ (running[x] <=> LiveTasks(x) # {})
    BY DEF OneTask
  <2> QED
    BY <2>1, <2>2, Zenon
<1> QED
  BY <1>1, <1>2

\* A clock without a live task gets one; the others keep theirs.
LEMMA SpawnInv ==
  ASSUME ClockInv, NEW k \in Clock, ~running[k], Spawn(k)
  PROVE  ClockInv'
<1>1. PICK i \in Tasks : task' = [task EXCEPT ![k][i] = "waiting"]
  BY DEF Spawn
<1>2. ClockTypeOK'
  BY <1>1 DEF ClockInv, ClockTypeOK, Spawn, Phases, Live
<1>3. \A j \in Tasks : task[k][j] \notin Live
  BY DEF ClockInv, OneTask, LiveTasks
<1>4. ASSUME NEW x \in Clock, NEW j \in Tasks
      PROVE  task'[x][j] = IF x = k /\ j = i THEN "waiting" ELSE task[x][j]
  BY <1>1 DEF ClockInv, ClockTypeOK
<1>5. running'[k] /\ \A x \in Clock \ {k} : running'[x] = running[x]
  BY DEF ClockInv, ClockTypeOK, Spawn
<1>6. LiveTasks(k)' = {i}
  BY <1>3, <1>4 DEF LiveTasks, Live
<1>7. \A x \in Clock \ {k} : LiveTasks(x)' = LiveTasks(x)
  BY <1>4 DEF LiveTasks
<1>8. OneTask'
  BY <1>5, <1>6, <1>7, OneTaskAgain DEF ClockInv
<1> QED
  BY <1>2, <1>8 DEF ClockInv

\* What a task's step does to the phases.
LEMMA MovePhases ==
  ASSUME ClockTypeOK, NEW k \in Clock, NEW i \in Tasks, NEW from, NEW to \in Phases,
         Move(k, i, from, to)
  PROVE  /\ task[k][i] = from
         /\ task' \in [Clock -> [Tasks -> Phases]]
         /\ \A x \in Clock, j \in Tasks :
              task'[x][j] = IF x = k /\ j = i THEN to ELSE task[x][j]
BY DEF ClockTypeOK, Move

LEMMA StepInv ==
  ASSUME ClockInv, NEW k \in Clock, NEW i \in Tasks, Wake(k, i) \/ Fire(k, i) \/ Finish(k, i)
  PROVE  ClockInv'
<1>1. {"waiting", "firing", "ending", "ended"} \subseteq Phases
  BY DEF Phases, Live
<1>2. CASE Wake(k, i) \/ Fire(k, i)
  <2>1. PICK from \in Live, to \in Live : Move(k, i, from, to)
    BY <1>2 DEF Wake, Fire, Live
  <2>2. running' = running
    BY <1>2 DEF Wake, Fire
  <2>3. to \in Phases
    BY DEF Phases
  <2>4. ClockTypeOK'
    <3>1. task' \in [Clock -> [Tasks -> Phases]]
      BY <2>1, <2>3, MovePhases DEF ClockInv
    <3>2. permit' \in [Clock -> BOOLEAN] /\ cancelled' \in [Clock -> BOOLEAN]
      BY <1>2 DEF ClockInv, ClockTypeOK, Wake, Fire
    <3>3. expiries' \in [Clock -> Nat]
      BY <1>2 DEF ClockInv, ClockTypeOK, Wake, Fire
    <3> QED
      BY <2>2, <3>1, <3>2, <3>3 DEF ClockInv, ClockTypeOK
  <2>5. \A x \in Clock : LiveTasks(x)' = LiveTasks(x)
    BY <2>1, <2>3, MovePhases DEF ClockInv, LiveTasks
  <2> QED
    BY <2>2, <2>4, <2>5 DEF ClockInv, OneTask
<1>3. CASE Finish(k, i)
  <2>1. Move(k, i, "ending", "ended")
    BY <1>3 DEF Finish
  <2>2. ClockTypeOK'
    BY <1>1, <1>3, <2>1, MovePhases DEF ClockInv, ClockTypeOK, Finish
  <2>3. ~running'[k] /\ \A x \in Clock \ {k} : running'[x] = running[x]
    BY <1>3 DEF ClockInv, ClockTypeOK, Finish
  <2>4. \A x \in Clock \ {k} : LiveTasks(x)' = LiveTasks(x)
    BY <1>1, <2>1, MovePhases DEF ClockInv, LiveTasks
  <2>5. LiveTasks(k) = {i}
    BY <2>1 DEF ClockInv, OneTask, LiveTasks, Live, Move
  <2>6. LiveTasks(k)' = {}
    <3>1. \A j \in Tasks : j # i => task[k][j] \notin Live
      BY <2>5 DEF LiveTasks
    <3>2. \A j \in Tasks : task'[k][j] \notin Live
      BY <1>1, <2>1, <3>1, MovePhases DEF ClockInv, Live
    <3> QED
      BY <3>2 DEF LiveTasks
  <2> QED
    BY <2>2, <2>3, <2>4, <2>6, OneTaskAgain DEF ClockInv
<1> QED
  BY <1>2, <1>3

LEMMA OwnerInv ==
  ASSUME ClockInv, NEW k \in Clock, Start(k) \/ Reset(k) \/ Cancel(k)
  PROVE  ClockInv'
<1>1. CASE Reset(k) \/ Cancel(k)
  <2>1. UNCHANGED <<running, task, expiries>>
    BY <1>1 DEF Reset, Cancel
  <2>2. permit' \in [Clock -> BOOLEAN] /\ cancelled' \in [Clock -> BOOLEAN]
    BY <1>1 DEF Reset, Cancel, ClockInv, ClockTypeOK
  <2> QED
    BY <2>1, <2>2 DEF ClockInv, ClockTypeOK, OneTask, LiveTasks
<1>2. CASE Start(k)
  <2>1. CASE UNCHANGED clockVars
    BY <2>1 DEF clockVars, ClockInv, ClockTypeOK, OneTask, LiveTasks
  <2> QED
    BY <1>2, <2>1, SpawnInv DEF Start
<1> QED
  BY <1>1, <1>2

\* is_running tells whether a task lives, and no clock ever has two.
THEOREM OneTaskAtATime == ClockSpec => []OneTask
<1>1. ClockInv /\ [ClockNext]_clockVars => ClockInv'
  <2> SUFFICES ASSUME ClockInv, [ClockNext]_clockVars PROVE ClockInv'
    OBVIOUS
  <2>1. CASE UNCHANGED clockVars
    BY <2>1 DEF clockVars, ClockInv, ClockTypeOK, OneTask, LiveTasks
  <2> QED
    BY <2>1, OwnerInv, StepInv DEF ClockNext
<1>2. ClockInv => OneTask
  BY DEF ClockInv
<1> QED
  BY <1>1, <1>2, InitialClocks, PTL DEF ClockSpec

-----------------------------------------------------------------------------
(* Refinement: every step of a clock is a step of Countdown or a stutter. *)

armed == [k \in Clock |-> Pending(k)]

LEMMA SpawnArms ==
  ASSUME ClockInv, NEW k \in Clock, ~running[k], Spawn(k)
  PROVE  C!Arm(k) \/ UNCHANGED <<armed, cancelled, expiries>>
<1>1. PICK i \in Tasks : task' = [task EXCEPT ![k][i] = "waiting"]
  BY DEF Spawn
<1>2. UNCHANGED <<cancelled, expiries>>
  BY DEF Spawn
<1>3. \A x \in Clock, j \in Tasks :
        task'[x][j] = IF x = k /\ j = i THEN "waiting" ELSE task[x][j]
  BY <1>1 DEF ClockInv, ClockTypeOK
<1>4. \A x \in Clock \ {k} : Pending(x)' = Pending(x)
  BY <1>2, <1>3 DEF Pending
<1>5. ~Pending(k)
  BY DEF ClockInv, OneTask, LiveTasks, Live, Pending
<1>6. Pending(k)' <=> ~cancelled[k]
  BY <1>2, <1>3, <1>5 DEF Pending
<1>7. CASE cancelled[k]
  <2>1. \A x \in Clock : Pending(x)' = Pending(x)
    BY <1>4, <1>5, <1>6, <1>7 DEF Pending
  <2> QED
    BY <1>2, <2>1 DEF armed
<1>8. CASE ~cancelled[k]
  <2>1. armed' = [armed EXCEPT ![k] = TRUE]
    BY <1>4, <1>6, <1>8 DEF armed, Pending
  <2> QED
    BY <1>2, <1>5, <1>8, <2>1 DEF C!Arm, armed
<1> QED
  BY <1>7, <1>8

Mapped == <<armed, cancelled, expiries>>

\* A step that leaves every clock as pending as it was, and nothing else that
\* Countdown sees changed, is a stutter.
LEMMA SamePending ==
  ASSUME UNCHANGED <<cancelled, expiries>>, \A x \in Clock : Pending(x)' <=> Pending(x)
  PROVE  UNCHANGED Mapped
<1>1. \A x \in Clock : Pending(x) \in BOOLEAN /\ Pending(x)' \in BOOLEAN
  BY DEF Pending
<1>2. \A x \in Clock : Pending(x)' = Pending(x)
  BY <1>1
<1> QED
  BY <1>2 DEF Mapped, armed

LEMMA CancelStops ==
  ASSUME ClockInv, NEW k \in Clock, Cancel(k)
  PROVE  C!Stop(k)
<1>1. cancelled' = [cancelled EXCEPT ![k] = TRUE] /\ UNCHANGED <<task, expiries>>
  BY DEF Cancel
<1>2. \A x \in Clock \ {k} : Pending(x)' = Pending(x)
  BY <1>1 DEF Pending
<1>3. Pending(k)' \in {Pending(k), FALSE}
  BY <1>1 DEF Pending
<1>4. armed' = [armed EXCEPT ![k] = Pending(k)']
  BY <1>2 DEF armed
<1>5. armed[k] = Pending(k)
  BY DEF armed
<1>6. \E still \in {armed[k], FALSE} : armed' = [armed EXCEPT ![k] = still]
  BY <1>3, <1>4, <1>5
<1> QED
  BY <1>1, <1>6 DEF C!Stop, armed

LEMMA StepExpires ==
  ASSUME ClockInv, NEW k \in Clock, NEW i \in Tasks, Wake(k, i) \/ Fire(k, i) \/ Finish(k, i)
  PROVE  C!Expire(k) \/ UNCHANGED Mapped
<1>1. {"waiting", "firing", "ending", "ended"} \subseteq Phases
  BY DEF Phases, Live
<1>2. task[k][i] \in Live => \A j \in Tasks : j # i => task[k][j] \notin Live
  BY DEF ClockInv, OneTask, LiveTasks
<1>3. CASE Wake(k, i)
  <2>1. PICK to \in {"waiting", "firing", "ending"} :
          /\ Move(k, i, "waiting", to)
          /\ to = "ending" <=> cancelled[k]
    BY <1>3 DEF Wake
  <2>2. UNCHANGED <<cancelled, expiries>>
    BY <1>3 DEF Wake
  <2>3. \A x \in Clock, j \in Tasks :
          task'[x][j] = IF x = k /\ j = i THEN to ELSE task[x][j]
    BY <1>1, <2>1, MovePhases DEF ClockInv
  <2>4. task[k][i] = "waiting"
    BY <2>1 DEF Move
  <2>5. \A x \in Clock : Pending(x)' <=> Pending(x)
    BY <1>2, <2>1, <2>2, <2>3, <2>4 DEF Pending, Live
  <2> QED
    BY <2>2, <2>5, SamePending
<1>4. CASE Fire(k, i)
  <2>1. Move(k, i, "firing", "ending") /\ cancelled' = cancelled
    BY <1>4 DEF Fire
  <2>2. \A x \in Clock, j \in Tasks :
          task'[x][j] = IF x = k /\ j = i THEN "ending" ELSE task[x][j]
    BY <1>1, <2>1, MovePhases DEF ClockInv
  <2>3. task[k][i] = "firing"
    BY <2>1 DEF Move
  <2>4. Pending(k) /\ ~Pending(k)'
    BY <1>2, <2>2, <2>3 DEF Pending, Live
  <2>5. \A x \in Clock \ {k} : Pending(x)' = Pending(x)
    BY <2>1, <2>2 DEF Pending
  <2>6. Pending(k)' = FALSE
    BY <2>4
  <2>7. armed[k] /\ armed' = [armed EXCEPT ![k] = FALSE]
    BY <2>4, <2>5, <2>6 DEF armed
  <2> QED
    BY <1>4, <2>7 DEF Fire, C!Expire, armed
<1>5. CASE Finish(k, i)
  <2>1. Move(k, i, "ending", "ended") /\ UNCHANGED <<cancelled, expiries>>
    BY <1>5 DEF Finish
  <2>2. \A x \in Clock, j \in Tasks :
          task'[x][j] = IF x = k /\ j = i THEN "ended" ELSE task[x][j]
    BY <1>1, <2>1, MovePhases DEF ClockInv
  <2>3. task[k][i] = "ending"
    BY <2>1 DEF Move
  <2>4. \A x \in Clock : Pending(x)' <=> Pending(x)
    BY <2>1, <2>2, <2>3 DEF Pending
  <2> QED
    BY <2>1, <2>4, SamePending
<1> QED
  BY <1>3, <1>4, <1>5

\* A clock expires at most once for each time it was armed, and once cancelled at
\* most once more.
THEOREM ClockImplementsCountdown == ClockSpec => KeepsPromise
<1>1. ClockInit => C!Init
  <2>1. ClockInit => \A k \in Clock : Pending(k) = FALSE
    BY DEF ClockInit, Pending
  <2> QED
    BY <2>1 DEF ClockInit, C!Init
<1>2. ClockInv /\ [ClockNext]_clockVars => ClockInv' /\ [C!Next]_Mapped
  <2> SUFFICES ASSUME ClockInv, [ClockNext]_clockVars PROVE ClockInv' /\ [C!Next]_Mapped
    OBVIOUS
  <2>1. CASE UNCHANGED clockVars
    <3>1. ClockInv'
      BY <2>1 DEF clockVars, ClockInv, ClockTypeOK, OneTask, LiveTasks
    <3>2. UNCHANGED Mapped
      BY <2>1, SamePending DEF clockVars, Pending
    <3> QED
      BY <3>1, <3>2
  <2>2. ASSUME NEW k \in Clock, Start(k)
        PROVE  ClockInv' /\ [C!Next]_Mapped
    <3>1. CASE UNCHANGED clockVars
      BY <2>1, <3>1
    <3>2. CASE ~running[k] /\ Spawn(k)
      BY <2>2, <3>2, OwnerInv, SpawnArms DEF C!Next, Mapped
    <3> QED
      BY <2>2, <3>1, <3>2 DEF Start
  <2>3. ASSUME NEW k \in Clock, Reset(k)
        PROVE  ClockInv' /\ [C!Next]_Mapped
    <3>1. UNCHANGED Mapped
      BY <2>3, SamePending DEF Reset, Pending
    <3> QED
      BY <2>3, <3>1, OwnerInv
  <2>4. ASSUME NEW k \in Clock, Cancel(k)
        PROVE  ClockInv' /\ [C!Next]_Mapped
    BY <2>4, OwnerInv, CancelStops DEF C!Next
  <2>5. ASSUME NEW k \in Clock, NEW i \in Tasks, Wake(k, i) \/ Fire(k, i) \/ Finish(k, i)
        PROVE  ClockInv' /\ [C!Next]_Mapped
    BY <2>5, StepInv, StepExpires DEF C!Next
  <2> QED
    BY <2>1, <2>2, <2>3, <2>4, <2>5 DEF ClockNext
<1> QED
  BY <1>1, <1>2, InitialClocks, PTL DEF ClockSpec, KeepsPromise, C!Spec, Mapped, armed

-----------------------------------------------------------------------------
(* The Leader's heartbeat: each Leader has a clock of its own, and leaves no *)
(* other clock armed.                                                        *)

\* A clock nobody owned yet has no task, the clock of a former Leader is cancelled,
\* and a heartbeat is broadcast in office only.
OwnedInv == /\ ClockInv
            /\ seat \in used \union {Vacant}
            /\ used \subseteq Clock
            /\ \A k \in Clock \ used : LiveTasks(k) = {}
            /\ \A k \in used \ {seat} : cancelled[k]
            /\ beating => seat # Vacant

\* Calls to one clock and steps of its tasks leave the others alone.
LEMMA OthersKeepTasks ==
  ASSUME ClockInv, NEW k \in Clock,
         \/ Start(k) \/ Reset(k) \/ Cancel(k)
         \/ \E i \in Tasks : Wake(k, i) \/ Fire(k, i) \/ Finish(k, i)
  PROVE  /\ \A x \in Clock \ {k} : LiveTasks(x)' = LiveTasks(x)
         /\ \A x \in Clock : cancelled[x] => cancelled'[x]
<1>1. CASE \E i \in Tasks : Wake(k, i) \/ Fire(k, i) \/ Finish(k, i)
  <2>1. PICK i \in Tasks : Wake(k, i) \/ Fire(k, i) \/ Finish(k, i)
    BY <1>1
  <2>2. PICK from, to \in Phases : Move(k, i, from, to)
    BY <2>1 DEF Wake, Fire, Finish, Phases, Live
  <2>3. \A x \in Clock \ {k} : LiveTasks(x)' = LiveTasks(x)
    BY <2>2, MovePhases DEF ClockInv, LiveTasks
  <2> QED
    BY <2>1, <2>3 DEF Wake, Fire, Finish
<1>2. CASE Start(k)
  <2>1. \A x \in Clock \ {k} : task'[x] = task[x]
    BY <1>2 DEF ClockInv, ClockTypeOK, Start, Spawn, clockVars
  <2>2. cancelled' = cancelled
    BY <1>2 DEF Start, Spawn, clockVars
  <2> QED
    BY <2>1, <2>2 DEF LiveTasks
<1>3. CASE Reset(k) \/ Cancel(k)
  BY <1>3 DEF ClockInv, ClockTypeOK, Reset, Cancel, LiveTasks
<1> QED
  BY <1>1, <1>2, <1>3

\* A clock without a task has none after a step of its tasks.
LEMMA NoTaskNoStep ==
  ASSUME NEW k \in Clock, LiveTasks(k) = {}, NEW i \in Tasks
  PROVE  ~Wake(k, i) /\ ~Fire(k, i) /\ ~Finish(k, i)
BY DEF Wake, Fire, Finish, Move, LiveTasks, Live

LEMMA OfficeInv ==
  ASSUME OwnedInv, TakeOffice \/ LeaveOffice
  PROVE  OwnedInv'
<1>1. CASE TakeOffice
  <2>1. PICK k \in Clock \ used : Start(k) /\ seat' = k /\ used' = used \union {k}
    BY <1>1 DEF TakeOffice
  <2>2. seat = Vacant /\ beating' = beating
    BY <1>1 DEF TakeOffice
  <2>3. ClockInv'
    BY <2>1, OwnerInv DEF OwnedInv
  <2>4. /\ \A x \in Clock \ {k} : LiveTasks(x)' = LiveTasks(x)
        /\ \A x \in Clock : cancelled[x] => cancelled'[x]
    BY <2>1, OthersKeepTasks DEF OwnedInv
  <2>5. Vacant \notin used
    BY HeartbeatAssumption DEF OwnedInv
  <2> QED
    BY <2>1, <2>2, <2>3, <2>4, <2>5 DEF OwnedInv
<1>2. CASE LeaveOffice
  <2>1. /\ Cancel(seat) /\ seat # Vacant /\ ~beating
        /\ seat' = Vacant /\ used' = used /\ beating' = beating
    BY <1>2 DEF LeaveOffice
  <2>2. seat \in Clock
    BY <2>1 DEF OwnedInv
  <2>3. ClockInv'
    BY <2>1, <2>2, OwnerInv DEF OwnedInv
  <2>4. \A x \in Clock : LiveTasks(x)' = LiveTasks(x)
    BY <2>1 DEF Cancel, LiveTasks
  <2>5. cancelled'[seat] /\ \A x \in Clock : cancelled[x] => cancelled'[x]
    BY <2>1, <2>2 DEF Cancel, OwnedInv, ClockInv, ClockTypeOK
  <2> QED
    BY <2>1, <2>3, <2>4, <2>5 DEF OwnedInv
<1> QED
  BY <1>1, <1>2

LEMMA InOfficeInv ==
  ASSUME OwnedInv, ClientWrite \/ TakeSignal \/ FinishBeat
  PROVE  OwnedInv'
<1>1. CASE TakeSignal
  <2>1. UNCHANGED clockVars /\ seat' = seat /\ used' = used /\ beating' = (seat # Vacant)
    BY <1>1 DEF TakeSignal
  <2>2. ClockInv'
    BY <2>1 DEF clockVars, OwnedInv, ClockInv, ClockTypeOK, OneTask, LiveTasks
  <2> QED
    BY <2>1, <2>2 DEF OwnedInv, clockVars, LiveTasks
<1>2. CASE ClientWrite \/ FinishBeat
  <2>1. /\ seat # Vacant /\ (Reset(seat) \/ Start(seat))
        /\ seat' = seat /\ used' = used /\ (beating' => beating)
    BY <1>2 DEF ClientWrite, FinishBeat, OwnedInv
  <2>2. seat \in Clock /\ seat \in used
    BY <2>1 DEF OwnedInv
  <2>3. ClockInv'
    BY <2>1, <2>2, OwnerInv DEF OwnedInv
  <2>4. /\ \A x \in Clock \ {seat} : LiveTasks(x)' = LiveTasks(x)
        /\ \A x \in Clock : cancelled[x] => cancelled'[x]
    BY <2>1, <2>2, OthersKeepTasks DEF OwnedInv
  <2> QED
    BY <2>1, <2>2, <2>3, <2>4 DEF OwnedInv
<1> QED
  BY <1>1, <1>2

LEMMA ClockRunsInv ==
  ASSUME OwnedInv, NEW k \in Clock, NEW i \in Tasks, ClockRuns(k, i)
  PROVE  OwnedInv'
<1>1. /\ Wake(k, i) \/ Fire(k, i) \/ Finish(k, i)
      /\ UNCHANGED <<seat, used, beating>>
  BY DEF ClockRuns
<1>2. ClockInv'
  BY <1>1, StepInv DEF OwnedInv
<1>3. /\ \A x \in Clock \ {k} : LiveTasks(x)' = LiveTasks(x)
      /\ \A x \in Clock : cancelled[x] => cancelled'[x]
  BY <1>1, OthersKeepTasks DEF OwnedInv
<1>4. k \in used
  BY <1>1, NoTaskNoStep DEF OwnedInv
<1> QED
  BY <1>1, <1>2, <1>3, <1>4 DEF OwnedInv

LEMMA OwnedAlways == Spec => []OwnedInv
<1>1. Init => OwnedInv
  <2> SUFFICES ASSUME Init PROVE OwnedInv
    OBVIOUS
  <2>1. \A k \in Clock : LiveTasks(k) = {}
    BY DEF Init, ClockInit, LiveTasks, Live
  <2> QED
    BY <2>1, InitialClocks DEF Init, OwnedInv
<1>2. OwnedInv /\ [Next]_vars => OwnedInv'
  <2> SUFFICES ASSUME OwnedInv, [Next]_vars PROVE OwnedInv'
    OBVIOUS
  <2>1. CASE UNCHANGED vars
    BY <2>1 DEF vars, clockVars, OwnedInv, ClockInv, ClockTypeOK, OneTask, LiveTasks
  <2> QED
    BY <2>1, OfficeInv, InOfficeInv, ClockRunsInv DEF Next
<1> QED
  BY <1>1, <1>2, PTL DEF Spec

\* Of a former Leader's clock at most an expiry that was already on its way can come,
\* and a clock that no Leader has owned yet never expires.
THEOREM FormerClocksAreSilent == Spec => []OnlyTheLeadersClockRuns
<1>1. OwnedInv => OnlyTheLeadersClockRuns
  <2> SUFFICES ASSUME OwnedInv, NEW k \in Clock, Pending(k), k # seat
               PROVE  \E i \in Tasks : task[k][i] = "firing"
    BY DEF OnlyTheLeadersClockRuns
  <2>1. k \in used
    BY DEF OwnedInv, Pending, LiveTasks, Live
  <2>2. cancelled[k]
    BY <2>1 DEF OwnedInv
  <2> QED
    BY <2>2 DEF Pending
<1> QED
  BY <1>1, OwnedAlways, PTL

\* The Leaders and the select loop are an owner of the clocks like any other: what
\* they do to them, and what the tasks do beside them, is ClockSpec.
LEMMA OwnerUsesClock == Spec => ClockSpec
<1>1. Init => ClockInit
  BY DEF Init
<1>2. OwnedInv /\ [Next]_vars => [ClockNext]_clockVars
  <2> SUFFICES ASSUME OwnedInv, [Next]_vars PROVE [ClockNext]_clockVars
    OBVIOUS
  <2>1. CASE UNCHANGED vars \/ TakeSignal
    BY <2>1 DEF vars, TakeSignal
  <2>2. CASE TakeOffice
    BY <2>2 DEF TakeOffice, ClockNext
  <2>3. CASE LeaveOffice \/ ClientWrite \/ FinishBeat
    <3>1. seat \in Clock
      BY <2>3 DEF OwnedInv, LeaveOffice, ClientWrite, FinishBeat
    <3>2. Cancel(seat) \/ Reset(seat) \/ Start(seat)
      BY <2>3 DEF LeaveOffice, ClientWrite, FinishBeat
    <3> QED
      BY <3>1, <3>2 DEF ClockNext
  <2>4. ASSUME NEW k \in Clock, NEW i \in Tasks, ClockRuns(k, i)
        PROVE  ClockNext
    BY <2>4 DEF ClockRuns, ClockNext
  <2> QED
    BY <2>1, <2>2, <2>3, <2>4 DEF Next
<1> QED
  BY <1>1, <1>2, OwnedAlways, PTL DEF Spec, ClockSpec

\* So the heartbeat never runs twice, a restart or a postponement between two steps of
\* its task included, and comes at most once for each time it was started.
THEOREM OneHeartbeatAtATime == Spec => []OneTask /\ KeepsPromise
BY OwnerUsesClock, OneTaskAtATime, ClockImplementsCountdown, PTL
=============================================================================
