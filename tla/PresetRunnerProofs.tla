--------------------------- MODULE PresetRunnerProofs --------------------------
(***************************************************************************)
(* What holds of PresetRunner for every value of the constants: the types  *)
(* of its variables (TypeCorrect), and that every run is bounded           *)
(* (RunBounded).  Every function on runner objects gets a lemma saying     *)
(* that it maps runner objects to runner objects; the actions then only    *)
(* have to be split along the code's branches.                             *)
(***************************************************************************)
EXTENDS PresetRunner, SequenceTheorems, TLAPS

\* Everywhere a coroutine may wait.
Pcs == TaskPcs \cup CallPcs

\* A coroutine that goes on to its next await keeps the types.
LEMMA AtType ==
    ASSUME NEW r \in Runners, NEW s \in Slots, NEW pc \in Pcs
    PROVE  At(r, s, pc) \in Runners
  BY ZenonT(60) DEF At, Runners, Tasks, Pcs

\* A slot no coroutine occupies is well typed.
LEMMA NoTaskType == NoTask \in Tasks
  BY CountsAssumption, BoundsAssumption DEF NoTask, Tasks, CallPcs

\* A coroutine that returns leaves a well-typed runner.
LEMMA EndType ==
    ASSUME NEW r \in Runners, NEW s \in Slots
    PROVE  End(r, s) \in Runners
  BY NoTaskType DEF End, Runners

\* _async_commit: asking for a write keeps the types.
LEMMA CommitType ==
    ASSUME NEW r \in Runners, NEW s \in Slots, NEW pc \in Pcs
    PROVE  Commit(r, s, pc) \in Runners
<1>1. At(r, s, pc) \in Runners
  BY AtType
<1>2. [record |-> r.record, by |-> s] \in [record : Records, by : Slots \cup {Nobody}]
  BY DEF Runners
<1>3. Append(At(r, s, pc).saves, [record |-> r.record, by |-> s])
        \in Seq([record : Records, by : Slots \cup {Nobody}])
  BY <1>1, <1>2, AppendProperties DEF Runners
<1>. QED  BY <1>1, <1>3 DEF Commit, Runners

\* So does resolving, or not, the future of a wait.
LEMMA WokenType ==
    ASSUME NEW r \in Runners, NEW s \in Slots, NEW w \in BOOLEAN
    PROVE  [r EXCEPT !.tasks[s].woken = w] \in Runners
  BY ZenonT(60) DEF Runners, Tasks

\* async_wait keeps the types.
LEMMA WaitType ==
    ASSUME NEW r \in Runners, NEW s \in Slots, NEW pc \in Pcs, NEW o
    PROVE  Wait(r, s, pc, o) \in Runners
<1>1. Holds(pc, o) \in BOOLEAN
  BY DEF Holds
<1>. QED  BY <1>1, AtType, WokenType DEF Wait

\* A state change that resolves futures keeps the types.
LEMMA WakeType ==
    ASSUME NEW r \in Runners, NEW o
    PROVE  Wake(r, o) \in Runners
<1>1. \A pc : Holds(pc, o) \in BOOLEAN
  BY DEF Holds
<1>2. \A s \in Slots :
        [r.tasks[s] EXCEPT !.woken = @ \/ Holds(r.tasks[s].pc, o)] \in Tasks
  BY <1>1 DEF Runners, Tasks
<1>. QED  BY <1>2 DEF Wake, Runners

\* Cancelling any tasks keeps the types: their writes stay queued, for nobody.
LEMMA CancelType ==
    ASSUME NEW r \in Runners, NEW others \in SUBSET Slots
    PROVE  Cancel(r, others) \in Runners
<1> DEFINE Write == [record : Records, by : Slots \cup {Nobody}]
           saves == [i \in DOMAIN r.saves |->
                       IF r.saves[i].by \in others
                       THEN [r.saves[i] EXCEPT !.by = Nobody] ELSE r.saves[i]]
           tasks == [s \in Slots |-> IF s \in others THEN NoTask ELSE r.tasks[s]]
           transitioning == r.transitioning /\ \A s \in others : ~InTry(r.tasks[s])
<1>1. saves \in Seq(Write)
  <2>1. r.saves \in Seq(Write)
    BY DEF Runners
  <2>2. /\ Len(r.saves) \in Nat
        /\ DOMAIN r.saves = 1 .. Len(r.saves)
        /\ \A i \in 1 .. Len(r.saves) : r.saves[i] \in Write
    BY <2>1, LenProperties, ElementOfSeq
  <2>3. \A i \in 1 .. Len(r.saves) : saves[i] \in Write
    BY <2>2
  <2>4. saves \in [1 .. Len(r.saves) -> Write]
    BY <2>2, <2>3
  <2>. QED  BY <2>2, <2>4, SeqDef
<1>2. tasks \in [Slots -> Tasks]
  <2>1. NoTask \in Tasks
    BY NoTaskType
  <2>. QED  BY <2>1 DEF Runners
<1>3. transitioning \in BOOLEAN
  OBVIOUS
<1> HIDE DEF saves, tasks, transitioning
<1>4. [r EXCEPT !.tasks = tasks, !.transitioning = transitioning, !.saves = saves] \in Runners
  BY <1>1, <1>2, <1>3 DEF Runners
<1>. QED  BY <1>4 DEF Cancel, saves, tasks, transitioning

\* _clear_step_handlers and _clear_handlers keep the types.
LEMMA ClearHandlersType ==
    ASSUME NEW r \in Runners
    PROVE  ClearStepHandlers(r) \in Runners /\ ClearHandlers(r) \in Runners
  BY DEF ClearStepHandlers, ClearHandlers, Runners

\* _arm_run_guards keeps the types.
LEMMA ArmRunGuardsType ==
    ASSUME NEW r \in Runners
    PROVE  ArmRunGuards(r) \in Runners
  BY DEF ArmRunGuards, Runners, Handlers

\* A record may be put in any state.
LEMMA RecordType ==
    ASSUME NEW r \in Runners, NEW state \in States
    PROVE  [r EXCEPT !.record.state = state] \in Runners
  BY DEF Runners, Records

\* The second half of _async_fail keeps the types.
LEMMA FailedType ==
    ASSUME NEW r \in Runners, NEW s \in Slots
    PROVE  Failed(r, s) \in Runners
<1>1. [r EXCEPT !.record.state = "failed"] \in Runners
  BY RecordType DEF States
<1>. QED  BY <1>1, CommitType DEF Failed, Pcs, TaskPcs, FailPcs

\* _spawn takes a slot that is free.
LEMMA NewTaskFree ==
    ASSUME NEW r, HasSlot(r)
    PROVE  NewTask(r) \in Slots /\ NewTask(r) \in Background /\ r.tasks[NewTask(r)].pc = "free"
  BY DEF HasSlot, NewTask, Free, Slots

\* What follows _async_fail is one of three things.
LEMMA AfterType ==
    ASSUME NEW r \in Runners, NEW s \in Slots, NEW after \in {"return", "unlock", "powerOff"}
    PROVE  [r EXCEPT !.tasks[s].after = after] \in Runners
  BY ZenonT(60) DEF Runners, Tasks

\* _async_fail keeps the types.
LEMMA FailType ==
    ASSUME NEW r \in Runners, NEW s \in Slots, NEW abort, NEW o,
           NEW after \in {"return", "unlock", "powerOff"}
    PROVE  Fail(r, s, abort, after, o) \in Runners
<1>1. ClearHandlers(CancelTasks(r, s)) \in Runners
  BY CancelType, ClearHandlersType DEF CancelTasks, Slots
<1> DEFINE q == [ClearHandlers(CancelTasks(r, s)) EXCEPT !.tasks[s].after = after]
<1>2. q \in Runners
  BY <1>1, AfterType
<1> HIDE DEF q
<1>3. At(q, s, "failPress") \in Runners
  BY <1>2, AtType DEF Pcs, TaskPcs, FailPcs
<1>4. Failed(q, s) \in Runners
  BY <1>2, FailedType
<1>. QED  BY <1>3, <1>4 DEF Fail, q

\* Whatever dial comes next, it is a place a coroutine may wait.
LEMMA NextDialType ==
    ASSUME NEW r, NEW k, NEW pc
    PROVE  NextDial(r, k, pc) \in Pcs
  BY DEF NextDial, Pcs, TaskPcs, TransitionPcs

\* A service call that is made or dropped keeps the types.
LEMMA IssueType ==
    ASSUME NEW r \in Runners, NEW s \in Slots, NEW pc \in Pcs, NEW o
    PROVE  Issue(r, s, pc, o) \in Runners
  BY AtType, WaitType DEF Issue, Pcs, TaskPcs, TransitionPcs

\* An attempt up to START_ATTEMPTS keeps the types.
LEMMA AttemptType ==
    ASSUME NEW r \in Runners, NEW s \in Slots, NEW n \in 0 .. StartAttempts, NEW o
    PROVE  Attempt(r, s, n, o) \in Runners
<1>1. [r EXCEPT !.tasks[s].attempt = n] \in Runners
  BY ZenonT(60) DEF Runners, Tasks
<1>. QED  BY <1>1, IssueType DEF Attempt, Pcs, TaskPcs, TransitionPcs

\* A failed attempt never makes one more than START_ATTEMPTS.
LEMMA AttemptFailedType ==
    ASSUME NEW r \in Runners, NEW s \in Slots, NEW o
    PROVE  AttemptFailed(r, s, o) \in Runners
<1>1. r.tasks[s].attempt \in 0 .. StartAttempts
  BY DEF Runners, Tasks
<1>2. CASE RemoteStart(o) = "no" \/ r.tasks[s].attempt = StartAttempts
  BY <1>2, FailType DEF AttemptFailed
<1>3. CASE ~(RemoteStart(o) = "no" \/ r.tasks[s].attempt = StartAttempts)
  <2>1. r.tasks[s].attempt + 1 \in 0 .. StartAttempts
    BY <1>1, <1>3, CountsAssumption
  <2>. QED  BY <1>3, <2>1, AttemptType DEF AttemptFailed
<1>. QED  BY <1>2, <1>3

\* Checking, or waiting for, remote start keeps the types.
LEMMA CheckRemoteStartType ==
    ASSUME NEW r \in Runners, NEW s \in Slots, NEW o
    PROVE  CheckRemoteStart(r, s, o) \in Runners
<1>1. 1 \in 0 .. StartAttempts
  BY CountsAssumption
<1>. QED  BY <1>1, WaitType, AttemptType DEF CheckRemoteStart, Pcs, TaskPcs, TransitionPcs

\* _async_run_step keeps the types.
LEMMA RunStepType ==
    ASSUME NEW r \in Runners, NEW s \in Slots, NEW k \in 0 .. MaxSteps, NEW o
    PROVE  RunStep(r, s, k, o) \in Runners
<1> DEFINE q == [ClearStepHandlers(r) EXCEPT
                   !.record.step_index = k, !.transitioning = TRUE,
                   !.tasks[s] = [NoTask EXCEPT !.step = k]]
<1>1. q \in Runners
  <2>1. [NoTask EXCEPT !.step = k] \in Tasks
    BY NoTaskType DEF Tasks
  <2>2. ClearStepHandlers(r) \in Runners
    BY ClearHandlersType
  <2>3. ASSUME NEW x \in Runners, NEW t \in Tasks
        PROVE  [x EXCEPT !.record.step_index = k, !.transitioning = TRUE, !.tasks[s] = t]
                 \in Runners
    BY DEF Runners, Records
  <2>. QED  BY <2>1, <2>2, <2>3
<1> HIDE DEF q
<1>2. At(q, s, "stopPress") \in Runners
  BY <1>1, AtType DEF Pcs, TaskPcs, TransitionPcs
<1>3. CheckRemoteStart(q, s, o) \in Runners
  BY <1>1, CheckRemoteStartType
<1>4. End(r, s) \in Runners
  BY EndType
<1>. QED  BY <1>2, <1>3, <1>4 DEF RunStep, q

\* Finishing keeps the types.
LEMMA FinishedType ==
    ASSUME NEW r \in Runners, NEW s \in Slots
    PROVE  Finished(r, s) \in Runners
<1>1. 0 \in 0 .. MaxSteps
  BY BoundsAssumption
<1>2. [r EXCEPT !.record.state = "finished", !.record.ends = 0] \in Runners
  BY <1>1 DEF Runners, Records, States
<1>. QED  BY <1>2, CommitType DEF Finished, Pcs, TaskPcs

\* _async_step_done never goes past the last step of a preset.
LEMMA StepDoneType ==
    ASSUME NEW r \in Runners, NEW s \in Slots, NEW o
    PROVE  StepDone(r, s, o) \in Runners
<1>1. ClearHandlers(r) \in Runners
  BY ClearHandlersType
<1>2. /\ At(ClearHandlers(r), s, "finishPress") \in Runners
      /\ Finished(ClearHandlers(r), s) \in Runners
  BY <1>1, AtType, FinishedType DEF Pcs, TaskPcs
<1>3. ASSUME HasStep(r), r.record.step_index < Len(r.record.preset)
      PROVE  RunStep(r, s, r.record.step_index + 1, o) \in Runners
  <2>1. r.record.step_index \in 0 .. MaxSteps /\ Len(r.record.preset) \in 1 .. MaxSteps
    BY <1>3, PresetsAssumption DEF HasStep, Runners, Records
  <2>2. r.record.step_index + 1 \in 0 .. MaxSteps
    BY <1>3, <2>1, BoundsAssumption
  <2>. QED  BY <2>2, RunStepType
<1>. QED  BY <1>2, <1>3, EndType DEF StepDone

\* _arm_step keeps the types.
LEMMA ArmStepType ==
    ASSUME NEW r \in Runners, NEW s \in Slots, NEW k \in 0 .. MaxSteps, NEW o
    PROVE  ArmStep(r, s, k, o) \in Runners
<1>1. End(r, s) \in Runners /\ StepDone(r, s, o) \in Runners
  BY EndType, StepDoneType
<1>2. \A h \in SUBSET StepHandlers : [End(r, s) EXCEPT !.step_unsubs = h] \in Runners
  BY <1>1 DEF Runners
<1>3. /\ End(r, s).step_unsubs \cup {<<"done", k>>} \in SUBSET StepHandlers
      /\ {<<"temperature", k>>, <<"timeout", k>>} \in SUBSET StepHandlers
  BY <1>1 DEF Runners, StepHandlers
<1>. QED  BY <1>1, <1>2, <1>3 DEF ArmStep

\* _async_begin keeps the types.
LEMMA BeginType ==
    ASSUME NEW r \in Runners, NEW s \in Slots, NEW o, NEW home
    PROVE  Begin(r, s, o, home) \in Runners
<1>1. 1 \in 0 .. MaxSteps
  BY BoundsAssumption
<1>2. [r EXCEPT !.record.state = "running", !.record.step_index = 1] \in Runners
  BY <1>1 DEF Runners, Records, States
<1>. QED  BY <1>1, <1>2, ArmRunGuardsType, RunStepType, FailType DEF Begin

\* _check_door keeps the types.
LEMMA CheckDoorType ==
    ASSUME NEW r \in Runners, NEW o
    PROVE  CheckDoor(r, o) \in Runners
  BY DEF CheckDoor, DoorOpen, Runners

\* _check_operation and the temperature listener keep the types.
LEMMA CheckType ==
    ASSUME NEW r \in Runners, NEW o, HasSlot(r)
    PROVE  CheckOperation(r, o) \in Runners /\ CheckTemperature(r, o) \in Runners
<1>1. NewTask(r) \in Slots
  BY NewTaskFree
<1>2. CheckOperation(r, o) \in Runners
  BY <1>1, StepDoneType, FailType DEF CheckOperation
<1>3. CheckTemperature(r, o) \in Runners
  BY <1>1, StepDoneType DEF CheckTemperature
<1>. QED  BY <1>2, <1>3

-----------------------------------------------------------------------------
(* The oven.                                                               *)

\* A dial that is turned leaves a well-typed oven.
LEMMA TurnType ==
    ASSUME NEW o \in Oven, NEW dial \in Dials, NEW step \in 0 .. MaxSteps
    PROVE  Turn(o, dial, step) \in Oven
  BY DEF Turn, Oven, Dials

\* So does a button that is pressed.
LEMMA PressType ==
    ASSUME NEW o \in Oven, NEW button \in Buttons
    PROVE  Press(o, button) \in Oven
<1>1. Append(o.commands, button) \in Seq(Buttons)
  BY AppendProperties DEF Oven
<1>. QED  BY <1>1 DEF Press, Oven

\* And so does everything the oven and the people around it do.
LEMMA WorldType ==
    ASSUME oven \in Oven,
           OperationEvent \/ LinkDrops \/ DoorMoves \/ RemoteChanges \/ TemperatureChanges
    PROVE  oven' \in Oven
<1>1. 0 \in 0 .. MaxSteps
  BY BoundsAssumption
<1>2. CASE ActOnCommand
  <2>1. Tail(oven.commands) \in Seq(Buttons)
    BY <1>2, HeadTailProperties DEF ActOnCommand, Oven
  <2>. QED  BY <1>1, <1>2, <2>1 DEF ActOnCommand, Oven
<1>3. CASE ProgrammeEnds \/ IdleReport \/ LinkReturns \/ LinkDrops
  BY ZenonT(60), <1>1, <1>3 DEF ProgrammeEnds, IdleReport, LinkReturns, LinkDrops, Oven, Links, Doors
<1>4. CASE UserStarts
  BY <1>1, <1>4 DEF UserStarts, Oven
<1>5. CASE PauseToggles
  BY <1>5 DEF PauseToggles, Oven
<1>6. CASE DoorMoves \/ RemoteChanges \/ TemperatureChanges
  BY <1>6 DEF DoorMoves, RemoteChanges, TemperatureChanges, Oven, Doors
<1>. QED  BY <1>2, <1>3, <1>4, <1>5, <1>6 DEF OperationEvent

\* A service call that reaches the oven, or raises, keeps its type.
LEMMA PressedType ==
    ASSUME oven \in Oven, NEW button \in Buttons, Pressed(button) \/ UNCHANGED oven
    PROVE  oven' \in Oven
  BY PressType DEF Pressed

-----------------------------------------------------------------------------
(* The actions.                                                            *)

\* A new runner, which knows of no preset, is well typed.
LEMMA NewRunnerType == NewRunner \in Runners /\ NoRecord \in Records
<1>1. <<>> \in Seq([record : Records, by : Slots \cup {Nobody}])
  OBVIOUS
<1>2. NoRecord \in Records
  BY BoundsAssumption DEF NoRecord, Records, States
<1>. QED  BY <1>1, <1>2, NoTaskType DEF NewRunner, Runners

\* The initial state is well typed.
LEMMA InitTypeOK == Init => TypeOK
<1> SUFFICES ASSUME Init PROVE TypeOK
  OBVIOUS
<1>1. 0 \in 0 .. MaxSteps /\ 0 \in 0 .. MaxCrashes
  BY BoundsAssumption, CountsAssumption
<1>2. <<>> \in Seq(Buttons)
  OBVIOUS
<1>3. oven \in Oven
  BY <1>1, <1>2 DEF Init, OvenInit, Oven, Links, Doors
<1>4. NewRunner \in Runners /\ NoRecord \in Records
  BY NewRunnerType
<1>5. runner \in Runners
  BY <1>4 DEF Init, Runners
<1>6. clock \in Clocks
  BY DEF Init, Clocks, Phases
<1>. QED  BY <1>1, <1>3, <1>4, <1>5, <1>6 DEF Init, TypeOK

\* Beginning a run, at home or away, keeps the types.
LEMMA BeginsType ==
    ASSUME TypeOK, NEW r \in Runners, NEW s \in Slots, Begins(r, s)
    PROVE  runner' \in Runners /\ clock' \in Clocks /\ begun' \in SUBSET (0 .. MaxSteps)
<1>1. runner' \in Runners
  BY BeginType DEF Begins
<1>2. [clock EXCEPT !.max = FALSE] \in Clocks
  BY DEF TypeOK, Clocks
<1>. QED  BY <1>1, <1>2 DEF Begins, TypeOK

\* What the listeners do keeps the types.
LEMMA ObserveTypeOK == TypeOK /\ Observe => TypeOK'
<1> SUFFICES ASSUME TypeOK, Observe PROVE TypeOK'
  OBVIOUS
<1>1. runner \in Runners /\ Wake(runner, oven') \in Runners /\ oven \in Oven
  BY WakeType DEF TypeOK
<1>2. Free(Wake(runner, oven')) = Free(runner)
  BY <1>1 DEF Free, Wake, Slots, Runners, Tasks
<1>3. CASE OnOperation
  BY <1>1, <1>2, <1>3, WorldType, CheckType DEF OnOperation, TypeOK, HasSlot
<1>4. CASE OnLinkDrop
  BY <1>1, <1>4, WorldType, CheckDoorType DEF OnLinkDrop, TypeOK
<1>5. CASE OnDoor
  BY <1>1, <1>5, WorldType, CheckDoorType DEF OnDoor, TypeOK
<1>6. CASE OnRemoteStart
  BY <1>1, <1>6, WorldType DEF OnRemoteStart, TypeOK
<1>7. CASE OnTemperature
  BY <1>1, <1>7, WorldType, CheckType DEF OnTemperature, TypeOK
<1>. QED  BY <1>3, <1>4, <1>5, <1>6, <1>7 DEF Observe

\* Every await of a background task that ends keeps the types.
LEMMA ResumeTypeOK ==
    ASSUME TypeOK, NEW s \in Background, Resume(s)
    PROVE  TypeOK'
<1>1. runner \in Runners /\ oven \in Oven /\ s \in Slots /\ runner.tasks[s].step \in 0 .. MaxSteps
  BY DEF TypeOK, Slots, Runners, Tasks
<1>2. 1 \in 0 .. StartAttempts
  BY CountsAssumption
<1>3. CASE StopPress(s)
  <2>1. [End(runner, s) EXCEPT !.transitioning = FALSE] \in Runners
    BY <1>1, EndType DEF Runners
  <2>2. Wait(runner, s, "stopWait", oven') \in Runners
    BY <1>1, WaitType DEF Pcs, TaskPcs, TransitionPcs
  <2>3. oven' \in Oven
    BY <1>1, <1>3, PressedType DEF StopPress, Buttons, Raised
  <2>. QED  BY <1>3, <2>1, <2>2, <2>3 DEF StopPress, TypeOK
<1>4. CASE StopWait(s)
  BY <1>1, <1>4, CheckRemoteStartType, FailType DEF StopWait, TypeOK
<1>5. CASE RemoteWait(s)
  BY <1>1, <1>2, <1>5, AttemptType, FailType DEF RemoteWait, TypeOK
<1>6. CASE Dial(s)
  <2>1. oven' \in Oven
    BY <1>1, <1>6, TurnType DEF Dial
  <2>2. runner' \in Runners
    BY <1>1, <1>6, NextDialType, IssueType, AttemptFailedType DEF Dial
  <2>. QED  BY <1>6, <2>1, <2>2 DEF Dial, TypeOK
<1>7. CASE StartPress(s)
  <2>1. oven' \in Oven
    BY <1>1, <1>7, PressedType DEF StartPress, Buttons, Raised
  <2>2. runner' \in Runners
    BY <1>1, <1>7, WaitType, AttemptFailedType DEF StartPress, Pcs, TaskPcs, TransitionPcs
  <2>. QED  BY <1>7, <2>1, <2>2 DEF StartPress, TypeOK
<1>8. CASE StartTimesOut(s)
  BY <1>1, <1>8, AttemptFailedType DEF StartTimesOut, TypeOK
<1>9. CASE StepStarts(s)
  <2> DEFINE k == runner.tasks[s].step
             q == [runner EXCEPT !.transitioning = FALSE]
             n == [q EXCEPT !.record.ends = IF StepAt(q, k).kind = "hold" THEN 0 ELSE k]
  <2>1. q \in Runners
    BY <1>1 DEF Runners
  <2>2. n \in Runners
    <3>1. (IF StepAt(q, k).kind = "hold" THEN 0 ELSE k) \in 0 .. MaxSteps
      BY <1>1, BoundsAssumption
    <3>2. ASSUME NEW x \in Runners, NEW e \in 0 .. MaxSteps
          PROVE  [x EXCEPT !.record.ends = e] \in Runners
      BY DEF Runners, Records
    <3>. QED  BY <2>1, <3>1, <3>2
  <2>3. \A x \in Phases : [clock EXCEPT !.step[k] = x] \in Clocks
    BY DEF TypeOK, Clocks
  <2>4. clock' \in Clocks
    <3>1. {"slack", "early"} \subseteq Phases
      BY DEF Phases
    <3>. QED  BY <1>9, <2>3, <3>1 DEF StepStarts, TypeOK
  <2>5. Commit(n, s, "stepSave") \in Runners /\ End(q, s) \in Runners
    BY <1>1, <2>1, <2>2, CommitType, EndType DEF Pcs, TaskPcs
  <2>6. runner' \in Runners
    BY <1>9, <2>5 DEF StepStarts
  <2>7. begun' \in SUBSET (0 .. MaxSteps)
    BY <1>1, <1>9 DEF StepStarts, TypeOK
  <2>. QED  BY <1>9, <2>4, <2>6, <2>7 DEF StepStarts, TypeOK
<1>10. CASE FailPress(s)
  BY <1>1, <1>10, FailedType, PressedType DEF FailPress, SafeAbort, Raised, Buttons, TypeOK
<1>11. CASE FinishPress(s)
  BY <1>1, <1>11, FinishedType, PressedType DEF FinishPress, SafeAbort, Raised, Buttons, TypeOK
<1>12. CASE PowerOff(s)
  BY <1>1, <1>12, EndType, PressedType DEF PowerOff, Raised, Buttons, TypeOK
<1>13. CASE RecoverWait(s)
  <2>1. ArmRunGuards(runner) \in Runners
    BY <1>1, ArmRunGuardsType
  <2>2. ArmRunGuards(runner).record.step_index \in 0 .. MaxSteps
    BY <2>1 DEF Runners, Records
  <2>. QED  BY <1>1, <1>13, <2>1, <2>2, FailType, StepDoneType, ArmStepType
            DEF RecoverWait, TypeOK
<1>. QED  BY <1>3, <1>4, <1>5, <1>6, <1>7, <1>8, <1>9, <1>10, <1>11, <1>12, <1>13 DEF Resume

\* The write at the head of the queue is of a well-formed record.
LEMMA LandedType ==
    ASSUME runner \in Runners, runner.saves # <<>>
    PROVE  Landed \in Runners /\ Head(runner.saves).record \in Records
<1>1. runner.saves \in Seq([record : Records, by : Slots \cup {Nobody}])
  BY DEF Runners
<1>2. /\ Tail(runner.saves) \in Seq([record : Records, by : Slots \cup {Nobody}])
      /\ Head(runner.saves) \in [record : Records, by : Slots \cup {Nobody}]
  BY <1>1, HeadTailProperties
<1>. QED  BY <1>2 DEF Landed, Runners

\* A write that lands keeps the types.
LEMMA SaveTypeOK == TypeOK /\ Save => TypeOK'
<1> SUFFICES ASSUME TypeOK, Save PROVE TypeOK'
  OBVIOUS
<1>1. runner \in Runners /\ oven \in Oven
  BY DEF TypeOK
<1>2. runner.saves # <<>>
  BY DEF Save, StepSaved, FailSaved, RunNowSaved, LastSaved, OrphanSaved, Lands
<1>3. Landed \in Runners /\ disk' \in Records
  BY <1>1, <1>2, LandedType
     DEF Save, StepSaved, FailSaved, RunNowSaved, LastSaved, OrphanSaved, Lands
<1> HIDE DEF Landed
<1>4. ASSUME NEW s \in Slots, StepSaved(s) PROVE TypeOK'
  <2>1. runner.tasks[s].step \in 0 .. MaxSteps
    BY <1>1 DEF Runners, Tasks
  <2>. QED  BY <1>3, <1>4, <2>1, ArmStepType DEF StepSaved, TypeOK
<1>5. ASSUME NEW s \in Slots, FailSaved(s) PROVE TypeOK'
  <2>1. ASSUME NEW r \in Runners, NEW unlock \in BOOLEAN
        PROVE  [r EXCEPT !.transitioning = @ /\ unlock] \in Runners
    BY DEF Runners
  <2>2. /\ At(Landed, s, "powerOff") \in Runners
        /\ [End(Landed, s) EXCEPT !.transitioning = @ /\ runner.tasks[s].after # "unlock"]
             \in Runners
    BY <1>3, <2>1, AtType, EndType DEF Pcs, TaskPcs
  <2>. QED  BY <1>3, <1>5, <2>2 DEF FailSaved, TypeOK
<1>6. ASSUME NEW s \in Slots, RunNowSaved(s) PROVE TypeOK'
  <2>1. End(Landed, s) \in Runners /\ NewTask(runner) \in Slots
    BY <1>3, <1>6, EndType, NewTaskFree DEF RunNowSaved
  <2>. QED  BY <1>3, <1>6, <2>1, BeginsType DEF RunNowSaved, TypeOK
<1>7. ASSUME NEW s \in Slots, LastSaved(s) PROVE TypeOK'
  BY <1>3, <1>7, EndType DEF LastSaved, TypeOK
<1>8. CASE OrphanSaved
  BY <1>3, <1>8 DEF OrphanSaved, TypeOK
<1>. QED  BY <1>4, <1>5, <1>6, <1>7, <1>8 DEF Save

\* The run and abort calls keep the types.
LEMMA CommandTypeOK == TypeOK /\ Command => TypeOK'
<1> SUFFICES ASSUME TypeOK, NEW c \in Calls,
                    \/ \E p \in Presets, later \in BOOLEAN : CallRun(c, p, later)
                    \/ CallAbort(c) \/ AbortPress(c)
             PROVE  TypeOK'
  BY DEF Command
<1>1. runner \in Runners /\ oven \in Oven /\ c \in Slots
  BY DEF TypeOK, Slots
<1>2. NoRecord \in Records
  BY BoundsAssumption DEF NoRecord, Records, States
<1>3. ASSUME NEW r \in Runners
      PROVE  Aborted(r, c) \in Runners
  <2>1. [r EXCEPT !.record.state = "idle"] \in Runners
    BY RecordType DEF States
  <2>. QED  BY <1>1, <2>1, CommitType DEF Aborted, Pcs, CallPcs
<1>4. ASSUME NEW p \in Presets, NEW later \in BOOLEAN, CallRun(c, p, later)
      PROVE  TypeOK'
  <2> DEFINE scheduled == [NoRecord EXCEPT !.state = "scheduled", !.preset = p]
             q == [runner EXCEPT !.record = scheduled]
  <2>1. scheduled \in Records
    BY <1>2 DEF Records, States
  <2> HIDE DEF scheduled
  <2>2. q \in Runners
    BY <1>1, <2>1 DEF Runners
  <2>3. [q EXCEPT !.unsubs = @ \cup {"due"}] \in Runners
    BY <2>2 DEF Runners, Handlers
  <2>4. runner' \in Runners
    <3> HIDE DEF q
    <3>1. \A x \in Runners : Commit(x, c, "runSave") \in Runners /\ Commit(x, c, "runNowSave") \in Runners
      BY <1>1, CommitType DEF Pcs, CallPcs
    <3>. QED  BY <1>4, <2>2, <2>3, <3>1 DEF CallRun, q, scheduled
  <2>5. clock' \in Clocks
    BY <1>4 DEF CallRun, TypeOK, Clocks
  <2>. QED  BY <1>4, <2>4, <2>5 DEF CallRun, TypeOK
<1>5. CASE CallAbort(c)
  <2> DEFINE q == [ClearHandlers(CancelTasks(runner, Nobody)) EXCEPT !.transitioning = FALSE]
  <2>1. ClearHandlers(CancelTasks(runner, Nobody)) \in Runners
    BY <1>1, CancelType, ClearHandlersType DEF CancelTasks, Slots
  <2>2. q \in Runners
    BY <2>1 DEF Runners
  <2> HIDE DEF q
  <2>3. [q EXCEPT !.record = NoRecord] \in Runners
    BY <1>2, <2>2 DEF Runners
  <2>4. /\ At(q, c, "abortPress") \in Runners
        /\ Commit([q EXCEPT !.record = NoRecord], c, "abortSave") \in Runners
    BY <1>1, <2>2, <2>3, AtType, CommitType DEF Pcs, CallPcs
  <2>5. runner' \in Runners
    BY <1>3, <1>5, <2>2, <2>4 DEF CallAbort, q
  <2>. QED  BY <1>5, <2>5 DEF CallAbort, TypeOK
<1>6. CASE AbortPress(c)
  BY <1>1, <1>3, <1>6, PressedType DEF AbortPress, SafeAbort, Raised, Buttons, TypeOK
<1>. QED  BY <1>4, <1>5, <1>6

\* A timer that fires keeps the types.
LEMMA TimerTypeOK == TypeOK /\ Timer => TypeOK'
<1> SUFFICES ASSUME TypeOK, Timer PROVE TypeOK'
  OBVIOUS
<1>1. runner \in Runners /\ HasSlot(runner)
  BY DEF TypeOK, Timer, StartComes, StepTimer, PreheatTimeout, MaxReached, DoorGraceOver
<1>2. NewTask(runner) \in Slots
  BY <1>1, NewTaskFree
<1>3. CASE StartComes
  <2>1. [runner EXCEPT !.unsubs = @ \ {"due"}] \in Runners
    BY <1>1 DEF Runners
  <2>. QED  BY <1>2, <1>3, <2>1, BeginsType DEF StartComes, TypeOK
<1>4. CASE StepTimer
  <2>1. ASSUME NEW h \in runner.step_unsubs
        PROVE  [runner EXCEPT !.step_unsubs = @ \ {h}] \in Runners
    BY <1>1 DEF Runners
  <2>. QED  BY <1>2, <1>4, <2>1, StepDoneType DEF StepTimer, TypeOK
<1>5. CASE PreheatTimeout
  BY <1>1, <1>2, <1>5, FailType DEF PreheatTimeout, TypeOK
<1>6. CASE MaxReached
  BY <1>1, <1>2, <1>6, FailType DEF MaxReached, TypeOK
<1>7. CASE DoorGraceOver
  <2>1. [runner EXCEPT !.door_timer = FALSE] \in Runners
    BY <1>1 DEF Runners
  <2>. QED  BY <1>2, <1>7, <2>1, FailType DEF DoorGraceOver, TypeOK
<1>. QED  BY <1>3, <1>4, <1>5, <1>6, <1>7 DEF Timer

\* The passing of time keeps the types.
LEMMA TimePassesTypeOK == TypeOK /\ TimePasses => TypeOK'
<1> SUFFICES ASSUME TypeOK, TimePasses PROVE TypeOK'
  OBVIOUS
<1>1. CASE StartPasses
  BY <1>1 DEF StartPasses, TypeOK, Clocks
<1>2. CASE StepPasses
  <2>1. ASSUME NEW k, NEW x \in {"slack", "over"}
        PROVE  [clock EXCEPT !.step[k] = x] \in Clocks
    BY DEF TypeOK, Clocks, Phases
  <2>. QED  BY <1>2, <2>1 DEF StepPasses, TypeOK
<1>3. CASE MaxPasses
  BY <1>3 DEF MaxPasses, TypeOK, Clocks
<1>. QED  BY <1>1, <1>2, <1>3 DEF TimePasses

\* A crash and the setup after it keep the types.
LEMMA RestartTypeOK == TypeOK /\ (Crash \/ Setup) => TypeOK'
<1> SUFFICES ASSUME TypeOK, Crash \/ Setup PROVE TypeOK'
  OBVIOUS
<1>1. runner \in Runners /\ disk \in Records
  BY DEF TypeOK
<1>2. CASE Crash
  <2>1. NewRunner \in Runners
    BY NewRunnerType
  <2>2. crashes' \in 0 .. MaxCrashes
    BY <1>2, CountsAssumption DEF Crash, TypeOK
  <2>. QED  BY <1>2, <2>1, <2>2 DEF Crash, TypeOK
<1>3. CASE Setup
  <2>1. Loaded \in Runners
    BY <1>1 DEF Loaded, Runners
  <2>2. NewTask(runner) \in Slots
    BY <1>3, NewTaskFree DEF Setup, SetupInactive, SetupRunning, SetupScheduled
  <2> HIDE DEF Loaded
  <2>3. CASE SetupInactive
    BY <2>1, <2>3 DEF SetupInactive, TypeOK
  <2>4. CASE SetupRunning
    BY <2>1, <2>2, <2>4, WaitType DEF SetupRunning, TypeOK, Pcs, TaskPcs
  <2>5. CASE SetupScheduled
    <3>1. clock.start \in {"future", "due", "missed"}
      BY DEF TypeOK, Clocks
    <3>2. CASE clock.start = "future"
      <4>1. [Loaded EXCEPT !.unsubs = {"due"}] \in Runners
        BY <2>1 DEF Runners, Handlers
      <4>. QED  BY <2>5, <3>2, <4>1 DEF SetupScheduled, TypeOK
    <3>3. CASE clock.start = "due"
      <4>1. Begins(Loaded, NewTask(runner))
        BY <2>5, <3>3 DEF SetupScheduled
      <4>. QED  BY <2>1, <2>2, <2>5, <4>1, BeginsType DEF SetupScheduled, TypeOK
    <3>4. CASE clock.start = "missed"
      BY <2>1, <2>2, <2>5, <3>4, FailType DEF SetupScheduled, TypeOK
    <3>. QED  BY <3>1, <3>2, <3>3, <3>4
  <2>. QED  BY <1>3, <2>3, <2>4, <2>5 DEF Setup
<1>. QED  BY <1>2, <1>3

\* Every step keeps the types.
LEMMA NextTypeOK == TypeOK /\ [Next]_vars => TypeOK'
<1>1. TypeOK /\ UNCHANGED vars => TypeOK'
  BY DEF vars, TypeOK
<1>. QED
  BY <1>1, ObserveTypeOK, ResumeTypeOK, SaveTypeOK, CommandTypeOK, TimerTypeOK,
     TimePassesTypeOK, RestartTypeOK DEF Next

\* Every variable keeps its type, for every appliance, every set of presets,
\* every option and every bound: in particular step_index never leaves the
\* preset's range, start attempts never exceed START_ATTEMPTS, and every write
\* that waits is of a well-formed record.
THEOREM TypeCorrect == Spec => []TypeOK
  BY InitTypeOK, NextTypeOK, PTL DEF Spec

-----------------------------------------------------------------------------
(* A running run is always bounded (BoundedRun), for every number of        *)
(* overlapping service calls and crashes.  What a coroutine does between    *)
(* two awaits falls in three groups: it only moves itself (MovesOnly), it   *)
(* ends the run (Fail, Finished, Aborted), or it begins it (Begin), and a   *)
(* task of Ending only ever does the second.                                *)

\* BoundedRun, of any runner object.
Bounded(r) ==
    r.record.state = "running" =>
        "max" \in r.unsubs \/ \E s \in Slots : r.tasks[s].pc \in Ending

\* q differs from r in the task s, and in nothing that bounds a run.
MovesOnly(r, q, s) ==
    /\ q.record.state = r.record.state
    /\ q.unsubs = r.unsubs
    /\ \A t \in Slots \ {s} : q.tasks[t].pc = r.tasks[t].pc

\* The run is bounded by something else than the task s.
Spare(r, s) == r.tasks[s].pc \notin Ending \/ "max" \in r.unsubs

\* A task that only moves itself, and is not what bounds the run, leaves it bounded.
LEMMA MovesBounded ==
    ASSUME NEW r, NEW q, NEW s \in Slots, MovesOnly(r, q, s), Bounded(r), Spare(r, s)
    PROVE  Bounded(q)
  BY DEF MovesOnly, Bounded, Spare

\* Waiting, returning and asking for a write only move the task.
LEMMA SimpleMoves ==
    ASSUME NEW r \in Runners, NEW s \in Slots, NEW pc, NEW o
    PROVE  /\ MovesOnly(r, At(r, s, pc), s)
           /\ MovesOnly(r, End(r, s), s)
           /\ MovesOnly(r, Commit(r, s, pc), s)
           /\ MovesOnly(r, Wait(r, s, pc, o), s)
  BY DEF MovesOnly, At, End, Commit, Wait, Runners

\* A service call made or dropped only moves the task.
LEMMA IssueMoves ==
    ASSUME NEW r \in Runners, NEW s \in Slots, NEW pc, NEW o
    PROVE  MovesOnly(r, Issue(r, s, pc, o), s)
  BY SimpleMoves DEF Issue

\* So does an attempt.
LEMMA AttemptMoves ==
    ASSUME NEW r \in Runners, NEW s \in Slots, NEW n \in 0 .. StartAttempts, NEW o
    PROVE  MovesOnly(r, Attempt(r, s, n, o), s)
<1> DEFINE q == [r EXCEPT !.tasks[s].attempt = n]
<1>1. q \in Runners /\ MovesOnly(r, q, s)
  BY ZenonT(60) DEF MovesOnly, Runners, Tasks
<1> HIDE DEF q
<1>2. MovesOnly(q, Attempt(r, s, n, o), s)
  BY <1>1, IssueMoves DEF Attempt, q
<1>. QED  BY <1>1, <1>2 DEF MovesOnly

\* So does checking remote start.
LEMMA CheckRemoteStartMoves ==
    ASSUME NEW r \in Runners, NEW s \in Slots, NEW o
    PROVE  MovesOnly(r, CheckRemoteStart(r, s, o), s)
<1>1. 1 \in 0 .. StartAttempts
  BY CountsAssumption
<1>. QED  BY <1>1, SimpleMoves, AttemptMoves DEF CheckRemoteStart

\* So does entering a step: the guards of the run stay armed.
LEMMA RunStepMoves ==
    ASSUME NEW r \in Runners, NEW s \in Slots, NEW k \in 0 .. MaxSteps, NEW o
    PROVE  MovesOnly(r, RunStep(r, s, k, o), s)
<1> DEFINE q == [ClearStepHandlers(r) EXCEPT
                   !.record.step_index = k, !.transitioning = TRUE,
                   !.tasks[s] = [NoTask EXCEPT !.step = k]]
<1>1. q \in Runners /\ MovesOnly(r, q, s)
  <2>1. [NoTask EXCEPT !.step = k] \in Tasks
    BY NoTaskType DEF Tasks
  <2>2. ASSUME NEW t \in Tasks
        PROVE  LET x == [ClearStepHandlers(r) EXCEPT
                           !.record.step_index = k, !.transitioning = TRUE, !.tasks[s] = t]
               IN  x \in Runners /\ MovesOnly(r, x, s)
    BY DEF Runners, Records, MovesOnly, ClearStepHandlers
  <2>. QED  BY <2>1, <2>2
<1> HIDE DEF q
<1>2. \A x : MovesOnly(q, x, s) => MovesOnly(r, x, s)
  BY <1>1 DEF MovesOnly
<1>3. MovesOnly(r, At(q, s, "stopPress"), s) /\ MovesOnly(r, CheckRemoteStart(q, s, o), s)
  BY <1>1, <1>2, SimpleMoves, CheckRemoteStartMoves
<1>4. MovesOnly(r, End(r, s), s)
  BY SimpleMoves
<1>. QED  BY <1>3, <1>4 DEF RunStep, q

\* _async_fail ends the run, now or after its abort press.
LEMMA FailBounded ==
    ASSUME NEW r \in Runners, NEW s \in Slots, NEW abort, NEW o,
           NEW after \in {"return", "unlock", "powerOff"}
    PROVE  Bounded(Fail(r, s, abort, after, o))
<1> DEFINE q == [ClearHandlers(CancelTasks(r, s)) EXCEPT !.tasks[s].after = after]
<1>1. q \in Runners
  BY CancelType, ClearHandlersType, AfterType DEF CancelTasks, Slots
<1> HIDE DEF q
<1>2. Bounded(At(q, s, "failPress"))
  BY <1>1 DEF Bounded, At, Ending, Runners
<1>3. Bounded(Failed(q, s))
  BY <1>1 DEF Bounded, Failed, Commit, At, Runners, Records
<1>. QED  BY <1>2, <1>3 DEF Fail, q

\* A run that is over needs no limit.
LEMMA EndOfRunBounded ==
    ASSUME NEW r \in Runners, NEW s \in Slots
    PROVE  Bounded(Failed(r, s)) /\ Bounded(Finished(r, s)) /\ Bounded(Aborted(r, s))
  BY DEF Bounded, Failed, Finished, Aborted, Commit, At, Runners, Records

\* _async_begin refuses the run or arms its limit.
LEMMA BeginBounded ==
    ASSUME NEW r \in Runners, NEW s \in Slots, NEW o, NEW home
    PROVE  Bounded(Begin(r, s, o, home))
<1> DEFINE q == [r EXCEPT !.record.state = "running", !.record.step_index = 1]
<1>1. 1 \in 0 .. MaxSteps
  BY BoundsAssumption
<1>2. q \in Runners
  BY <1>1 DEF Runners, Records, States
<1> HIDE DEF q
<1>3. ArmRunGuards(q) \in Runners /\ "max" \in ArmRunGuards(q).unsubs
  BY <1>2, ArmRunGuardsType DEF ArmRunGuards, Runners
<1>4. Bounded(RunStep(ArmRunGuards(q), s, 1, o))
  BY <1>1, <1>3, RunStepMoves DEF MovesOnly, Bounded
<1>. QED  BY <1>4, FailBounded DEF Begin, q

\* After a failed attempt the run is bounded as before, or failed.
LEMMA AttemptFailedBounded ==
    ASSUME NEW r \in Runners, NEW s \in Slots, NEW o, Bounded(r), Spare(r, s)
    PROVE  Bounded(AttemptFailed(r, s, o))
<1>1. CASE RemoteStart(o) = "no" \/ r.tasks[s].attempt = StartAttempts
  BY <1>1, FailBounded DEF AttemptFailed
<1>2. CASE ~(RemoteStart(o) = "no" \/ r.tasks[s].attempt = StartAttempts)
  <2>1. r.tasks[s].attempt + 1 \in 0 .. StartAttempts
    BY <1>2, CountsAssumption DEF Runners, Tasks
  <2>. QED  BY <1>2, <2>1, AttemptMoves, MovesBounded DEF AttemptFailed
<1>. QED  BY <1>1, <1>2

\* _async_step_done goes on under the same guards, or ends the run.
LEMMA StepDoneBounded ==
    ASSUME NEW r \in Runners, NEW s \in Slots, NEW o, Bounded(r), Spare(r, s)
    PROVE  Bounded(StepDone(r, s, o))
<1>1. Bounded(End(r, s))
  BY SimpleMoves, MovesBounded
<1>2. ASSUME HasStep(r), r.record.step_index < Len(r.record.preset)
      PROVE  Bounded(RunStep(r, s, r.record.step_index + 1, o))
  <2>1. r.record.step_index \in 0 .. MaxSteps /\ Len(r.record.preset) \in 1 .. MaxSteps
    BY <1>2, PresetsAssumption DEF HasStep, Runners, Records
  <2>2. r.record.step_index + 1 \in 0 .. MaxSteps
    BY <1>2, <2>1, BoundsAssumption
  <2>. QED  BY <2>2, RunStepMoves, MovesBounded
<1>3. ClearHandlers(r) \in Runners
  BY ClearHandlersType
<1>4. Bounded(At(ClearHandlers(r), s, "finishPress"))
  BY <1>3 DEF Bounded, At, Ending, Runners
<1>5. Bounded(Finished(ClearHandlers(r), s))
  BY <1>3, EndOfRunBounded
<1>. QED  BY <1>1, <1>2, <1>4, <1>5 DEF StepDone

\* _arm_step leaves the guards of the run alone.
LEMMA ArmStepBounded ==
    ASSUME NEW r \in Runners, NEW s \in Slots, NEW k, NEW o, Bounded(r), Spare(r, s)
    PROVE  Bounded(ArmStep(r, s, k, o))
<1>1. End(r, s) \in Runners /\ Bounded(End(r, s))
  BY EndType, SimpleMoves, MovesBounded
<1>2. ASSUME NEW h PROVE Bounded([End(r, s) EXCEPT !.step_unsubs = h])
  BY <1>1 DEF Bounded, Runners
<1>3. Bounded(StepDone(r, s, o))
  BY StepDoneBounded
<1>. QED  BY <1>1, <1>2, <1>3 DEF ArmStep

\* The operation and temperature listeners keep a run bounded.
LEMMA CheckBounded ==
    ASSUME NEW r \in Runners, NEW o, HasSlot(r), Bounded(r)
    PROVE  Bounded(CheckOperation(r, o)) /\ Bounded(CheckTemperature(r, o))
<1>1. NewTask(r) \in Slots /\ Spare(r, NewTask(r))
  BY NewTaskFree DEF Spare, Ending
<1>. QED  BY <1>1, StepDoneBounded, FailBounded DEF CheckOperation, CheckTemperature

-----------------------------------------------------------------------------
(* The actions.                                                            *)

\* However a run is begun, it is bounded.
LEMMA BeginsBounded ==
    ASSUME NEW r \in Runners, NEW s \in Slots, Begins(r, s)
    PROVE  Bounded(runner')
  BY BeginBounded DEF Begins

\* Every listener keeps a run bounded.
LEMMA ObserveBounded ==
    ASSUME TypeOK, Bounded(runner), Observe
    PROVE  Bounded(runner')
<1>1. runner \in Runners /\ Wake(runner, oven') \in Runners
  BY WakeType DEF TypeOK
<1>2. Bounded(Wake(runner, oven'))
  <2> DEFINE tasks == [s \in Slots |->
                 [runner.tasks[s] EXCEPT !.woken = @ \/ Holds(runner.tasks[s].pc, oven')]]
  <2>1. \A s \in Slots : tasks[s].pc = runner.tasks[s].pc
    BY <1>1 DEF Runners, Tasks
  <2> HIDE DEF tasks
  <2>2. Wake(runner, oven') = [runner EXCEPT !.tasks = tasks]
    BY DEF Wake, tasks
  <2>. QED  BY <1>1, <2>1, <2>2 DEF Bounded, Runners
<1>3. Free(Wake(runner, oven')) = Free(runner)
  BY <1>1 DEF Free, Wake, Slots, Runners, Tasks
<1>4. ASSUME NEW r \in Runners, Bounded(r)
      PROVE  Bounded(CheckDoor(r, oven'))
  BY <1>4 DEF CheckDoor, Bounded, Runners
<1>5. CASE OnOperation
  BY <1>1, <1>2, <1>3, <1>5, CheckBounded DEF OnOperation, HasSlot
<1>6. CASE OnLinkDrop
  BY <1>1, <1>2, <1>4, <1>6 DEF OnLinkDrop
<1>7. CASE OnDoor
  BY <1>1, <1>4, <1>7 DEF OnDoor
<1>8. CASE OnRemoteStart
  BY <1>2, <1>8 DEF OnRemoteStart
<1>9. CASE OnTemperature
  BY <1>1, <1>9, CheckBounded DEF OnTemperature
<1>. QED  BY <1>5, <1>6, <1>7, <1>8, <1>9 DEF Observe

\* Every await of a background task that ends keeps a run bounded.
LEMMA ResumeBounded ==
    ASSUME TypeOK, Bounded(runner), NEW s \in Background, Resume(s)
    PROVE  Bounded(runner')
<1>1. runner \in Runners /\ s \in Slots
  BY DEF TypeOK, Slots
<1>2. 1 \in 0 .. StartAttempts
  BY CountsAssumption
<1>3. runner.tasks[s].pc \in TransitionPcs \cup {"powerOff"} => Spare(runner, s)
  BY DEF Spare, Ending, TransitionPcs
<1>4. CASE StopPress(s)
  <2>1. Bounded(End(runner, s)) /\ End(runner, s) \in Runners
    BY <1>1, <1>3, <1>4, EndType, SimpleMoves, MovesBounded DEF StopPress, Is, TransitionPcs
  <2>2. Bounded([End(runner, s) EXCEPT !.transitioning = FALSE])
    BY <2>1 DEF Bounded, Runners
  <2>3. Bounded(Wait(runner, s, "stopWait", oven'))
    BY <1>1, <1>3, <1>4, SimpleMoves, MovesBounded DEF StopPress, Is, TransitionPcs
  <2>. QED  BY <1>4, <2>2, <2>3 DEF StopPress
<1>5. CASE StopWait(s)
  BY <1>1, <1>3, <1>5, CheckRemoteStartMoves, MovesBounded, FailBounded
     DEF StopWait, Is, TransitionPcs
<1>6. CASE RemoteWait(s)
  BY <1>1, <1>2, <1>3, <1>6, AttemptMoves, MovesBounded, FailBounded
     DEF RemoteWait, Is, TransitionPcs
<1>7. CASE Dial(s)
  BY <1>1, <1>3, <1>7, IssueMoves, MovesBounded, AttemptFailedBounded
     DEF Dial, Dials, TransitionPcs
<1>8. CASE StartPress(s)
  BY <1>1, <1>3, <1>8, SimpleMoves, MovesBounded, AttemptFailedBounded
     DEF StartPress, Is, TransitionPcs
<1>9. CASE StartTimesOut(s)
  BY <1>1, <1>3, <1>9, AttemptFailedBounded DEF StartTimesOut, Is, TransitionPcs
<1>10. CASE StepStarts(s)
  <2> DEFINE q == [runner EXCEPT !.transitioning = FALSE]
  <2>1. q \in Runners /\ Bounded(q) /\ Spare(q, s)
    BY <1>1, <1>3, <1>10 DEF StepStarts, Is, TransitionPcs, Bounded, Spare, Runners
  <2>2. ASSUME NEW e \in 0 .. MaxSteps
        PROVE  Bounded(Commit([q EXCEPT !.record.ends = e], s, "stepSave"))
    <3>1. /\ [q EXCEPT !.record.ends = e] \in Runners
          /\ Bounded([q EXCEPT !.record.ends = e])
          /\ Spare([q EXCEPT !.record.ends = e], s)
      BY <2>1 DEF Runners, Records, Bounded, Spare
    <3>. QED  BY <1>1, <3>1, SimpleMoves, MovesBounded
  <2>3. Bounded(End(q, s))
    BY <1>1, <2>1, SimpleMoves, MovesBounded
  <2>4. runner.tasks[s].step \in 0 .. MaxSteps /\ 0 \in 0 .. MaxSteps
    BY <1>1, BoundsAssumption DEF Runners, Tasks
  <2>. QED  BY <1>10, <2>2, <2>3, <2>4 DEF StepStarts
<1>11. CASE FailPress(s)
  BY <1>1, <1>11, EndOfRunBounded DEF FailPress
<1>12. CASE FinishPress(s)
  BY <1>1, <1>12, EndOfRunBounded DEF FinishPress
<1>13. CASE PowerOff(s)
  BY <1>1, <1>3, <1>13, SimpleMoves, MovesBounded DEF PowerOff, Is
<1>14. CASE RecoverWait(s)
  <2> DEFINE q == ArmRunGuards(runner)
  <2>1. q \in Runners /\ Bounded(q) /\ Spare(q, s)
    BY <1>1, ArmRunGuardsType DEF ArmRunGuards, Bounded, Spare, Runners
  <2> HIDE DEF q
  <2>. QED  BY <1>1, <1>14, <2>1, FailBounded, StepDoneBounded, ArmStepBounded
            DEF RecoverWait, q
<1>. QED  BY <1>4, <1>5, <1>6, <1>7, <1>8, <1>9, <1>10, <1>11, <1>12, <1>13, <1>14 DEF Resume

\* So does every write that lands.
LEMMA SaveBounded ==
    ASSUME TypeOK, Bounded(runner), Save
    PROVE  Bounded(runner')
<1>1. runner \in Runners /\ runner.saves # <<>>
  BY DEF TypeOK, Save, StepSaved, FailSaved, RunNowSaved, LastSaved, OrphanSaved, Lands
<1>2. Landed \in Runners /\ Bounded(Landed) /\ Landed.tasks = runner.tasks
  BY <1>1, LandedType DEF Landed, Bounded, Runners
<1> HIDE DEF Landed
<1>3. ASSUME NEW s \in Slots, StepSaved(s) PROVE Bounded(runner')
  BY <1>2, <1>3, ArmStepBounded DEF StepSaved, Lands, Is, Spare, Ending
<1>4. ASSUME NEW s \in Slots, FailSaved(s) PROVE Bounded(runner')
  <2>1. Spare(Landed, s)
    BY <1>2, <1>4 DEF FailSaved, Lands, Is, Spare, Ending
  <2>2. Bounded(At(Landed, s, "powerOff")) /\ Bounded(End(Landed, s)) /\ End(Landed, s) \in Runners
    BY <1>2, <2>1, EndType, SimpleMoves, MovesBounded
  <2>3. ASSUME NEW b PROVE Bounded([End(Landed, s) EXCEPT !.transitioning = b])
    BY <2>2 DEF Bounded, Runners
  <2>. QED  BY <1>4, <2>2, <2>3 DEF FailSaved
<1>5. ASSUME NEW s \in Slots, RunNowSaved(s) PROVE Bounded(runner')
  BY <1>2, <1>5, EndType, NewTaskFree, BeginsBounded DEF RunNowSaved
<1>6. ASSUME NEW s \in Slots, LastSaved(s) PROVE Bounded(runner')
  BY <1>2, <1>6, SimpleMoves, MovesBounded DEF LastSaved, Lands, Is, Spare, Ending
<1>7. CASE OrphanSaved
  BY <1>2, <1>7 DEF OrphanSaved
<1>. QED  BY <1>3, <1>4, <1>5, <1>6, <1>7 DEF Save

\* So do the run and abort calls, however many are in progress.
LEMMA CommandBounded ==
    ASSUME TypeOK, Bounded(runner), Command
    PROVE  Bounded(runner')
<1> SUFFICES ASSUME NEW c \in Calls,
                    \/ \E p \in Presets, later \in BOOLEAN : CallRun(c, p, later)
                    \/ CallAbort(c) \/ AbortPress(c)
             PROVE  Bounded(runner')
  BY DEF Command
<1>1. runner \in Runners /\ c \in Slots
  BY DEF TypeOK, Slots
<1>2. ASSUME NEW p \in Presets, NEW later \in BOOLEAN, CallRun(c, p, later)
      PROVE  Bounded(runner')
  <2>1. runner'.record.state = "scheduled"
    BY <1>1, <1>2 DEF CallRun, Commit, At, NoRecord, Runners
  <2>. QED  BY <2>1 DEF Bounded
<1>3. CASE CallAbort(c)
  <2> DEFINE q == [ClearHandlers(CancelTasks(runner, Nobody)) EXCEPT !.transitioning = FALSE]
  <2>1. ClearHandlers(CancelTasks(runner, Nobody)) \in Runners
    BY <1>1, CancelType, ClearHandlersType DEF CancelTasks, Slots
  <2>2. q \in Runners
    BY <2>1 DEF Runners
  <2>3. q.record = runner.record
    BY <1>1 DEF ClearHandlers, ClearStepHandlers, CancelTasks, Cancel, Runners
  <2> HIDE DEF q
  <2>4. Bounded(At(q, c, "abortPress"))
    BY <1>1, <2>2 DEF Bounded, At, Ending, Runners
  <2>5. Bounded(Aborted(q, c))
    BY <1>1, <2>2, EndOfRunBounded
  <2>6. runner.record.state = "idle" => Bounded(q)
    BY <2>3 DEF Bounded
  <2>7. Bounded(Commit([q EXCEPT !.record = NoRecord], c, "abortSave"))
    BY <1>1, <2>2 DEF Bounded, Commit, At, NoRecord, Runners
  <2>. QED  BY <1>3, <2>4, <2>5, <2>6, <2>7 DEF CallAbort, q
<1>4. CASE AbortPress(c)
  BY <1>1, <1>4, EndOfRunBounded DEF AbortPress
<1>. QED  BY <1>2, <1>3, <1>4

\* So does every timer that fires.
LEMMA TimerBounded ==
    ASSUME TypeOK, Bounded(runner), Timer
    PROVE  Bounded(runner')
<1>1. runner \in Runners /\ HasSlot(runner)
  BY DEF TypeOK, Timer, StartComes, StepTimer, PreheatTimeout, MaxReached, DoorGraceOver
<1>2. NewTask(runner) \in Slots /\ runner.tasks[NewTask(runner)].pc = "free"
  BY <1>1, NewTaskFree
<1>3. CASE StartComes
  <2>1. [runner EXCEPT !.unsubs = @ \ {"due"}] \in Runners
    BY <1>1 DEF Runners
  <2>. QED  BY <1>2, <1>3, <2>1, BeginsBounded DEF StartComes
<1>4. CASE StepTimer
  <2>1. ASSUME NEW h \in runner.step_unsubs
        PROVE  LET r == [runner EXCEPT !.step_unsubs = @ \ {h}]
               IN  r \in Runners /\ Bounded(r) /\ Spare(r, NewTask(runner))
    BY <1>1, <1>2 DEF Runners, Bounded, Spare, Ending
  <2>. QED  BY <1>2, <1>4, <2>1, StepDoneBounded DEF StepTimer
<1>5. CASE PreheatTimeout
  BY <1>1, <1>2, <1>5, FailBounded DEF PreheatTimeout
<1>6. CASE MaxReached
  BY <1>1, <1>2, <1>6, FailBounded DEF MaxReached
<1>7. CASE DoorGraceOver
  <2>1. [runner EXCEPT !.door_timer = FALSE] \in Runners
    BY <1>1 DEF Runners
  <2>. QED  BY <1>2, <1>7, <2>1, FailBounded DEF DoorGraceOver
<1>. QED  BY <1>3, <1>4, <1>5, <1>6, <1>7 DEF Timer

\* A restart re-arms the limit, or has a task under way that will.
LEMMA RestartBounded ==
    ASSUME TypeOK, Crash \/ Setup
    PROVE  Bounded(runner')
<1>1. runner \in Runners /\ disk \in Records
  BY DEF TypeOK
<1>2. CASE Crash
  BY <1>2 DEF Crash, NewRunner, NoRecord, Bounded
<1>3. CASE Setup
  <2>1. Loaded \in Runners /\ Loaded.record = disk
    BY <1>1 DEF Loaded, Runners
  <2>2. NewTask(runner) \in Slots
    BY <1>3, NewTaskFree DEF Setup, SetupInactive, SetupRunning, SetupScheduled
  <2> HIDE DEF Loaded
  <2>3. CASE SetupInactive
    BY <2>1, <2>3 DEF SetupInactive, Bounded, Active
  <2>4. CASE SetupRunning
    BY <2>1, <2>2, <2>4 DEF SetupRunning, Bounded, Wait, At, Ending, Runners, Tasks
  <2>5. CASE SetupScheduled
    <3>1. clock.start \in {"future", "due", "missed"}
      BY DEF TypeOK, Clocks
    <3>2. CASE clock.start = "future"
      BY <2>1, <2>5, <3>2 DEF SetupScheduled, Bounded, Runners
    <3>3. CASE clock.start = "due"
      BY <2>1, <2>2, <2>5, <3>3, BeginsBounded DEF SetupScheduled
    <3>4. CASE clock.start = "missed"
      BY <2>1, <2>2, <2>5, <3>4, FailBounded DEF SetupScheduled
    <3>. QED  BY <3>1, <3>2, <3>3, <3>4
  <2>. QED  BY <1>3, <2>3, <2>4, <2>5 DEF Setup
<1>. QED  BY <1>2, <1>3

\* Every step keeps a run bounded.
LEMMA NextBounded == TypeOK /\ Bounded(runner) /\ [Next]_vars => Bounded(runner')
<1> SUFFICES ASSUME TypeOK, Bounded(runner), [Next]_vars
             PROVE  Bounded(runner')
  OBVIOUS
<1>1. CASE UNCHANGED vars
  BY <1>1 DEF vars, Bounded
<1>2. CASE TimePasses
  <2>1. runner' = runner
    BY <1>2 DEF TimePasses, StartPasses, StepPasses, MaxPasses
  <2>. QED  BY <2>1 DEF Bounded
<1>. QED
  BY <1>1, <1>2, ObserveBounded, ResumeBounded, SaveBounded, CommandBounded,
     TimerBounded, RestartBounded DEF Next

\* max_total_minutes bounds every run: whatever the oven does, however calls
\* overlap and Home Assistant dies, a running run has its limit armed or a task
\* that ends it under way.
THEOREM RunBounded == Spec => []BoundedRun
<1>1. BoundedRun <=> Bounded(runner)
  BY DEF BoundedRun, Bounded, Alive
<1>2. Init => Bounded(runner)
  BY DEF Init, NewRunner, NoRecord, Bounded
<1>3. TypeOK /\ BoundedRun /\ [Next]_vars => BoundedRun'
  BY NextBounded DEF BoundedRun, Bounded, Alive
<1>. QED  BY <1>1, <1>2, <1>3, TypeCorrect, PTL DEF Spec

=============================================================================
