--------------------------- MODULE PresetRunnerSteps ---------------------------
(***************************************************************************)
(* What PresetRunner does to its oven: that the door's timer runs for a    *)
(* hot step with an open door only, that a programme never runs without a  *)
(* timer of its own, that a preset that finishes has had the oven run      *)
(* every step, each timed one to its end, and that the programme the oven  *)
(* runs is the one of the step the run is at.                              *)
(***************************************************************************)
EXTENDS PresetRunnerOrder

-----------------------------------------------------------------------------
(* The door's timer, and the tasks about to press start.                   *)

Starting(r) == {t \in Slots : r.tasks[t].pc = "start"}

\* The tasks whose transition has chosen its programme.
ChosenPcs == {"setpoint", "duration", "start", "runWait"}
Chosen(r) == {t \in Slots : r.tasks[t].pc \in ChosenPcs}

\* The door's timer of q, if it runs, is that of r, for the same step; and no task
\* has come to press start, or past the choice of its programme (an oven out of reach
\* drops the choice).
Tame(r, q, o) ==
    /\ Starting(q) \subseteq Starting(r)
    /\ Reachable(o) => Chosen(q) \subseteq Chosen(r)
    /\ q.door_timer =>
          /\ r.door_timer /\ q.record = r.record /\ r.unsubs \subseteq q.unsubs
          /\ q.transitioning => r.transitioning

LEMMA TameTwice ==
    ASSUME NEW r, NEW p, NEW q, NEW o, Tame(r, p, o), Tame(p, q, o)
    PROVE  Tame(r, q, o)
  BY DEF Tame

LEMMA MovedTame ==
    ASSUME NEW r, NEW q, NEW s \in Slots, NEW pcs, NEW o, Moved(r, q, s, pcs), "start" \notin pcs,
           pcs \cap ChosenPcs = {} \/ s \in Chosen(r) \/ ~Reachable(o)
    PROVE  Tame(r, q, o)
  BY DEF Moved, Tame, Starting, Chosen

LEMMA AlikeTame ==
    ASSUME NEW r, NEW q, NEW o, Alike(r, q)
    PROVE  Tame(r, q, o)
  BY DEF Alike, Tame, Starting, Chosen

\* Nothing is told of a runner whose door timer is off but who is about to start.
LEMMA QuietTame ==
    ASSUME NEW r, NEW q, NEW o, ~q.door_timer, NEW s \in Slots,
           q.tasks[s].pc \notin ChosenPcs,
           \A t \in Slots \ {s} : q.tasks[t].pc \in {"free", r.tasks[t].pc}
    PROVE  Tame(r, q, o)
  BY DEF Tame, Starting, Chosen, ChosenPcs

\* _async_fail stops the timer, and cancels who is about to start.
LEMMA FailTame ==
    ASSUME NEW r \in Runners, NEW s \in Background, NEW abort, NEW o,
           NEW after \in {"return", "unlock", "powerOff"}
    PROVE  Tame(r, Fail(r, s, abort, after, o), o)
<1> DEFINE c == CancelTasks(r, s)
           h == ClearHandlers(c)
           q == [h EXCEPT !.tasks[s].after = after]
           f == [q EXCEPT !.record.state = "failed"]
<1>1. s \in Slots /\ Background \subseteq Slots
  BY Places
<1>2. c \in Runners
  BY CancelType DEF CancelTasks, Slots
<1>3. \A t \in Slots \ {s} : c.tasks[t].pc \in {"free", r.tasks[t].pc}
  <2>1. Cancelled(r, c, s)
    BY CancelFacts
  <2>. QED  BY <1>1, <2>1 DEF Cancelled, NoTask
<1> HIDE DEF c
<1>4. h \in Runners /\ h.tasks = c.tasks /\ ~h.door_timer
  BY <1>2, ClearHandlersType DEF ClearHandlers, ClearStepHandlers, Runners
<1> HIDE DEF h
<1>5. q \in Runners
  BY <1>1, <1>4, AfterType
<1>6. ~q.door_timer /\ \A t \in Slots \ {s} : q.tasks[t] = h.tasks[t]
  BY <1>1, <1>4 DEF Runners
<1> HIDE DEF q
<1>7. f \in Runners /\ f.door_timer = q.door_timer /\ f.tasks = q.tasks
  BY <1>5, RecordType DEF Runners, States
<1> HIDE DEF f
<1>8. Tame(r, At(q, s, "failPress"), o)
  <2>1. Moved(q, At(q, s, "failPress"), s, {"failPress"})
    BY <1>1, <1>5, WaitMoved
  <2>. QED  BY <1>1, <1>3, <1>4, <1>6, <2>1, QuietTame DEF Moved, ChosenPcs
<1>9. Tame(r, Commit(f, s, "failSave"), o)
  <2>1. Asked(f, Commit(f, s, "failSave"), s, "failSave")
    <3>1. "failSave" \in Pcs
      BY DEF Pcs, TaskPcs, FailPcs
    <3>. QED  BY <1>1, <1>7, <3>1, CommitWrites
  <2> DEFINE x == Commit(f, s, "failSave")
  <2>2. ~x.door_timer /\ x.tasks[s].pc = "failSave" /\ \A t \in Slots \ {s} : x.tasks[t] = f.tasks[t]
    BY <1>6, <1>7, <2>1 DEF Asked
  <2> HIDE DEF x
  <2>3. Tame(r, x, o)
    BY <1>1, <1>3, <1>4, <1>6, <1>7, <2>2, QuietTame DEF ChosenPcs
  <2>. QED  BY <2>3 DEF x
<1>. QED  BY <1>8, <1>9 DEF Fail, Failed, q, h, c, f

\* So does _async_run_step, and it begins by choosing the programme.
LEMMA IssueTame ==
    ASSUME NEW r \in Runners, NEW s \in Slots, NEW pc \in Pcs \ ChosenPcs, NEW o
    PROVE  Tame(r, Issue(r, s, pc, o), o)
<1>1. Moved(r, At(r, s, pc), s, {pc}) /\ Moved(r, Wait(r, s, "runWait", o), s, {"runWait"})
  <2>1. "runWait" \in Pcs
    BY DEF Pcs, TaskPcs, TransitionPcs
  <2>. QED  BY <2>1, WaitMoved
<1>2. "start" \notin {pc} /\ {pc} \cap ChosenPcs = {} /\ "start" \notin {"runWait"}
  BY DEF ChosenPcs
<1>. QED  BY <1>1, <1>2, MovedTame DEF Issue

LEMMA AttemptTame ==
    ASSUME NEW r \in Runners, NEW s \in Slots, NEW n \in 0 .. StartAttempts, NEW o
    PROVE  Tame(r, Attempt(r, s, n, o), o) /\ Attempt(r, s, n, o).tasks[s].pc # "start"
<1> DEFINE q == [r EXCEPT !.tasks[s].attempt = n]
<1>1. q \in Runners /\ Alike(r, q)
  BY ZenonT(60) DEF Alike, Runners, Tasks
<1> HIDE DEF q
<1>2. /\ "select" \in Pcs \ ChosenPcs
      /\ "select" \in Pcs \ {"start"} /\ "runWait" \in Pcs \ {"start"}
  BY DEF Pcs, TaskPcs, TransitionPcs, ChosenPcs
<1>3. Tame(q, Issue(q, s, "select", o), o)
  BY <1>1, <1>2, IssueTame
<1>4. Issue(q, s, "select", o).tasks[s].pc # "start"
  <2>1. Moved(q, Issue(q, s, "select", o), s, Pcs \ {"start"})
    BY <1>1, <1>2, WaitMoved DEF Issue
  <2>. QED  BY <2>1 DEF Moved
<1>. QED  BY <1>1, <1>3, <1>4, AlikeTame, TameTwice DEF Attempt, q

LEMMA AttemptFailedTame ==
    ASSUME NEW r \in Runners, NEW s \in Background, NEW o
    PROVE  Tame(r, AttemptFailed(r, s, o), o)
<1>1. s \in Slots
  BY Places
<1>2. CASE RemoteStart(o) = "no" \/ r.tasks[s].attempt = StartAttempts
  BY <1>2, FailTame DEF AttemptFailed
<1>3. CASE ~(RemoteStart(o) = "no" \/ r.tasks[s].attempt = StartAttempts)
  <2>1. r.tasks[s].attempt + 1 \in 0 .. StartAttempts
    BY <1>1, <1>3, CountsAssumption DEF Runners, Tasks
  <2>. QED  BY <1>1, <1>3, <2>1, AttemptTame DEF AttemptFailed
<1>. QED  BY <1>2, <1>3

LEMMA CheckRemoteStartTame ==
    ASSUME NEW r \in Runners, NEW s \in Slots, NEW o
    PROVE  /\ Tame(r, CheckRemoteStart(r, s, o), o)
           /\ CheckRemoteStart(r, s, o).tasks[s].pc # "start"
<1>1. Tame(r, Wait(r, s, "remoteWait", o), o) /\ Wait(r, s, "remoteWait", o).tasks[s].pc # "start"
  <2> DEFINE x == Wait(r, s, "remoteWait", o)
  <2>1. Moved(r, x, s, {"remoteWait"})
    BY WaitMoved
  <2> HIDE DEF x
  <2>2. Tame(r, x, o)
    BY <2>1, MovedTame DEF ChosenPcs
  <2>3. x.tasks[s].pc # "start"
    BY <2>1 DEF Moved
  <2>. QED  BY <2>2, <2>3 DEF x
<1>2. 1 \in 0 .. StartAttempts
  BY CountsAssumption
<1>. QED  BY <1>1, <1>2, AttemptTame DEF CheckRemoteStart

LEMMA EndTame ==
    ASSUME NEW r \in Runners, NEW s \in Slots, NEW q, NEW o, q.tasks = End(r, s).tasks,
           q.record = r.record, q.door_timer = r.door_timer, q.unsubs = r.unsubs,
           q.transitioning => r.transitioning
    PROVE  Tame(r, q, o)
<1>1. q.tasks[s].pc = "free" /\ \A t \in Slots \ {s} : q.tasks[t] = r.tasks[t]
  BY DEF End, NoTask, Runners
<1>. QED  BY <1>1 DEF Tame, Starting, Chosen, ChosenPcs

LEMMA RunStepTame ==
    ASSUME NEW r \in Runners, NEW s \in Background,
           NEW k \in 0 .. MaxSteps, NEW o
    PROVE  Tame(r, RunStep(r, s, k, o), o) /\ (RunStep(r, s, k, o).door_timer => r.record.preset = <<>>)
<1> DEFINE c == ClearStepHandlers(r)
           q == [c EXCEPT !.record.step_index = k, !.transitioning = TRUE,
                          !.tasks[s] = [NoTask EXCEPT !.step = k]]
<1>1. s \in Slots
  BY Places
<1>2. c \in Runners /\ ~c.door_timer /\ c.tasks = r.tasks
  BY ClearHandlersType DEF ClearStepHandlers, Runners
<1> HIDE DEF c
<1>3. /\ ~q.door_timer /\ q.tasks[s].pc = "free" /\ q \in Runners
      /\ \A t \in Slots \ {s} : q.tasks[t] = r.tasks[t]
  BY <1>1, <1>2, NoTaskType DEF NoTask, Runners, Records, Tasks
<1> HIDE DEF q
<1>4. Tame(r, q, o)
  BY <1>1, <1>3, QuietTame DEF ChosenPcs
<1>5. Tame(q, At(q, s, "stopPress"), o)
  <2>1. Moved(q, At(q, s, "stopPress"), s, {"stopPress"})
    BY <1>1, <1>3, WaitMoved
  <2>. QED  BY <1>1, <2>1, MovedTame DEF ChosenPcs
<1>6. Tame(q, CheckRemoteStart(q, s, o), o)
  BY <1>1, <1>3, CheckRemoteStartTame
<1>7. Tame(r, End(r, s), o)
  <2> DEFINE x == End(r, s)
  <2>1. /\ x.record = r.record /\ x.door_timer = r.door_timer /\ x.unsubs = r.unsubs
        /\ x.transitioning = r.transitioning
    BY DEF End, Runners
  <2> HIDE DEF x
  <2>2. x.tasks = End(r, s).tasks
    BY DEF x
  <2>3. Tame(r, x, o)
    BY <1>1, <2>1, <2>2, EndTame
  <2>. QED  BY <2>3 DEF x
<1>8. \A x : Tame(q, x, o) => Tame(r, x, o) /\ ~x.door_timer
  BY <1>3, <1>4, TameTwice DEF Tame
<1>. QED  BY <1>5, <1>6, <1>7, <1>8 DEF RunStep, q, c

LEMMA FinishedTame ==
    ASSUME NEW r \in Runners, NEW s \in Background, ~r.door_timer, NEW o
    PROVE  Tame(r, Finished(r, s), o)
<1> DEFINE record == [r.record EXCEPT !.state = "finished", !.ends = 0]
           p == [r EXCEPT !.record.state = "finished", !.record.ends = 0]
           q == Commit(p, s, "finishSave")
<1>1. record \in Records
  <2>1. 0 \in 0 .. MaxSteps /\ "finished" \in States /\ r.record \in Records
    BY BoundsAssumption DEF States, Runners
  <2>. QED  BY <2>1 DEF Records
<1>2. p = [r EXCEPT !.record = record]
  BY DEF Runners
<1> HIDE DEF record, p
<1>3. p \in Runners /\ p.tasks = r.tasks /\ p.door_timer = r.door_timer
  BY <1>1, <1>2 DEF Runners
<1>4. s \in Slots /\ "finishSave" \in Pcs
  BY Places DEF Pcs, TaskPcs
<1>5. Asked(p, q, s, "finishSave")
  BY <1>3, <1>4, CommitWrites
<1> HIDE DEF q
<1>6. ~q.door_timer /\ q.tasks[s].pc = "finishSave" /\ \A t \in Slots \ {s} : q.tasks[t] = r.tasks[t]
  BY <1>3, <1>5 DEF Asked
<1>7. Tame(r, q, o)
  BY <1>4, <1>6, QuietTame DEF ChosenPcs
<1>. QED  BY <1>7 DEF Finished, p, q

LEMMA StepDoneTame ==
    ASSUME NEW r \in Runners, NEW s \in Background, NEW o
    PROVE  Tame(r, StepDone(r, s, o), o)
<1> DEFINE h == ClearHandlers(r)
           e == End(r, s)
           a == At(h, s, "finishPress")
<1>1. s \in Slots
  BY Places
<1>2. Tame(r, e, o)
  <2>1. /\ e.record = r.record /\ e.door_timer = r.door_timer /\ e.unsubs = r.unsubs
        /\ e.transitioning = r.transitioning
    BY DEF End, Runners
  <2> HIDE DEF e
  <2>2. e.tasks = End(r, s).tasks
    BY DEF e
  <2>. QED  BY <1>1, <2>1, <2>2, EndTame
<1>3. HasStep(r) /\ r.record.step_index < Len(r.record.preset)
         => r.record.step_index + 1 \in 0 .. MaxSteps
  BY PresetsAssumption, BoundsAssumption DEF HasStep, Runners, Records
<1>4. /\ h \in Runners /\ ~h.door_timer /\ h.tasks = r.tasks
  BY ClearHandlersType DEF ClearHandlers, ClearStepHandlers, Runners
<1> HIDE DEF h
<1>5. Tame(r, h, o)
  BY <1>4 DEF Tame, Starting, Chosen
<1>6. Tame(h, Finished(h, s), o)
  BY <1>4, FinishedTame
<1>7. Tame(h, a, o)
  <2>1. Moved(h, a, s, {"finishPress"})
    BY <1>1, <1>4, WaitMoved
  <2> HIDE DEF a
  <2>. QED  BY <1>1, <2>1, MovedTame DEF ChosenPcs
<1>8. Tame(r, Finished(h, s), o) /\ Tame(r, a, o)
  BY <1>5, <1>6, <1>7, TameTwice
<1>. QED  BY <1>2, <1>3, <1>8, RunStepTame DEF StepDone, h, e, a

LEMMA ArmStepTame ==
    ASSUME NEW r \in Runners, NEW s \in Background, NEW k, NEW o
    PROVE  Tame(r, ArmStep(r, s, k, o), o)
<1>1. s \in Slots
  BY Places
<1>2. /\ End(r, s).record = r.record /\ End(r, s).door_timer = r.door_timer
      /\ End(r, s).unsubs = r.unsubs /\ End(r, s).transitioning = r.transitioning
      /\ End(r, s) \in Runners
  BY <1>1, EndType DEF End, Runners
<1>3. Tame(r, End(r, s), o)
  <2> DEFINE x == End(r, s)
  <2>1. x.tasks = End(r, s).tasks
    OBVIOUS
  <2> HIDE DEF x
  <2>2. Tame(r, x, o)
    BY <1>1, <1>2, <2>1, EndTame DEF x
  <2>. QED  BY <2>2 DEF x
<1>4. ASSUME NEW h PROVE Tame(r, [End(r, s) EXCEPT !.step_unsubs = h], o)
  <2> DEFINE x == [End(r, s) EXCEPT !.step_unsubs = h]
  <2>1. /\ x.tasks = End(r, s).tasks /\ x.record = r.record /\ x.door_timer = r.door_timer
        /\ x.unsubs = r.unsubs /\ x.transitioning = r.transitioning
    BY <1>2 DEF Runners
  <2> HIDE DEF x
  <2>2. Tame(r, x, o)
    BY <1>1, <2>1, EndTame
  <2>. QED  BY <2>2 DEF x
<1>. QED  BY <1>3, <1>4, StepDoneTame DEF ArmStep

LEMMA BeginTame ==
    ASSUME NEW r \in Runners, NEW s \in Background, ~r.door_timer, NEW o, NEW home
    PROVE  Tame(r, Begin(r, s, o, home), o)
<1> DEFINE record == [r.record EXCEPT !.state = "running", !.step_index = 1]
           p == [r EXCEPT !.record.state = "running", !.record.step_index = 1]
           g == ArmRunGuards(p)
<1>1. record \in Records /\ 1 \in 0 .. MaxSteps
  <2>1. 1 \in 0 .. MaxSteps /\ "running" \in States /\ r.record \in Records
    BY BoundsAssumption DEF States, Runners
  <2>. QED  BY <2>1 DEF Records
<1>2. p = [r EXCEPT !.record = record]
  BY DEF Runners
<1> HIDE DEF record, p
<1>3. p \in Runners /\ p.tasks = r.tasks /\ p.door_timer = r.door_timer
  BY <1>1, <1>2 DEF Runners
<1>4. g \in Runners /\ g.tasks = r.tasks /\ g.door_timer = r.door_timer
  BY <1>3, ArmRunGuardsType DEF ArmRunGuards, Runners
<1> HIDE DEF g
<1>5. Tame(g, RunStep(g, s, 1, o), o)
  BY <1>1, <1>4, RunStepTame
<1>6. Tame(r, g, o)
  BY <1>4 DEF Tame, Starting, Chosen
<1>7. Tame(r, RunStep(g, s, 1, o), o)
  BY <1>5, <1>6, TameTwice
<1>8. Begin(r, s, o, home) \in {RunStep(g, s, 1, o), Fail(r, s, FALSE, "return", o)}
  BY DEF Begin, g, p
<1>. QED  BY <1>7, <1>8, FailTame

\* The listeners for the operation and the temperature are tame.
LEMMA CheckTame ==
    ASSUME NEW r \in Runners, HasSlot(r), NEW o
    PROVE  Tame(r, CheckOperation(r, o), o) /\ Tame(r, CheckTemperature(r, o), o)
<1> DEFINE n == NewTask(r)
<1>1. n \in Background
  BY NewTaskFree
<1> HIDE DEF n
<1>2. Tame(r, r, o)
  BY DEF Tame
<1>. QED  BY <1>1, <1>2, FailTame, StepDoneTame DEF CheckOperation, CheckTemperature, n

\* The door is looked at: the listener sets its timer.
DoorSeen(o) ==
    \E w \in Runners : Alike(runner, w) /\ runner' = CheckDoor(w, o)

\* What the listeners do is tame, but for the one that looks at the door.
LEMMA ObserveTame ==
    ASSUME TypeOK, Observe, Ordered(runner)
    PROVE  \/ Tame(runner, runner', oven') /\ DoorOpen(oven') = DoorOpen(oven)
           \/ /\ Starting(runner') \subseteq Starting(runner)
              /\ Chosen(runner') \subseteq Chosen(runner) /\ DoorSeen(oven')
<1> DEFINE w == Wake(runner, oven')
<1>1. runner \in Runners /\ w \in Runners
  BY WakeType DEF TypeOK
<1>2. Alike(runner, w) /\ Tame(runner, w, oven')
  BY <1>1, WakeOrdered, AlikeTame
<1> HIDE DEF w
<1>3. HasSlot(runner) => HasSlot(w)
  BY <1>2, Places DEF Alike, Free, HasSlot
<1>4. CASE OnOperation
  <2>1. oven \in Oven /\ OperationEvent /\ HasSlot(w) /\ runner' = CheckOperation(w, oven')
    BY <1>3, <1>4 DEF OnOperation, TypeOK, w
  <2>2. oven'.door = oven.door
    BY <2>1 DEF OperationEvent, ActOnCommand, ProgrammeEnds, UserStarts, PauseToggles,
                IdleReport, LinkReturns, Oven
  <2>. QED  BY <1>1, <1>2, <2>1, <2>2, CheckTame, TameTwice DEF DoorOpen
<1>5. CASE OnLinkDrop
  <2>1. oven \in Oven
    BY DEF TypeOK
  <2>2. CASE Reachable(oven')
    <3>1. oven'.door = oven.door
      BY <1>5, <2>1, <2>2 DEF OnLinkDrop, LinkDrops, Reachable, Oven
    <3>. QED  BY <1>2, <1>5, <2>2, <3>1 DEF OnLinkDrop, DoorOpen, w
  <2>3. CASE ~Reachable(oven')
    <3>1. runner' = CheckDoor(w, oven')
      BY <1>5, <2>3 DEF OnLinkDrop, w
    <3>2. runner'.tasks = w.tasks
      BY <1>1, <3>1 DEF CheckDoor, Runners
    <3>3. Starting(runner') = Starting(w) /\ Chosen(runner') = Chosen(w)
      BY <3>2 DEF Starting, Chosen
    <3>4. Starting(w) = Starting(runner) /\ Chosen(w) = Chosen(runner)
      BY <1>2 DEF Alike, Starting, Chosen
    <3>. QED  BY <1>1, <1>2, <3>1, <3>3, <3>4 DEF DoorSeen
  <2>. QED  BY <2>2, <2>3
<1>6. CASE OnDoor
  <2>1. runner'.tasks = runner.tasks
    BY <1>1, <1>6 DEF OnDoor, CheckDoor, Runners
  <2>2. Alike(runner, runner)
    BY DEF Alike
  <2>. QED  BY <1>1, <1>6, <2>1, <2>2 DEF OnDoor, Starting, Chosen, DoorSeen
<1>7. CASE OnRemoteStart
  <2>1. oven \in Oven /\ oven'.door = oven.door
    BY <1>7 DEF OnRemoteStart, RemoteChanges, TypeOK, Oven
  <2>. QED  BY <1>2, <1>7, <2>1 DEF OnRemoteStart, DoorOpen, w
<1>8. CASE OnTemperature
  <2>1. oven \in Oven /\ oven'.door = oven.door
    BY <1>8 DEF OnTemperature, TemperatureChanges, TypeOK, Oven
  <2>. QED  BY <1>1, <1>8, <2>1, CheckTame DEF OnTemperature, DoorOpen
<1>. QED  BY <1>4, <1>5, <1>6, <1>7, <1>8 DEF Observe

\* Presses and dials leave the door alone.
LEMMA OvenDoor ==
    ASSUME oven \in Oven, NEW button, NEW dial, NEW k
    PROVE  /\ DoorOpen(Press(oven, button)) = DoorOpen(oven)
           /\ DoorOpen(Turn(oven, dial, k)) = DoorOpen(oven)
  BY DEF Press, Turn, Oven, DoorOpen

\* A dial is turned, and the transition goes on to the next.
Turned(s) ==
    /\ Dial(s) /\ TakesDials(oven)
    /\ LET pc == runner.tasks[s].pc
           k == runner.tasks[s].step
       IN  /\ oven' = Turn(oven, pc, k)
           /\ runner' = Issue(runner, s, NextDial(runner, k, pc), oven')

\* What an await that ends does to the oven: it turns a dial, or presses.
LEMMA ResumeOven ==
    ASSUME NEW s \in Background, Resume(s)
    PROVE  \/ UNCHANGED oven
           \/ Is(s, "start") /\ oven' = Press(oven, "start")
           \/ oven' = Press(oven, "abort") \/ oven' = Press(oven, "off")
           \/ Turned(s)
<1>1. CASE Dial(s)
  BY <1>1 DEF Dial, Turned
<1>2. CASE StopPress(s) \/ StartPress(s) \/ FailPress(s) \/ FinishPress(s) \/ PowerOff(s)
  BY <1>2 DEF StopPress, StartPress, FailPress, FinishPress, PowerOff, SafeAbort, Pressed, Raised
<1>3. CASE StopWait(s) \/ RemoteWait(s) \/ StartTimesOut(s) \/ StepStarts(s) \/ RecoverWait(s)
  BY <1>3 DEF StopWait, RemoteWait, StartTimesOut, StepStarts, RecoverWait
<1>. QED  BY <1>1, <1>2, <1>3 DEF Resume

\* An await of a background task that ends is tame, but that the last dial is
\* followed by start.
LEMMA ResumeTame ==
    ASSUME TypeOK, Ordered(runner), NEW s \in Background, Resume(s)
    PROVE  /\ DoorOpen(oven') = DoorOpen(oven)
           /\ \/ Tame(runner, runner', oven')
              \/ Turned(s) /\ ~runner'.door_timer
<1>1. runner \in Runners /\ oven \in Oven /\ s \in Slots
  BY Places DEF TypeOK
<1>2. DoorOpen(oven') = DoorOpen(oven)
  BY <1>1, OvenDoor, ResumeOven DEF Turned
<1>3. ASSUME runner.tasks[s].pc \in TransitionPcs
      PROVE  ~runner.door_timer /\ runner.transitioning
  BY <1>1, <1>3, WhichByTask DEF Boundary
<1>4. \A pc \in Pcs \ {"start"} : pc \notin ChosenPcs \/ s \in Chosen(runner)
         => Tame(runner, Wait(runner, s, pc, oven'), oven')
  <2> SUFFICES ASSUME NEW pc \in Pcs \ {"start"}, pc \notin ChosenPcs \/ s \in Chosen(runner)
               PROVE  Tame(runner, Wait(runner, s, pc, oven'), oven')
    OBVIOUS
  <2>1. Moved(runner, Wait(runner, s, pc, oven'), s, {pc})
    BY <1>1, WaitMoved
  <2>. QED  BY <1>1, <2>1, MovedTame
<1>5. CASE StopPress(s)
  <2> DEFINE x == [End(runner, s) EXCEPT !.transitioning = FALSE]
  <2>1. /\ x.tasks = End(runner, s).tasks /\ x.record = runner.record
        /\ x.door_timer = runner.door_timer /\ x.unsubs = runner.unsubs /\ ~x.transitioning
    BY <1>1 DEF End, Runners
  <2> HIDE DEF x
  <2>2. Tame(runner, x, oven')
    BY <1>1, <2>1, EndTame
  <2>3. "stopWait" \in Pcs \ {"start"} /\ "stopWait" \notin ChosenPcs
    BY DEF Pcs, TaskPcs, TransitionPcs, ChosenPcs
  <2>. QED  BY <1>2, <1>4, <1>5, <2>2, <2>3 DEF StopPress, x
<1>6. CASE StopWait(s)
  BY <1>1, <1>2, <1>6, CheckRemoteStartTame, FailTame DEF StopWait
<1>7. CASE RemoteWait(s)
  <2>1. 1 \in 0 .. StartAttempts
    BY CountsAssumption
  <2>. QED  BY <1>1, <1>2, <1>7, <2>1, AttemptTame, FailTame DEF RemoteWait
<1>8. CASE Dial(s)
  <2>1. ~runner.door_timer
    BY <1>3, <1>8 DEF Dial, Dials, TransitionPcs
  <2>2. \A k, pc, o : ~Issue(runner, s, NextDial(runner, k, pc), o).door_timer
    <3> TAKE k, pc, o
    <3>1. NextDial(runner, k, pc) \in TransitionPcs
      BY DEF NextDial, TransitionPcs
    <3>2. Moved(runner, Issue(runner, s, NextDial(runner, k, pc), o), s, TransitionPcs)
      BY <1>1, <3>1, IssueMoved
    <3>. QED  BY <2>1, <3>2 DEF Moved
  <2>. QED  BY <1>1, <1>2, <1>8, <2>2, AttemptFailedTame DEF Dial, Turned
<1>9. CASE StartPress(s)
  <2>1. "runWait" \in Pcs \ {"start"} /\ s \in Chosen(runner)
    BY <1>1, <1>9 DEF Pcs, TaskPcs, TransitionPcs, Chosen, ChosenPcs, StartPress, Is
  <2>2. Raised => oven' = oven
    BY DEF Raised
  <2>. QED  BY <1>1, <1>2, <1>4, <1>9, <2>1, <2>2, AttemptFailedTame DEF StartPress
<1>10. CASE StartTimesOut(s)
  BY <1>1, <1>2, <1>10, AttemptFailedTame DEF StartTimesOut
<1>11. CASE StepStarts(s)
  <2> DEFINE k == runner.tasks[s].step
             q == [runner EXCEPT !.transitioning = FALSE]
             ends == IF StepAt(q, k).kind = "hold" THEN 0 ELSE k
             p == [q EXCEPT !.record.ends = ends]
             c == Commit(p, s, "stepSave")
  <2>1. ~runner.door_timer /\ runner.record.state = "running"
    BY <1>1, <1>3, <1>11, WhichByTask DEF StepStarts, Is, TransitionPcs, Boundary, Ready, InRun
  <2>2. ends \in 0 .. MaxSteps /\ runner.record \in Records
    BY <1>1, BoundsAssumption DEF Runners, Tasks
  <2> HIDE DEF ends
  <2>3. p \in Runners /\ p.tasks = runner.tasks /\ p.door_timer = runner.door_timer
    <3>1. p = [runner EXCEPT !.transitioning = FALSE, !.record = [runner.record EXCEPT !.ends = ends]]
      BY <1>1 DEF Runners
    <3>2. [runner.record EXCEPT !.ends = ends] \in Records
      BY <2>2 DEF Records
    <3> HIDE DEF p
    <3>. QED  BY <1>1, <3>1, <3>2 DEF Runners
  <2> HIDE DEF p
  <2>4. Asked(p, c, s, "stepSave")
    <3>1. "stepSave" \in Pcs
      BY DEF Pcs, TaskPcs
    <3>. QED  BY <1>1, <2>3, <3>1, CommitWrites
  <2> HIDE DEF c
  <2>5. Tame(runner, c, oven')
    <3>1. ~c.door_timer /\ c.tasks[s].pc = "stepSave" /\ \A t \in Slots \ {s} : c.tasks[t] = runner.tasks[t]
      BY <2>1, <2>3, <2>4 DEF Asked
    <3>. QED  BY <1>1, <3>1, QuietTame DEF ChosenPcs
  <2>6. runner' = c
    BY <1>11, <2>1 DEF StepStarts, c, p, ends
  <2>. QED  BY <1>2, <2>5, <2>6
<1>12. CASE FailPress(s)
  <2> DEFINE f == [runner EXCEPT !.record.state = "failed"]
             x == Commit(f, s, "failSave")
  <2>1. ~runner.door_timer
    BY <1>1, <1>12, WhichByTask DEF FailPress, Is, Failing, Calm
  <2>2. f \in Runners /\ f.door_timer = runner.door_timer /\ f.tasks = runner.tasks
    BY <1>1, RecordType DEF Runners, States
  <2> HIDE DEF f
  <2>3. Asked(f, x, s, "failSave")
    <3>1. "failSave" \in Pcs
      BY DEF Pcs, TaskPcs, FailPcs
    <3>. QED  BY <1>1, <2>2, <3>1, CommitWrites
  <2> HIDE DEF x
  <2>4. ~x.door_timer /\ x.tasks[s].pc = "failSave" /\ \A t \in Slots \ {s} : x.tasks[t] = runner.tasks[t]
    BY <2>1, <2>2, <2>3 DEF Asked
  <2>5. Tame(runner, x, oven')
    BY <1>1, <2>4, QuietTame DEF ChosenPcs
  <2>. QED  BY <1>2, <1>12, <2>5 DEF FailPress, Failed, x, f
<1>13. CASE FinishPress(s)
  <2>1. ~runner.door_timer
    BY <1>1, <1>13, WhichByTask DEF FinishPress, Is, Finishing, Calm
  <2>. QED  BY <1>1, <1>2, <1>13, <2>1, FinishedTame DEF FinishPress
<1>14. CASE PowerOff(s)
  <2> DEFINE x == End(runner, s)
  <2>1. /\ x.record = runner.record /\ x.door_timer = runner.door_timer
        /\ x.unsubs = runner.unsubs /\ x.transitioning = runner.transitioning
    BY <1>1 DEF End, Runners
  <2>2. x.tasks = End(runner, s).tasks
    OBVIOUS
  <2> HIDE DEF x
  <2>3. Tame(runner, x, oven')
    BY <1>1, <2>1, <2>2, EndTame
  <2>. QED  BY <1>2, <1>14, <2>3 DEF PowerOff, x
<1>15. CASE RecoverWait(s)
  <2> DEFINE g == ArmRunGuards(runner)
  <2>1. /\ g \in Runners /\ Tame(runner, g, oven')
    BY <1>1, ArmRunGuardsType DEF ArmRunGuards, Runners, Tame, Starting, Chosen
  <2> HIDE DEF g
  <2>2. \A q : Tame(g, q, oven') => Tame(runner, q, oven')
    BY <2>1, TameTwice
  <2>3. oven' = oven
    BY <1>15 DEF RecoverWait
  <2>4. /\ Tame(runner, Fail(runner, s, TRUE, "powerOff", oven), oven')
        /\ Tame(runner, Fail(g, s, FALSE, "return", oven), oven')
        /\ Tame(runner, StepDone(g, s, oven), oven')
        /\ \A k : Tame(runner, ArmStep(g, s, k, oven), oven')
    BY <1>1, <2>1, <2>2, <2>3, FailTame, StepDoneTame, ArmStepTame
  <2>. QED  BY <1>2, <1>15, <2>4 DEF RecoverWait, g
<1>. QED  BY <1>5, <1>6, <1>7, <1>8, <1>9, <1>10, <1>11, <1>12, <1>13, <1>14, <1>15 DEF Resume

\* A runner that rests, or whose run is being aborted, is tame whatever was before.
LEMMA OverTame ==
    ASSUME NEW r, NEW o, NEW q \in Runners, Ordered(q), q.record.state # "running" \/ Aborting(q)
    PROVE  Tame(r, q, o)
<1>1. ~q.door_timer
  BY WhichByHandles DEF Steady, Saving, Ready, InRun, Aborting, Calm
<1>2. \A t \in Slots : q.tasks[t].pc \notin ChosenPcs
  <2>1. \A t \in Background : q.tasks[t].pc \in TransitionPcs => q.record.state = "running"
    BY WhichByTask DEF Boundary, Ready, InRun
  <2>2. Aborting(q) => \A t \in Background : q.tasks[t].pc = "free"
    BY Places DEF Aborting, Alone
  <2>3. \A t \in Calls : q.tasks[t].pc \in CallPcs
    BY WhichByCall
  <2>4. ChosenPcs \subseteq TransitionPcs /\ ChosenPcs \cap CallPcs = {} /\ "free" \notin ChosenPcs
    BY DEF ChosenPcs, TransitionPcs, CallPcs
  <2>. QED  BY <2>1, <2>2, <2>3, <2>4, Places
<1>. QED  BY <1>1, <1>2 DEF Tame, Starting, Chosen, ChosenPcs

\* The writes are tame.
LEMMA SaveTame ==
    ASSUME TypeOK, TypeOK', Ordered(runner), Ordered(runner'), Save
    PROVE  Tame(runner, runner', oven) /\ UNCHANGED oven
<1>1. /\ runner \in Runners /\ runner' \in Runners /\ runner.saves # <<>> /\ UNCHANGED oven
  BY DEF TypeOK, Save, StepSaved, FailSaved, RunNowSaved, LastSaved, Lands, OrphanSaved
<1>2. /\ Landed.record = runner.record /\ Landed.door_timer = runner.door_timer
      /\ Landed.unsubs = runner.unsubs /\ Landed.transitioning = runner.transitioning
      /\ Landed.tasks = runner.tasks /\ Landed \in Runners
  BY <1>1, LandedFacts
<1>3. Tame(runner, Landed, oven)
  BY <1>2 DEF Tame, Starting, Chosen
<1>4. Slots = Background \cup Calls
  BY Places
<1>5. ASSUME NEW s \in Slots, runner.tasks[s].pc \in SavePcs \ {"stepSave"}
      PROVE  Resting(runner)
  BY <1>1, <1>4, <1>5, WhichByTask, WhichByCall DEF SavePcs, CallPcs
<1>6. ASSUME NEW s \in Slots, StepSaved(s) PROVE Tame(runner, runner', oven)
  <2>1. s \in Background
    BY <1>1, <1>4, <1>6, WhichByCall DEF StepSaved, Lands, Is, CallPcs
  <2>. QED  BY <1>2, <1>3, <1>6, <2>1, ArmStepTame, TameTwice DEF StepSaved
<1>7. ASSUME NEW s \in Slots, FailSaved(s) \/ LastSaved(s) PROVE Tame(runner, runner', oven)
  <2>1. Resting(runner)
    BY <1>5, <1>7 DEF FailSaved, LastSaved, Lands, Is, SavePcs
  <2>2. runner'.record = runner.record
    BY <1>2, <1>7 DEF FailSaved, LastSaved, At, End, Runners
  <2>. QED  BY <1>1, <2>1, <2>2, OverTame DEF Resting
<1>8. ASSUME NEW s \in Slots, RunNowSaved(s) PROVE Tame(runner, runner', oven)
  <2> DEFINE e == End(Landed, s)
             n == NewTask(runner)
  <2>1. Resting(runner)
    BY <1>5, <1>8 DEF RunNowSaved, Lands, Is, SavePcs
  <2>2. n \in Background
    BY <1>1, <1>8, NewTaskFree DEF RunNowSaved
  <2>3. e \in Runners /\ ~e.door_timer
    BY <1>2, <2>1, EndType DEF End, Runners, Resting
  <2>4. Tame(Landed, e, oven)
    <3>1. /\ e.tasks = End(Landed, s).tasks /\ e.record = Landed.record
          /\ e.door_timer = Landed.door_timer /\ e.unsubs = Landed.unsubs
          /\ e.transitioning = Landed.transitioning
      BY <1>2 DEF End, Runners
    <3> HIDE DEF e
    <3>. QED  BY <1>2, <3>1, EndTame
  <2>5. PICK home : runner' = Begin(e, n, oven, home)
    BY <1>8 DEF RunNowSaved, Begins
  <2> HIDE DEF e, n
  <2>. QED  BY <1>2, <1>3, <2>2, <2>3, <2>4, <2>5, BeginTame, TameTwice
<1>9. OrphanSaved => Tame(runner, runner', oven)
  BY <1>3 DEF OrphanSaved
<1>. QED  BY <1>1, <1>6, <1>7, <1>8, <1>9 DEF Save

\* An abort with nothing to stop leaves no run.
LEMMA CallAbortStops ==
    ASSUME runner \in Runners, NEW c \in Calls, CallAbort(c),
           ~(runner.record.state = "running" /\ Busy(oven))
    PROVE  runner'.record.state \notin Active
<1> DEFINE h == ClearHandlers(CancelTasks(runner, Nobody))
           q == [h EXCEPT !.transitioning = FALSE]
<1>1. q \in Runners /\ q.record = runner.record /\ c \in Slots
  <2>1. CancelTasks(runner, Nobody) \in Runners /\ CancelTasks(runner, Nobody).record = runner.record
    BY Places, CancelType, CancelFacts DEF CancelTasks, Cancelled
  <2>2. h \in Runners /\ h.record = runner.record
    BY <2>1, ClearHandlersType DEF ClearHandlers, ClearStepHandlers, Runners
  <2> HIDE DEF h
  <2>. QED  BY <2>2, Places DEF Runners
<1> HIDE DEF q
<1>2. \A x : DOMAIN x = DOMAIN q => Commit(x, c, "abortSave").record = x.record
  BY <1>1 DEF Commit, At, Runners
<1>3. [q EXCEPT !.record.state = "idle"].record.state = "idle"
  BY <1>1 DEF Runners, Records
<1>4. [q EXCEPT !.record = NoRecord].record.state = "idle"
  BY <1>1 DEF Runners, NoRecord
<1>5. Aborted(q, c).record.state = "idle"
      /\ Commit([q EXCEPT !.record = NoRecord], c, "abortSave").record.state = "idle"
  BY <1>1, <1>2, <1>3, <1>4 DEF Aborted, Runners
<1>6. /\ runner' = IF runner.record.state \in Active THEN Aborted(q, c)
                    ELSE IF runner.record.state = "idle" THEN q
                    ELSE Commit([q EXCEPT !.record = NoRecord], c, "abortSave")
  BY DEF CallAbort, q, h
<1>. QED  BY <1>1, <1>5, <1>6 DEF Active

\* After a service call no run is running, but one that is being aborted.
LEMMA CommandStops ==
    ASSUME OneCall, TypeOK, TypeOK', Ordered(runner), Ordered(runner'), Command
    PROVE  runner'.record.state # "running" \/ Aborting(runner')
<1>1. PICK c \in Calls :
         \/ \E p \in Presets, later \in BOOLEAN : CallRun(c, p, later)
         \/ CallAbort(c) \/ AbortPress(c)
  BY DEF Command
<1>2. runner \in Runners /\ runner' \in Runners /\ c \in Slots
  BY Places DEF TypeOK
<1>3. ASSUME NEW p \in Presets, NEW later \in BOOLEAN, CallRun(c, p, later)
      PROVE  runner'.record.state = "scheduled"
  <2> DEFINE record == [NoRecord EXCEPT !.state = "scheduled", !.preset = p]
             q == [runner EXCEPT !.record = record]
             u == [q EXCEPT !.unsubs = @ \cup {"due"}]
  <2>1. record.state = "scheduled"
    BY DEF NoRecord
  <2>2. runner' = IF later THEN Commit(u, c, "runSave") ELSE Commit(q, c, "runNowSave")
    BY <1>3 DEF CallRun
  <2> HIDE DEF record
  <2>4. q.record = record /\ u.record = record /\ DOMAIN q = DOMAIN runner /\ DOMAIN u = DOMAIN runner
    BY <1>2 DEF Runners
  <2> HIDE DEF q, u
  <2>3. \A x : DOMAIN x = DOMAIN runner => Commit(x, c, "runSave").record = x.record
                 /\ Commit(x, c, "runNowSave").record = x.record
    BY <1>2 DEF Commit, At, Runners
  <2>. QED  BY <2>1, <2>2, <2>3, <2>4
<1>4. ASSUME CallAbort(c) PROVE runner'.record.state = "idle" \/ Aborting(runner')
  <2> DEFINE h == ClearHandlers(CancelTasks(runner, Nobody))
             q == [h EXCEPT !.transitioning = FALSE]
  <2>1. runner'.record.state \in {"running", "idle"}
    BY <1>4, CallAbortOrdered
  <2>2. ASSUME runner.record.state = "running", Busy(oven) PROVE Aborting(runner')
    <3>1. q \in Runners
      <4>1. CancelTasks(runner, Nobody) \in Runners
        BY <1>2, Places, CancelType DEF CancelTasks
      <4>2. h \in Runners
        BY <4>1, ClearHandlersType
      <4> HIDE DEF h
      <4>. QED  BY <4>2 DEF Runners
    <3> HIDE DEF q
    <3>2. runner' = At(q, c, "abortPress")
      BY <1>4, <2>2 DEF CallAbort, q, h
    <3>3. runner'.tasks[c].pc = "abortPress"
      <4>1. Moved(q, At(q, c, "abortPress"), c, {"abortPress"})
        BY <1>2, <3>1, WaitMoved
      <4>. QED  BY <3>2, <4>1 DEF Moved
    <3>. QED  BY <1>2, <3>3, WhichByCall
  <2>3. ASSUME ~(runner.record.state = "running" /\ Busy(oven)), runner'.record.state = "running"
        PROVE  FALSE
    BY <1>2, <1>4, <2>3, CallAbortStops DEF Active
  <2>. QED  BY <2>1, <2>2, <2>3
<1>5. AbortPress(c) => runner'.record.state = "idle"
  <2>1. [runner EXCEPT !.record.state = "idle"].record.state = "idle"
    BY <1>2 DEF Runners, Records
  <2>. QED  BY <1>2, <2>1 DEF AbortPress, Aborted, Commit, At, Runners
<1>. QED  BY <1>1, <1>3, <1>4, <1>5

\* The service calls are tame.
LEMMA CommandTame ==
    ASSUME OneCall, TypeOK, TypeOK', Ordered(runner), Ordered(runner'), Command
    PROVE  /\ Tame(runner, runner', oven')
           /\ oven' = oven \/ oven' = Press(oven, "abort")
<1>1. Tame(runner, runner', oven')
  BY CommandStops, OverTame DEF TypeOK
<1>2. oven' = oven \/ oven' = Press(oven, "abort")
  BY DEF Command, CallRun, CallAbort, AbortPress, SafeAbort, Pressed, Raised
<1>. QED  BY <1>1, <1>2

\* The timers are tame.
LEMMA TimerTame ==
    ASSUME TypeOK, Ordered(runner), Timer
    PROVE  Tame(runner, runner', oven) /\ UNCHANGED oven
<1> DEFINE n == NewTask(runner)
<1>1. /\ runner \in Runners /\ n \in Background /\ UNCHANGED oven
  BY NewTaskFree
     DEF TypeOK, Timer, StartComes, StepTimer, PreheatTimeout, MaxReached, DoorGraceOver
<1> HIDE DEF n
<1>2. CASE StartComes
  <2> DEFINE q == [runner EXCEPT !.unsubs = @ \ {"due"}]
  <2>1. Resting(runner)
    BY <1>1, <1>2, WhichByHandles DEF StartComes
  <2>2. q \in Runners /\ ~q.door_timer /\ q.tasks = runner.tasks
    BY <1>1, <2>1 DEF Runners, Resting
  <2>3. PICK home : runner' = Begin(q, n, oven, home)
    BY <1>2 DEF StartComes, Begins, n
  <2> HIDE DEF q
  <2>4. Tame(runner, q, oven)
    BY <2>2 DEF Tame, Starting, Chosen
  <2>. QED  BY <1>1, <2>2, <2>3, <2>4, BeginTame, TameTwice
<1>3. CASE StepTimer
  <2>1. PICK h \in runner.step_unsubs :
           runner' = StepDone([runner EXCEPT !.step_unsubs = @ \ {h}], n, oven)
    BY <1>3 DEF StepTimer, n
  <2> DEFINE q == [runner EXCEPT !.step_unsubs = @ \ {h}]
  <2>2. q \in Runners /\ Alike([q EXCEPT !.step_unsubs = {}], [runner EXCEPT !.step_unsubs = {}])
    BY <1>1 DEF Runners, Alike
  <2>3. Tame(runner, q, oven)
    BY <1>1 DEF Runners, Tame, Starting, Chosen
  <2> HIDE DEF q
  <2>. QED  BY <1>1, <2>1, <2>2, <2>3, StepDoneTame, TameTwice DEF q
<1>4. CASE PreheatTimeout
  BY <1>1, <1>4, FailTame DEF PreheatTimeout, n
<1>5. CASE MaxReached
  BY <1>1, <1>5, FailTame DEF MaxReached, n
<1>6. CASE DoorGraceOver
  <2> DEFINE q == [runner EXCEPT !.door_timer = FALSE]
  <2>1. q \in Runners /\ Tame(runner, q, oven)
    BY <1>1 DEF Runners, Tame, Starting, Chosen
  <2> HIDE DEF q
  <2>2. runner' = Fail(q, n, TRUE, "return", oven)
    BY <1>6 DEF DoorGraceOver, n, q
  <2>. QED  BY <1>1, <2>1, <2>2, FailTame, TameTwice
<1>. QED  BY <1>1, <1>2, <1>3, <1>4, <1>5, <1>6 DEF Timer

\* So is a restart.
LEMMA RestartTame ==
    ASSUME TypeOK, Ordered(runner), Crash \/ Setup
    PROVE  Tame(runner, runner', oven) /\ UNCHANGED oven
<1>1. CASE Crash
  <2>1. ~NewRunner.door_timer /\ \A t \in Slots : NewRunner.tasks[t].pc = "free"
    BY DEF NewRunner, NoTask
  <2>. QED  BY <1>1, <2>1 DEF Crash, Tame, Starting, Chosen, ChosenPcs
<1>2. CASE Setup
  <2> DEFINE n == NewTask(runner)
             l == Loaded
  <2>1. n \in Background /\ ~runner.up /\ runner \in Runners /\ UNCHANGED oven /\ n \in Slots
    BY <1>2, NewTaskFree, Places DEF Setup, SetupInactive, SetupRunning, SetupScheduled, TypeOK
  <2>2. l \in Runners /\ ~l.door_timer /\ \A t \in Slots : l.tasks[t].pc = "free"
    BY <2>1, LoadedFacts
  <2> HIDE DEF n, l
  <2>3. Tame(runner, l, oven)
    BY <2>2 DEF Tame, Starting, Chosen, ChosenPcs
  <2>4. SetupInactive => Tame(runner, runner', oven)
    BY <2>3 DEF SetupInactive, l
  <2>5. SetupRunning => Tame(runner, runner', oven)
    <3>1. Moved(l, Wait(l, n, "recoverWait", oven), n, {"recoverWait"})
      BY <2>1, <2>2, WaitMoved
    <3>2. Tame(l, Wait(l, n, "recoverWait", oven), oven)
      BY <2>1, <3>1, MovedTame DEF ChosenPcs
    <3>. QED  BY <2>3, <3>2, TameTwice DEF SetupRunning, l, n
  <2>6. SetupScheduled => Tame(runner, runner', oven)
    <3>1. Tame(runner, [l EXCEPT !.unsubs = {"due"}], oven)
      BY <2>2 DEF Tame, Starting, Chosen, ChosenPcs, Runners
    <3>2. \A home : Tame(runner, Begin(l, n, oven, home), oven)
      BY <2>1, <2>2, <2>3, BeginTame, TameTwice
    <3>3. Tame(runner, Fail(l, n, FALSE, "return", oven), oven)
      BY <2>1, <2>2, <2>3, FailTame, TameTwice
    <3>4. clock.start \in {"future", "due", "missed"}
      BY DEF TypeOK, Clocks
    <3>. QED  BY <3>1, <3>2, <3>3, <3>4 DEF SetupScheduled, Begins, l, n
  <2>. QED  BY <1>2, <2>1, <2>4, <2>5, <2>6 DEF Setup
<1>. QED  BY <1>1, <1>2

\* A step is tame, but for the listener that sees the door and the last dial.
LEMMA NextTame ==
    ASSUME OneCall, TypeOK, TypeOK', OrderInv, Ordered(runner'), [Next]_vars
    PROVE  /\ \/ /\ Starting(runner') \subseteq Starting(runner)
                 /\ Reachable(oven') => Chosen(runner') \subseteq Chosen(runner)
              \/ \E s \in Background : Turned(s)
           /\ \/ Tame(runner, runner', oven') /\ DoorOpen(oven') = DoorOpen(oven)
              \/ DoorSeen(oven')
              \/ ~runner'.door_timer
<1>1. Ordered(runner) /\ runner \in Runners /\ oven \in Oven
  BY DEF OrderInv, TypeOK
<1>2. DoorOpen(Press(oven, "abort")) = DoorOpen(oven)
  BY <1>1, OvenDoor
<1>3. CASE Observe
  BY <1>1, <1>3, ObserveTame DEF Tame
<1>4. CASE \E s \in Background : Resume(s)
  BY <1>1, <1>4, ResumeTame DEF Tame
<1>5. CASE Save
  BY <1>1, <1>5, SaveTame DEF Tame
<1>6. CASE Command
  BY <1>1, <1>2, <1>6, CommandTame DEF Tame
<1>7. CASE Timer
  BY <1>1, <1>7, TimerTame DEF Tame
<1>8. CASE TimePasses \/ UNCHANGED vars
  <2>1. runner' = runner /\ oven' = oven
    BY <1>8 DEF TimePasses, StartPasses, StepPasses, MaxPasses, vars
  <2>. QED  BY <2>1 DEF Tame
<1>9. CASE Crash \/ Setup
  BY <1>1, <1>9, RestartTame DEF Tame
<1>. QED  BY <1>3, <1>4, <1>5, <1>6, <1>7, <1>8, <1>9 DEF Next

\* The door's timer runs only while the listener that stops it hears.
DoorInv == runner.door_timer => Listening(runner) /\ Guarded(runner) /\ DoorOpen(oven)

LEMMA NextDoor ==
    ASSUME OneCall, TypeOK, TypeOK', OrderInv, Ordered(runner'), DoorInv, [Next]_vars
    PROVE  DoorInv'
<1>1. CASE Tame(runner, runner', oven') /\ DoorOpen(oven') = DoorOpen(oven)
  BY <1>1 DEF Tame, DoorInv, Listening, Guarded, HasStep, CurrentStep, StepAt
<1>2. CASE DoorSeen(oven')
  <2>1. PICK w \in Runners : Alike(runner, w) /\ runner' = CheckDoor(w, oven')
    BY <1>2 DEF DoorSeen
  <2>2. CASE Listening(w)
    <3> DEFINE q == [w EXCEPT !.door_timer = DoorOpen(oven') /\ Guarded(w)]
    <3>1. /\ q.record = w.record /\ q.unsubs = w.unsubs /\ q.transitioning = w.transitioning
          /\ q.door_timer = (DoorOpen(oven') /\ Guarded(w))
      BY DEF Runners
    <3>2. runner' = q
      BY <2>1, <2>2 DEF CheckDoor
    <3> HIDE DEF q
    <3>. QED  BY <2>2, <3>1, <3>2 DEF DoorInv, Listening, Guarded, HasStep, CurrentStep, StepAt
  <2>3. CASE ~Listening(w)
    <3>1. ~Listening(runner) /\ w.door_timer = runner.door_timer
      BY <2>1, <2>3 DEF Alike, Listening
    <3>. QED  BY <2>1, <2>3, <3>1 DEF CheckDoor, DoorInv
  <2>. QED  BY <2>2, <2>3
<1>. QED  BY <1>1, <1>2, NextTame DEF DoorInv

\* _check_door: the grace timer runs only while the door of a hot step is reported
\* open, so a door closed in time, a lost link or the next step stops it.
THEOREM DoorTimerStops ==
    ASSUME OneCall, NoBriefSteps
    PROVE  Spec => []DoorTimerSound
<1>1. Init => DoorInv
  BY DEF Init, NewRunner, DoorInv
<1>2. TypeOK /\ TypeOK' /\ OrderInv /\ OrderInv' /\ DoorInv /\ [Next]_vars => DoorInv'
  BY NextDoor DEF OrderInv
<1>3. DoorInv => DoorTimerSound
  BY DEF DoorInv, DoorTimerSound
<1>. QED  BY <1>1, <1>2, <1>3, TypeCorrect, OrderKept, PTL DEF Spec

-----------------------------------------------------------------------------
(* The oven's own timer.                                                   *)

\* A programme is under way, or about to be.
UnderWay(o, r) ==
    \/ o.program > 0
    \/ \E i \in DOMAIN o.commands : o.commands[i] = "start"
    \/ Starting(r) # {}
TimerSet(o) == o.selected = 0 \/ "duration" \in o.dials

\* What runs is what was last chosen, and its timer was set before the start.
DialInv ==
    /\ oven.program > 0 => oven.selected = oven.program
    /\ "duration" \in Roles /\ UnderWay(oven, runner) => TimerSet(oven)

\* An event of the oven, or a press, starts what is chosen at most, and leaves the
\* dials alone unless somebody starts a programme by hand.
LEMMA OvenMoves ==
    ASSUME oven \in Oven,
           \/ oven' = oven \/ oven' = Press(oven, "abort") \/ oven' = Press(oven, "off")
           \/ OperationEvent \/ LinkDrops \/ DoorMoves \/ RemoteChanges \/ TemperatureChanges
    PROVE  \/ oven'.program < 0 /\ oven'.selected = 0
           \/ /\ oven'.selected = oven.selected /\ oven'.dials = oven.dials
              /\ oven'.program > 0 =>
                    \/ oven'.program = oven.program
                    \/ /\ oven'.program = oven.selected
                       /\ \E i \in DOMAIN oven.commands : oven.commands[i] = "start"
              /\ \A j \in DOMAIN oven'.commands : oven'.commands[j] = "start" =>
                    \E i \in DOMAIN oven.commands : oven.commands[i] = "start"
<1>1. /\ oven.commands \in Seq(Buttons) /\ oven.program \in Int /\ oven.selected \in Int
      /\ DOMAIN oven.commands = 1 .. Len(oven.commands) /\ Len(oven.commands) \in Nat
  <2>1. oven.commands \in Seq(Buttons) /\ oven.program \in Int /\ oven.selected \in Int
    BY BoundsAssumption DEF Oven, Foreign
  <2>. QED  BY <2>1, LenProperties
<1>2. ASSUME NEW button \in {"abort", "off"}, oven' = Press(oven, button)
      PROVE  /\ oven'.selected = oven.selected /\ oven'.dials = oven.dials
             /\ oven'.program = oven.program
             /\ \A j \in DOMAIN oven'.commands : oven'.commands[j] = "start" =>
                    \E i \in DOMAIN oven.commands : oven.commands[i] = "start"
  <2>1. /\ oven'.selected = oven.selected /\ oven'.dials = oven.dials
        /\ oven'.program = oven.program /\ oven'.commands = Append(oven.commands, button)
    BY <1>2 DEF Press, Oven
  <2>2. button \in Buttons
    BY DEF Buttons
  <2>3. \A j \in DOMAIN oven'.commands : \/ oven'.commands[j] = button
                                         \/ /\ j \in DOMAIN oven.commands
                                            /\ oven'.commands[j] = oven.commands[j]
    BY <1>1, <2>1, <2>2, AppendProperties
  <2>. QED  BY <2>1, <2>3
<1>3. CASE ActOnCommand
  <2>1. /\ oven'.selected = oven.selected /\ oven'.dials = oven.dials
        /\ oven'.commands = Tail(oven.commands) /\ oven.commands # <<>>
        /\ IF Head(oven.commands) = "start"
           THEN oven'.program = (IF oven.program = 0 THEN oven.selected ELSE oven.program)
           ELSE oven'.program = 0
    BY <1>3 DEF ActOnCommand, Oven
  <2>2. 1 \in DOMAIN oven.commands /\ Head(oven.commands) = oven.commands[1]
    BY <1>1, <2>1, EmptySeq, HeadTailProperties
  <2>3. \A j \in DOMAIN oven'.commands : j + 1 \in DOMAIN oven.commands
                                          /\ oven'.commands[j] = oven.commands[j + 1]
    BY <1>1, <2>1, HeadTailProperties, LenProperties
  <2>4. oven'.program > 0 =>
           \/ oven'.program = oven.program
           \/ /\ oven'.program = oven.selected
              /\ \E i \in DOMAIN oven.commands : oven.commands[i] = "start"
    BY <2>1, <2>2
  <2>. QED  BY <2>1, <2>3, <2>4
<1>4. CASE UserStarts
  BY <1>4 DEF UserStarts, Foreign, Oven
<1>5. CASE ProgrammeEnds \/ PauseToggles \/ IdleReport \/ LinkReturns \/ LinkDrops
              \/ DoorMoves \/ RemoteChanges \/ TemperatureChanges \/ oven' = oven
  <2>1. /\ oven'.selected = oven.selected /\ oven'.dials = oven.dials
        /\ oven'.commands = oven.commands /\ oven'.program \in {0, oven.program}
    BY ZenonT(60), <1>5 DEF ProgrammeEnds, PauseToggles, IdleReport, LinkReturns, LinkDrops, DoorMoves,
                RemoteChanges, TemperatureChanges, Oven
  <2>. QED  BY <2>1
<1>. QED  BY <1>2, <1>3, <1>4, <1>5 DEF OperationEvent

\* No one else is about to start while a dial is turned.
LEMMA DialAlone ==
    ASSUME runner \in Runners, Ordered(runner), NEW s \in Background,
           runner.tasks[s].pc \in TransitionPcs
    PROVE  Starting(runner) \subseteq {s}
<1>1. OneTransition /\ s \in Slots
  BY OrderedTransition, Places
<1>. QED  BY <1>1 DEF OneTransition, Starting, TransitionPcs

LEMMA NextDials ==
    ASSUME OneCall, TypeOK, TypeOK', OrderInv, Ordered(runner'), DialInv, [Next]_vars
    PROVE  DialInv'
<1>1. Ordered(runner) /\ runner \in Runners /\ oven \in Oven
  BY DEF OrderInv, TypeOK
<1>2. ASSUME \/ oven' = oven \/ oven' = Press(oven, "abort") \/ oven' = Press(oven, "off")
             \/ OperationEvent \/ LinkDrops \/ DoorMoves \/ RemoteChanges \/ TemperatureChanges,
             Starting(runner') \subseteq Starting(runner)
      PROVE  DialInv'
  <2>1. CASE oven'.program < 0 /\ oven'.selected = 0
    <3>1. oven'.program \in Int /\ oven'.program # 0 /\ ~(oven'.program > 0)
      BY <2>1, BoundsAssumption DEF TypeOK, Oven, Foreign
    <3>. QED  BY <2>1, <3>1 DEF DialInv, TimerSet, UnderWay
  <2>2. CASE ~(oven'.program < 0 /\ oven'.selected = 0)
    <3>1. /\ oven'.selected = oven.selected /\ oven'.dials = oven.dials
          /\ oven'.program > 0 =>
                \/ oven'.program = oven.program
                \/ /\ oven'.program = oven.selected
                   /\ \E i \in DOMAIN oven.commands : oven.commands[i] = "start"
          /\ \A j \in DOMAIN oven'.commands : oven'.commands[j] = "start" =>
                \E i \in DOMAIN oven.commands : oven.commands[i] = "start"
      BY <1>1, <1>2, <2>2, OvenMoves
    <3>2. UnderWay(oven', runner') => UnderWay(oven, runner)
      BY <1>2, <3>1 DEF UnderWay
    <3>. QED  BY <3>1, <3>2 DEF DialInv, TimerSet
  <2>. QED  BY <2>1, <2>2
<1>3. CASE Observe
  <2>1. OperationEvent \/ LinkDrops \/ DoorMoves \/ RemoteChanges \/ TemperatureChanges
    BY <1>3 DEF Observe, OnOperation, OnLinkDrop, OnDoor, OnRemoteStart, OnTemperature
  <2>2. Starting(runner') \subseteq Starting(runner)
    BY <1>1, <1>3, ObserveTame DEF Tame
  <2>. QED  BY <1>2, <2>1, <2>2
<1>4. ASSUME NEW s \in Background, Resume(s)
      PROVE  DialInv'
  <2>1. s \in Slots
    BY Places
  <2>2. CASE Tame(runner, runner', oven') /\ (oven' = oven \/ oven' = Press(oven, "abort") \/ oven' = Press(oven, "off"))
    BY <1>2, <2>2 DEF Tame
  <2>3. CASE Tame(runner, runner', oven') /\ Is(s, "start") /\ oven' = Press(oven, "start")
    <3>1. s \in Starting(runner)
      BY <2>1, <2>3 DEF Is, Starting
    <3>2. /\ oven'.selected = oven.selected /\ oven'.dials = oven.dials
          /\ oven'.program = oven.program
      BY <1>1, <2>3 DEF Press, Oven
    <3>. QED  BY <3>1, <3>2 DEF DialInv, UnderWay, TimerSet
  <2>5. CASE Turned(s)
    <3> DEFINE pc == runner.tasks[s].pc
               k == runner.tasks[s].step
               next == NextDial(runner, k, pc)
    <3>1. pc \in Dials /\ oven.program = 0 /\ oven.commands = <<>>
      BY <2>5 DEF Turned, Dial, TakesDials
    <3>2. /\ oven'.program = 0 /\ oven'.commands = <<>>
          /\ pc = "duration" => oven'.dials = oven.dials \cup {"duration"}
      BY <1>1, <2>5, <3>1 DEF Turned, Turn, Oven
    <3>3. "duration" \in Roles /\ next = "start" => pc = "duration"
      BY <3>1 DEF NextDial, Dials
    <3>4. Moved(runner, runner', s, {next, "runWait"})
      BY <1>1, <2>1, <2>5, WaitMoved DEF Turned, Issue
    <3> HIDE DEF next
    <3>5. Starting(runner) = {}
      <4>1. runner.tasks[s].pc \in TransitionPcs /\ runner.tasks[s].pc # "start"
        BY <3>1 DEF Dials, TransitionPcs
      <4>. QED  BY <1>1, <4>1, DialAlone DEF Starting
    <3>6. next # "start" => Starting(runner') = {}
      BY <2>1, <3>4, <3>5 DEF Moved, Starting
    <3>7. "duration" \in Roles /\ UnderWay(oven', runner') => TimerSet(oven')
      BY <3>2, <3>3, <3>6 DEF UnderWay, TimerSet
    <3>. QED  BY <3>2, <3>7 DEF DialInv
  <2>. QED  BY <1>1, <1>4, <2>2, <2>3, <2>5, ResumeTame, ResumeOven
<1>5. CASE Save
  BY <1>1, <1>2, <1>5, SaveTame DEF Tame
<1>6. CASE Command
  BY <1>1, <1>2, <1>6, CommandTame DEF Tame
<1>7. CASE Timer
  BY <1>1, <1>2, <1>7, TimerTame DEF Tame
<1>8. CASE TimePasses \/ UNCHANGED vars
  <2>1. runner' = runner /\ oven' = oven
    BY <1>8 DEF TimePasses, StartPasses, StepPasses, MaxPasses, vars
  <2>. QED  BY <1>2, <2>1
<1>9. CASE Crash \/ Setup
  BY <1>1, <1>2, <1>9, RestartTame DEF Tame
<1>. QED  BY <1>3, <1>4, <1>5, <1>6, <1>7, <1>8, <1>9 DEF Next

LEMMA InitDials == Init => DialInv
<1>1. Init => /\ oven.program = 0 /\ DOMAIN oven.commands = {} /\ Starting(runner) = {}
  BY DEF Init, OvenInit, NewRunner, NoTask, Starting
<1>. QED  BY <1>1 DEF DialInv, UnderWay

\* The dead-man's switch: a preset's programme never runs on the oven unless its own
\* timer was set for it, through retries, raised and dropped calls.
THEOREM OwnTimerAlwaysSet ==
    ASSUME OneCall, NoBriefSteps
    PROVE  Spec => []OwnTimerSet
<1>1. TypeOK /\ TypeOK' /\ OrderInv /\ OrderInv' /\ DialInv /\ [Next]_vars => DialInv'
  BY NextDials DEF OrderInv
<1>2. TypeOK /\ DialInv => OwnTimerSet
  BY DEF DialInv, OwnTimerSet, UnderWay, TimerSet
<1>. QED  BY <1>1, <1>2, InitDials, TypeCorrect, OrderKept, PTL DEF Spec

-----------------------------------------------------------------------------
(* The steps a run has seen running.                                       *)

LeavingPcs == {"failPress", "finishPress", "abortPress"}

\* A run that is neither between two steps nor being ended: its step has started.
Ran(r) ==
    /\ r.record.state = "running"
    /\ \A s \in Slots : r.tasks[s].pc \notin TransitionPcs \cup LeavingPcs
Finishes(r) == \E s \in Background : r.tasks[s].pc = "finishPress"

\* A timed step is at its end; a step may be left.
OverNow(r) == CurrentStep(r).kind = "timed" => clock.step[r.record.step_index] # "early"
Done(r) == Ran(r) /\ OverNow(r)

\* step_ends_at is that of the step the run is at.
EndsRight(record) ==
    record.ends = IF record.preset[record.step_index].kind = "hold" THEN 0 ELSE record.step_index

\* What _arm_step arms is for the step the run is at.
HandlersRight(r) ==
    \A h \in r.step_unsubs :
        /\ h[2] = r.record.step_index
        /\ CurrentStep(r).kind = IF h[1] = "done" THEN "timed" ELSE "preheat"

\* How a run goes from r to q: it stays where it is; it stops; it enters a step, after
\* one that is done; it ends, after the last; its step is armed.
Walks(r, q) ==
    \/ /\ q.record = r.record /\ q.step_unsubs \subseteq r.step_unsubs
       /\ Ran(q) => Ran(r)
       /\ Finishes(q) => Finishes(r)
    \/ q.record.state \notin {"running", "finished"}
    \/ Done(r) /\ InBoundary(q)
    \/ /\ (Done(r) /\ LastStep(r)) \/ Finishes(r)
       /\ \/ Finishes(q) /\ q.record = r.record
          \/ q.record.state = "finished" /\ q.record.preset = r.record.preset
    \/ Ran(r) /\ q.record = r.record /\ ~Finishes(q) /\ HandlersRight(q)

\* Where the run is, in each situation.
LEMMA WhereItIs ==
    ASSUME NEW r, NEW s \in Background
    PROVE  /\ Boundary(r, s) => InBoundary(r) /\ ~Ran(r) /\ ~Finishes(r) /\ r.step_unsubs = {}
           /\ Failing(r, s) => ~InBoundary(r) /\ ~Ran(r) /\ ~Finishes(r) /\ r.step_unsubs = {}
           /\ Finishing(r, s) => ~InBoundary(r) /\ ~Ran(r) /\ Finishes(r) /\ r.step_unsubs = {}
           /\ Saving(r, s) \/ Recovering(r, s)
                => ~InBoundary(r) /\ Ran(r) /\ ~Finishes(r) /\ r.step_unsubs = {}
<1>1. s \in Slots /\ Slots = Background \cup Calls
  BY Places
<1>2. /\ "finishPress" \notin TransitionPcs /\ "failPress" \notin TransitionPcs
      /\ {"free", "powerOff", "stepSave", "recoverWait"} \cap (TransitionPcs \cup LeavingPcs) = {}
  BY DEF TransitionPcs, LeavingPcs
<1>3. /\ Boundary(r, s) => Beside(r, s) /\ r.tasks[s].pc \in TransitionPcs /\ r.step_unsubs = {}
      /\ Failing(r, s) => Beside(r, s) /\ r.tasks[s].pc = "failPress" /\ r.step_unsubs = {}
      /\ Finishing(r, s) => Beside(r, s) /\ r.tasks[s].pc = "finishPress" /\ r.step_unsubs = {}
      /\ Saving(r, s) \/ Recovering(r, s)
           => /\ Beside(r, s) /\ r.tasks[s].pc \in {"stepSave", "recoverWait"} /\ r.step_unsubs = {}
              /\ CallsFree(r) /\ r.record.state = "running"
  BY DEF Boundary, Failing, Finishing, Saving, Recovering, Ready, InRun, Alone, Beside, Calm
<1>4. Boundary(r, s) => InBoundary(r) /\ ~Ran(r) /\ ~Finishes(r)
  BY <1>1, <1>2, <1>3 DEF InBoundary, Ran, Finishes, Beside
<1>5. Failing(r, s) => ~InBoundary(r) /\ ~Ran(r) /\ ~Finishes(r)
  BY <1>1, <1>2, <1>3 DEF InBoundary, Ran, Finishes, Beside, LeavingPcs
<1>6. Finishing(r, s) => ~InBoundary(r) /\ ~Ran(r) /\ Finishes(r)
  BY <1>1, <1>2, <1>3 DEF InBoundary, Ran, Finishes, Beside, LeavingPcs
<1>7. Saving(r, s) \/ Recovering(r, s) => ~InBoundary(r) /\ Ran(r) /\ ~Finishes(r)
  BY <1>1, <1>2, <1>3 DEF InBoundary, Ran, Finishes, Beside, CallsFree
<1>. QED  BY <1>3, <1>4, <1>5, <1>6, <1>7

LEMMA WhereItIsNot ==
    ASSUME NEW r
    PROVE  /\ Steady(r) => Ran(r) /\ ~InBoundary(r) /\ ~Finishes(r)
           /\ Aborting(r) => ~Ran(r) /\ ~InBoundary(r) /\ ~Finishes(r) /\ r.step_unsubs = {}
           /\ Resting(r) => ~Ran(r) /\ ~InBoundary(r) /\ ~Finishes(r) /\ r.step_unsubs = {}
<1>1. Slots = Background \cup Calls /\ Nobody \notin Slots
  BY Places
<1>2. {"free", "powerOff", "failSave", "finishSave"} \cap (TransitionPcs \cup LeavingPcs) = {}
  BY DEF TransitionPcs, LeavingPcs
<1>3. Steady(r) => Ran(r) /\ ~InBoundary(r) /\ ~Finishes(r)
  BY <1>1, <1>2 DEF Steady, Ready, InRun, Beside, CallsFree, Ran, InBoundary, Finishes
<1>4. Aborting(r) => ~Ran(r) /\ ~InBoundary(r) /\ ~Finishes(r) /\ r.step_unsubs = {}
  BY <1>1, <1>2 DEF Aborting, Alone, Calm, Ran, InBoundary, Finishes, LeavingPcs
<1>5. Resting(r) => ~Ran(r) /\ ~InBoundary(r) /\ ~Finishes(r) /\ r.step_unsubs = {}
  BY <1>2 DEF Resting, Ran, InBoundary, Finishes
<1>. QED  BY <1>3, <1>4, <1>5

\* To fail is to stay or to stop.
LEMMA HaltsWalks ==
    ASSUME NEW r, NEW q, NEW s \in Background, Halts(r, q, s)
    PROVE  Walks(r, q)
<1>1. Failing(q, s) => ~Ran(q) /\ ~Finishes(q) /\ q.step_unsubs = {}
  BY WhereItIs
<1>. QED  BY <1>1 DEF Halts, Walks

\* A step that is done is left as it should be.
LEMMA StepsOnWalks ==
    ASSUME NEW r, NEW q, NEW s \in Background, Done(r), StepsOn(r, q, s)
    PROVE  Walks(r, q)
<1>1. /\ Boundary(q, s) => InBoundary(q)
      /\ Finishing(q, s) => Finishes(q)
  BY WhereItIs
<1>. QED  BY <1>1 DEF StepsOn, Walks

\* A transition that goes on stays.
LEMMA BoundaryWalks ==
    ASSUME NEW r, NEW q, NEW s \in Background, Boundary(q, s), q.record = r.record
    PROVE  Walks(r, q)
<1>1. ~Ran(q) /\ ~Finishes(q) /\ q.step_unsubs = {}
  BY WhereItIs
<1>. QED  BY <1>1 DEF Walks

\* p is r but for what its tasks have been told and for handles it may have lost.
Same(r, p) ==
    /\ p.record = r.record /\ p.step_unsubs \subseteq r.step_unsubs
    /\ \A t \in Slots : p.tasks[t].pc = r.tasks[t].pc

LEMMA SameWalks ==
    ASSUME NEW r, NEW p, NEW q, Same(r, p), Walks(p, q)
    PROVE  Walks(r, q)
<1>1. Background \subseteq Slots
  BY Places
<1>2. /\ Ran(p) = Ran(r) /\ Finishes(p) = Finishes(r) /\ InBoundary(p) = InBoundary(r)
      /\ LastStep(p) = LastStep(r) /\ Done(p) = Done(r)
  BY <1>1 DEF Same, Ran, Finishes, InBoundary, LastStep, Done, OverNow, CurrentStep, StepAt
<1>. QED  BY <1>2 DEF Same, Walks

LEMMA StaysWalks ==
    ASSUME NEW r, NEW q, Same(r, q)
    PROVE  Walks(r, q)
<1>1. Background \subseteq Slots
  BY Places
<1>. QED  BY <1>1 DEF Same, Walks, Ran, Finishes

\* _arm_step arms the step, or leaves a preheat that is done.
LEMMA ArmStepWalks ==
    ASSUME NEW r \in Runners, NEW s \in Background, Ready(r, s), Ran(r), r.step_unsubs = {},
           NEW k, k = r.record.step_index, NEW o
    PROVE  Walks(r, ArmStep(r, s, k, o))
<1> DEFINE e == End(r, s)
<1>1. s \in Slots /\ Background \subseteq Slots
  BY Places
<1>2. /\ e \in Runners /\ e.record = r.record /\ e.step_unsubs = {} /\ e.tasks[s].pc = "free"
      /\ \A t \in Slots \ {s} : e.tasks[t] = r.tasks[t]
  BY <1>1, EndType DEF End, NoTask, Runners
<1>3. ~Finishes(e)
  BY <1>1, <1>2 DEF Finishes, Ran, LeavingPcs
<1> HIDE DEF e
<1>4. ASSUME NEW h,
             \A x \in h : x[2] = k /\ StepAt(r, k).kind = IF x[1] = "done" THEN "timed" ELSE "preheat"
      PROVE  Walks(r, [e EXCEPT !.step_unsubs = h])
  <2> DEFINE q == [e EXCEPT !.step_unsubs = h]
  <2>1. q.record = r.record /\ q.step_unsubs = h /\ q.tasks = e.tasks
    BY <1>2 DEF Runners
  <2> HIDE DEF q
  <2>2. HandlersRight(q) /\ ~Finishes(q)
    BY <1>3, <1>4, <2>1 DEF HandlersRight, Finishes, CurrentStep, StepAt
  <2>3. Walks(r, q)
    BY <2>1, <2>2 DEF Walks
  <2>. QED  BY <2>3 DEF q
<1>5. CASE StepAt(r, k).kind = "timed"
  <2>1. ArmStep(r, s, k, o) = [e EXCEPT !.step_unsubs = {<<"done", k>>}]
    <3>1. [e EXCEPT !.step_unsubs = @ \cup {<<"done", k>>}] = [e EXCEPT !.step_unsubs = {<<"done", k>>}]
      BY <1>2
    <3>. QED  BY <1>5, <3>1 DEF ArmStep, e
  <2>. QED  BY <1>4, <1>5, <2>1
<1>6. CASE StepAt(r, k).kind = "preheat" /\ o.heated
  <2> DEFINE q == StepDone(r, s, o)
  <2>1. StepsOn(r, q, s)
    BY StepDoneOrdered
  <2> HIDE DEF q
  <2>2. Done(r)
    BY <1>6 DEF Done, OverNow, CurrentStep
  <2>3. Walks(r, q)
    BY <2>1, <2>2, StepsOnWalks
  <2>. QED  BY <1>6, <2>3 DEF ArmStep, q
<1>7. CASE StepAt(r, k).kind = "preheat" /\ ~o.heated
  <2>1. ArmStep(r, s, k, o) = [e EXCEPT !.step_unsubs = {<<"temperature", k>>, <<"timeout", k>>}]
    BY <1>7 DEF ArmStep, e
  <2>. QED  BY <1>4, <1>7, <2>1
<1>8. CASE StepAt(r, k).kind \notin {"timed", "preheat"}
  <2>1. ArmStep(r, s, k, o) = e
    BY <1>8 DEF ArmStep, e
  <2>2. Walks(r, e)
    BY <1>2, <1>3 DEF Walks, HandlersRight
  <2>. QED  BY <2>1, <2>2
<1>. QED  BY <1>5, <1>6, <1>7, <1>8

\* The same runner has gone as far.
LEMMA SameDone ==
    ASSUME NEW r, NEW p, Same(r, p)
    PROVE  /\ Ran(p) = Ran(r) /\ Finishes(p) = Finishes(r) /\ InBoundary(p) = InBoundary(r)
           /\ LastStep(p) = LastStep(r) /\ Done(p) = Done(r)
<1>1. Background \subseteq Slots
  BY Places
<1>. QED  BY <1>1 DEF Same, Ran, Finishes, InBoundary, LastStep, Done, OverNow, CurrentStep, StepAt

\* What a run that has started a step knows of it.
Known(r) == (Ran(r) => EndsRight(r.record)) /\ HandlersRight(r)

\* A step near its end is done.
LEMMA SlackDone ==
    ASSUME NEW r, Ran(r), Known(r), InSlack(r)
    PROVE  Done(r)
  BY DEF Known, EndsRight, InSlack, Done, OverNow, CurrentStep, StepAt

\* The listeners find a step near its end only while nobody acts on the run.
LEMMA SlackSteady ==
    ASSUME NEW r \in Runners, Ordered(r), Fresh(r), Listening(r), InSlack(r)
    PROVE  Steady(r)
<1> SUFFICES ASSUME NEW t \in Background, Saving(r, t) PROVE FALSE
  BY WhichByHandles
<1>1. Len(r.saves) = 1 /\ r.saves[1].record = r.record
  BY DEF Saving
<1>2. Len(Writes(r)) = 1 /\ Writes(r)[1] = r.record /\ Writes(r) # <<>>
  BY <1>1, WritesType, EmptySeq, LenProperties DEF Writes
<1>. QED  BY <1>2 DEF Fresh, SavesStep, InSlack, HasStep

\* The oven's operation and temperature end a step that is done, or the run.
LEMMA CheckWalks ==
    ASSUME NEW r \in Runners, Ordered(r), Fresh(r), HasSlot(r), Known(r), NEW o
    PROVE  Walks(r, CheckOperation(r, o)) /\ Walks(r, CheckTemperature(r, o))
<1> DEFINE n == NewTask(r)
<1>1. n \in Background /\ r.tasks[n].pc = "free"
  BY NewTaskFree
<1> HIDE DEF n
<1>2. Walks(r, r)
  BY StaysWalks DEF Same
<1>3. Steady(r) => Ready(r, n) /\ Ran(r)
  BY Places, WhereItIsNot DEF Steady, Ready, Beside
<1>4. Walks(r, CheckOperation(r, o))
  <2>1. CASE ~Listening(r) \/ Operation(o) # "idle"
    BY <1>2, <2>1 DEF CheckOperation
  <2>2. CASE Listening(r) /\ Operation(o) = "idle"
    <3>1. InSlack(r) => Walks(r, StepDone(r, n, o))
      BY <1>1, <1>3, <2>2, SlackSteady, SlackDone, StepDoneOrdered, StepsOnWalks
    <3>2. Stoppable(r, n)
      <4>1. Steady(r) \/ \E t \in Background \ {n} : Saving(r, t)
        BY <1>1, <2>2, WhichByHandles DEF Saving
      <4>. QED  BY <1>1, <4>1, RunStoppable
    <3>3. Walks(r, Fail(r, n, FALSE, "return", o))
      BY <1>1, <3>2, FailOrdered, HaltsWalks
    <3>. QED  BY <2>2, <3>1, <3>3 DEF CheckOperation, n
  <2>. QED  BY <2>1, <2>2
<1>5. Walks(r, CheckTemperature(r, o))
  <2>1. CASE ~\E h \in r.step_unsubs : h[1] = "temperature"
    BY <1>2, <2>1 DEF CheckTemperature
  <2>2. CASE \E h \in r.step_unsubs : h[1] = "temperature"
    <3>1. Ready(r, n) /\ Ran(r)
      BY <1>3, <2>2, WhichByHandles
    <3>2. Done(r)
      BY <2>2, <3>1 DEF Known, HandlersRight, Done, OverNow
    <3>3. Walks(r, StepDone(r, n, o))
      BY <1>1, <3>1, <3>2, StepDoneOrdered, StepsOnWalks
    <3>. QED  BY <1>2, <3>3 DEF CheckTemperature, n
  <2>. QED  BY <2>1, <2>2
<1>. QED  BY <1>4, <1>5

\* So do the listeners, whatever they hear.
LEMMA ObserveWalks ==
    ASSUME TypeOK, Ordered(runner), Fresh(runner), Known(runner), Observe
    PROVE  Walks(runner, runner')
<1> DEFINE w == Wake(runner, oven')
<1>1. runner \in Runners /\ w \in Runners
  BY WakeType DEF TypeOK
<1>2. Alike(runner, w) /\ Ordered(w)
  BY <1>1, WakeOrdered
<1> HIDE DEF w
<1>3. Background \subseteq Slots
  BY Places
<1>4. Free(w) = Free(runner) /\ Fresh(w) /\ Same(runner, w)
  BY <1>2, <1>3 DEF Free, Alike, Fresh, SavesStep, Writes, Same
<1>5. Known(w)
  BY <1>2, <1>4, SameDone DEF Known, HandlersRight, CurrentStep, StepAt, Alike
<1>6. \A r : r \in Runners => Same(r, CheckDoor(r, oven'))
  BY DEF Same, CheckDoor, Runners
<1>7. Walks(w, CheckDoor(w, oven')) /\ Walks(runner, CheckDoor(runner, oven'))
  BY <1>1, <1>6, StaysWalks
<1>8. Walks(w, w)
  BY StaysWalks DEF Same
<1>9. CASE OnOperation
  <2>1. HasSlot(w) /\ runner' = CheckOperation(w, oven')
    BY <1>4, <1>9 DEF OnOperation, HasSlot, w
  <2>. QED  BY <1>1, <1>2, <1>4, <1>5, <2>1, CheckWalks, SameWalks
<1>10. CASE OnLinkDrop
  <2>1. runner' = w \/ runner' = CheckDoor(w, oven')
    BY <1>10 DEF OnLinkDrop, w
  <2>. QED  BY <1>4, <1>7, <1>8, <2>1, SameWalks
<1>11. CASE OnDoor
  BY <1>7, <1>11 DEF OnDoor
<1>12. CASE OnRemoteStart
  BY <1>4, <1>12, StaysWalks DEF OnRemoteStart, w
<1>13. CASE OnTemperature
  BY <1>1, <1>13, CheckWalks DEF OnTemperature
<1>. QED  BY <1>9, <1>10, <1>11, <1>12, <1>13 DEF Observe

\* No service call raises, and the oven is never unavailable.
NoFaults == Env \cap {"faults", "offline"} = {}
Linked == oven.link # "offline"

\* What a raised abort press before a step would do: the step is left unstarted.
NoStopRaises == \A s \in Background : Is(s, "stopPress") => ~Raised
LEMMA NothingRaised ==
    ASSUME NoFaults, Linked
    PROVE  NoStopRaises
  BY DEF NoFaults, Linked, Raised, MayRaise, Reachable, NoStopRaises

\* A transition whose await ends goes on or fails, unless its step starts.
LEMMA TransitionWalks ==
    ASSUME NoStopRaises, TypeOK, Ordered(runner), NEW s \in Background,
           \/ StopPress(s) \/ StopWait(s) \/ RemoteWait(s) \/ Dial(s) \/ StartPress(s)
           \/ StartTimesOut(s)
    PROVE  Walks(runner, runner')
<1>1. runner \in Runners /\ s \in Slots /\ 1 \in 0 .. StartAttempts
  BY CountsAssumption, Places DEF TypeOK
<1>2. Boundary(runner, s)
  <2>1. runner.tasks[s].pc \in TransitionPcs
    BY DEF StopPress, StopWait, RemoteWait, Dial, StartPress, StartTimesOut,
           Is, TransitionPcs, Dials
  <2>. QED  BY <1>1, <2>1, WhichByTask
<1>3. Ready(runner, s) /\ Stoppable(runner, s) /\ runner.record.state = "running"
  BY <1>1, <1>2, RunStoppable DEF Boundary
<1>4. ASSUME NEW q, Moved(runner, q, s, TransitionPcs)
      PROVE  Walks(runner, q)
  BY <1>1, <1>2, <1>4, MovedBoundary, BoundaryWalks DEF Boundary, Moved
<1>5. \A o : \A pc \in TransitionPcs : Walks(runner, Wait(runner, s, pc, o))
  BY <1>1, <1>4, WaitMoved
<1>6. \A o : Walks(runner, Fail(runner, s, TRUE, "unlock", o))
  BY <1>1, <1>3, FailOrdered, HaltsWalks
<1>7. \A o : Walks(runner, AttemptFailed(runner, s, o))
  BY <1>1, <1>2, AttemptFailedOrdered, HaltsWalks, BoundaryWalks
<1>8. CASE StopPress(s)
  BY <1>5, <1>8 DEF StopPress, TransitionPcs, NoStopRaises
<1>9. CASE StopWait(s)
  <2>1. \A o : Walks(runner, CheckRemoteStart(runner, s, o))
    BY <1>1, <1>4, CheckRemoteStartMoved
  <2>. QED  BY <1>6, <1>9, <2>1 DEF StopWait
<1>10. CASE RemoteWait(s)
  <2>1. \A o : Walks(runner, Attempt(runner, s, 1, o))
    BY <1>1, <1>4, AttemptMoved
  <2>. QED  BY <1>6, <1>10, <2>1 DEF RemoteWait
<1>11. CASE Dial(s)
  <2>1. \A k, pc : NextDial(runner, k, pc) \in TransitionPcs
    BY DEF NextDial, TransitionPcs
  <2>2. \A k, pc, o : Walks(runner, Issue(runner, s, NextDial(runner, k, pc), o))
    BY <1>1, <1>4, <2>1, IssueMoved
  <2>. QED  BY <1>7, <1>11, <2>2 DEF Dial
<1>12. CASE StartPress(s)
  BY <1>5, <1>7, <1>12 DEF StartPress, TransitionPcs
<1>13. CASE StartTimesOut(s)
  BY <1>7, <1>13 DEF StartTimesOut
<1>. QED  BY <1>8, <1>9, <1>10, <1>11, <1>12, <1>13

\* A restarted run goes on with its step, leaves it when it is done, or fails.
LEMMA RecoverWalks ==
    ASSUME TypeOK, Ordered(runner), Known(runner), NEW s \in Background, RecoverWait(s)
    PROVE  Walks(runner, runner')
<1> DEFINE g == ArmRunGuards(runner)
<1>1. runner \in Runners /\ g \in Runners
  BY ArmRunGuardsType DEF TypeOK
<1>2. Recovering(runner, s)
  BY <1>1, WhichByTask DEF RecoverWait, Is
<1>3. Ready(runner, s) /\ Ran(runner) /\ runner.step_unsubs = {} /\ runner.record.state = "running"
  BY <1>2, WhereItIs DEF Recovering, Ready, InRun
<1>4. /\ g.up = runner.up /\ g.record = runner.record /\ g.tasks = runner.tasks
      /\ g.saves = runner.saves /\ ("due" \in g.unsubs => "due" \in runner.unsubs)
      /\ g.step_unsubs = runner.step_unsubs
  BY <1>1 DEF ArmRunGuards, Runners
<1> HIDE DEF g
<1>5. Ready(g, s) /\ Stoppable(g, s) /\ Stoppable(runner, s) /\ Same(runner, g)
  <2>1. Ready(g, s)
    BY <1>3, <1>4 DEF Ready, InRun, CallsFree, Beside, OnePowerOff
  <2>. QED  BY <1>1, <1>3, <1>4, <2>1, RunStoppable DEF Same
<1>6. Walks(runner, Fail(runner, s, TRUE, "powerOff", oven))
  BY <1>1, <1>3, <1>5, FailOrdered, HaltsWalks
<1>7. Walks(g, Fail(g, s, FALSE, "return", oven))
  BY <1>1, <1>5, FailOrdered, HaltsWalks
<1>8. InSlack(runner) => Walks(g, StepDone(g, s, oven))
  BY <1>1, <1>3, <1>5, SlackDone, SameDone, StepDoneOrdered, StepsOnWalks
<1>9. Walks(g, ArmStep(g, s, g.record.step_index, oven))
  <2>1. Ran(g) /\ g.step_unsubs = {}
    BY <1>3, <1>4, <1>5, SameDone
  <2>. QED  BY <1>1, <1>5, <2>1, ArmStepWalks
<1>. QED  BY <1>5, <1>6, <1>7, <1>8, <1>9, SameWalks DEF RecoverWait, g

\* q is r but for a task, not between steps nor ending the run, that returned or goes on.
LEMMA ReturnWalks ==
    ASSUME NEW r, NEW q, NEW s \in Slots, q.record = r.record, q.step_unsubs = r.step_unsubs,
           r.tasks[s].pc \notin TransitionPcs \cup LeavingPcs, q.tasks[s].pc # "finishPress",
           \A t \in Slots \ {s} : q.tasks[t] = r.tasks[t]
    PROVE  Walks(r, q)
<1>1. Background \subseteq Slots
  BY Places
<1>2. (Ran(q) => Ran(r)) /\ (Finishes(q) => Finishes(r))
  BY <1>1 DEF Ran, Finishes
<1>. QED  BY <1>2 DEF Walks

\* Every await of a background task that ends leaves a run where it is, stops it, or
\* leaves a step that is done; but that its step may start.
LEMMA ResumeWalks ==
    ASSUME NoStopRaises, TypeOK, Ordered(runner), Known(runner),
           NEW s \in Background, Resume(s), ~StepStarts(s)
    PROVE  Walks(runner, runner') /\ begun' = begun
<1>1. runner \in Runners /\ s \in Slots
  BY Places DEF TypeOK
<1>2. CASE FailPress(s)
  <2>1. Failing(runner, s)
    BY <1>1, <1>2, WhichByTask DEF FailPress, Is
  <2>2. runner'.record.state = "failed"
    BY <1>1, <1>2, <2>1, FailedOrdered DEF FailPress, Failing, InRun, Active
  <2>. QED  BY <1>2, <2>2 DEF FailPress, Walks
<1>3. CASE FinishPress(s)
  <2>1. Finishing(runner, s)
    BY <1>1, <1>3, WhichByTask DEF FinishPress, Is
  <2>2. runner'.record.state = "finished" /\ runner'.record.preset = runner.record.preset
    BY <1>1, <1>3, <2>1, FinishedOrdered DEF FinishPress, Finishing
  <2>3. Finishes(runner)
    BY <2>1, WhereItIs
  <2>. QED  BY <1>3, <2>2, <2>3 DEF FinishPress, Walks
<1>4. CASE PowerOff(s)
  <2>1. /\ runner'.record = runner.record /\ runner'.step_unsubs = runner.step_unsubs
        /\ runner'.tasks[s].pc = "free"
        /\ \A t \in Slots \ {s} : runner'.tasks[t] = runner.tasks[t]
    BY <1>1, <1>4 DEF PowerOff, End, NoTask, Runners
  <2>2. runner.tasks[s].pc \notin TransitionPcs \cup LeavingPcs
    BY <1>4 DEF PowerOff, Is, TransitionPcs, LeavingPcs
  <2>. QED  BY <1>1, <1>4, <2>1, <2>2, ReturnWalks DEF PowerOff
<1>5. CASE RecoverWait(s)
  BY <1>5, RecoverWalks DEF RecoverWait
<1>6. ASSUME \/ StopPress(s) \/ StopWait(s) \/ RemoteWait(s) \/ Dial(s) \/ StartPress(s)
             \/ StartTimesOut(s)
      PROVE  begun' = begun
  BY <1>6 DEF StopPress, StopWait, RemoteWait, Dial, StartPress, StartTimesOut
<1>. QED  BY <1>2, <1>3, <1>4, <1>5, <1>6, TransitionWalks DEF Resume

\* A step of the loop that starts from r: a run goes on, or a new one begins.
Advances(r) ==
    \/ Walks(r, runner') /\ begun' = begun
    \/ /\ r.record.state # "running" /\ runner'.record.state = "running" /\ InBoundary(runner')
       /\ begun' = {}

\* _async_begin begins a run, or fails it.
LEMMA BeginAdvances ==
    ASSUME NEW r, NEW p, NEW s, Begins(p, s), r.record.state # "running",
           runner'.record.state \in {"running", "failed"},
           runner'.record.state = "running" => InBoundary(runner')
    PROVE  Advances(r)
  BY DEF Begins, Advances, Walks

\* When a write has landed who waited for it goes on with the run, or begins one.
LEMMA SaveAdvances ==
    ASSUME OneCall, TypeOK, Ordered(runner), Known(runner), Save
    PROVE  Advances(Landed)
<1>1. runner \in Runners /\ runner.saves # <<>> /\ Slots = Background \cup Calls
  BY Places DEF TypeOK, Save, StepSaved, FailSaved, RunNowSaved, LastSaved, Lands, OrphanSaved
<1>2. /\ Landed \in Runners /\ Landed.saves = Tail(runner.saves) /\ Landed.up = runner.up
      /\ Landed.record = runner.record /\ Landed.step_unsubs = runner.step_unsubs
      /\ Landed.unsubs = runner.unsubs /\ Landed.tasks = runner.tasks
  BY <1>1, LandedFacts
<1>3. ASSUME NEW s \in Slots, StepSaved(s) PROVE Advances(Landed)
  <2>1. s \in Background /\ Saving(runner, s)
    BY <1>1, <1>3, WhichByTask, WhichByCall DEF StepSaved, Lands, Is, CallPcs
  <2>2. Landed.saves = <<>>
    <3>1. Len(runner.saves) = 1
      BY <2>1 DEF Saving
    <3>. QED  BY <1>1, <1>2, <3>1, LandedFacts, EmptySeq, WritesType
  <2>3. Ready(Landed, s) /\ Landed.step_unsubs = {}
        /\ runner.tasks[s].step = Landed.record.step_index
    BY <1>2, <2>1, <2>2 DEF Saving, Ready, InRun, CallsFree, Beside, OnePowerOff
  <2>4. Ran(Landed)
    <3>1. Ran(runner)
      BY <2>1, WhereItIs
    <3>. QED  BY <1>2, <3>1 DEF Ran
  <2>5. Walks(Landed, runner')
    BY <1>2, <1>3, <2>1, <2>3, <2>4, ArmStepWalks DEF StepSaved
  <2>. QED  BY <1>3, <2>5 DEF StepSaved, Advances
<1>4. ASSUME NEW s \in Slots, runner.tasks[s].pc \in SavePcs,
             runner' \in {End(Landed, s), At(Landed, s, "powerOff")}
                         \cup {[End(Landed, s) EXCEPT !.transitioning = v] : v \in BOOLEAN}
      PROVE  Walks(Landed, runner')
  <2>1. /\ runner'.record = Landed.record /\ runner'.step_unsubs = Landed.step_unsubs
        /\ runner'.tasks[s].pc \in {"free", "powerOff"}
        /\ \A t \in Slots \ {s} : runner'.tasks[t] = Landed.tasks[t]
    <3> DEFINE e == End(Landed, s)
    <3>1. /\ e \in Runners /\ e.record = Landed.record /\ e.step_unsubs = Landed.step_unsubs
          /\ e.tasks[s].pc = "free" /\ \A t \in Slots \ {s} : e.tasks[t] = Landed.tasks[t]
      <4>1. Landed \in Runners
        BY <1>2
      <4>2. e \in Runners
        BY <4>1, EndType
      <4>. QED  BY <4>1, <4>2 DEF End, NoTask, Runners
    <3> HIDE DEF e
    <3>2. ASSUME NEW v \in BOOLEAN, runner' = [e EXCEPT !.transitioning = v]
          PROVE  /\ runner'.record = e.record /\ runner'.step_unsubs = e.step_unsubs
                 /\ runner'.tasks = e.tasks
      BY <3>1, <3>2 DEF Runners
    <3>3. CASE runner' = At(Landed, s, "powerOff")
      BY <1>2, <3>3 DEF At, Runners, Tasks
    <3>. QED  BY <1>4, <3>1, <3>2, <3>3 DEF e
  <2>2. Landed.tasks[s].pc \notin TransitionPcs \cup LeavingPcs
    BY <1>2, <1>4 DEF SavePcs, TransitionPcs, LeavingPcs
  <2>. QED  BY <2>1, <2>2, ReturnWalks
<1>5. ASSUME NEW s \in Slots, FailSaved(s) PROVE Advances(Landed)
  <2>1. runner.tasks[s].pc \in SavePcs
    BY <1>5 DEF FailSaved, Lands, Is, SavePcs
  <2>2. (Landed.transitioning /\ runner.tasks[s].after # "unlock") \in BOOLEAN
    OBVIOUS
  <2>3. End(Landed, s).transitioning = Landed.transitioning
    BY <1>2 DEF End, Runners
  <2>4. runner' \in {End(Landed, s), At(Landed, s, "powerOff")}
                    \cup {[End(Landed, s) EXCEPT !.transitioning = v] : v \in BOOLEAN}
    BY <1>5, <2>2, <2>3 DEF FailSaved
  <2>. QED  BY <1>4, <1>5, <2>1, <2>4 DEF FailSaved, Advances
<1>6. ASSUME NEW s \in Slots, LastSaved(s) PROVE Advances(Landed)
  <2>1. runner.tasks[s].pc \in SavePcs
    BY <1>6 DEF LastSaved, Lands, Is, SavePcs
  <2>. QED  BY <1>4, <1>6, <2>1 DEF LastSaved, Advances
<1>7. ASSUME NEW s \in Slots, RunNowSaved(s) PROVE Advances(Landed)
  <2>1. /\ runner'.record.state \in {"running", "failed"}
        /\ runner'.record.state = "running" => InBoundary(runner')
    BY <1>7, RunNowSavedOrdered
  <2>2. Landed.record.state # "running"
    <3>1. s \in Calls /\ runner.tasks[s].pc = "runNowSave"
      BY <1>1, <1>7, WhichByTask DEF RunNowSaved, Lands, Is
    <3>. QED  BY <1>1, <1>2, <3>1, WhichByCall DEF Resting
  <2>. QED  BY <1>7, <2>1, <2>2, BeginAdvances DEF RunNowSaved
<1>8. CASE OrphanSaved
  <2>1. Walks(Landed, Landed)
    BY StaysWalks DEF Same
  <2>. QED  BY <1>8, <2>1 DEF OrphanSaved, Advances
<1>. QED  BY <1>3, <1>5, <1>6, <1>7, <1>8 DEF Save

\* A service call asks for a schedule, or stops what is going on.
LEMMA CommandAdvances ==
    ASSUME OneCall, TypeOK, Ordered(runner), Ordered(runner'), TypeOK', Command
    PROVE  Advances(runner)
<1>1. PICK c \in Calls :
         \/ \E p \in Presets, later \in BOOLEAN : CallRun(c, p, later)
         \/ CallAbort(c) \/ AbortPress(c)
  BY DEF Command
<1>2. runner \in Runners /\ runner' \in Runners /\ c \in Slots
  BY Places DEF TypeOK
<1>3. begun' = begun
  BY <1>1 DEF CallRun, CallAbort, AbortPress
<1>4. CASE \E p \in Presets, later \in BOOLEAN : CallRun(c, p, later)
  <2>1. PICK p \in Presets, later \in BOOLEAN : CallRun(c, p, later)
    BY <1>4
  <2>2. runner'.record.state = "scheduled"
    <3> DEFINE record == [NoRecord EXCEPT !.state = "scheduled", !.preset = p]
    <3>1. record.state = "scheduled"
      BY DEF NoRecord
    <3> HIDE DEF record
    <3>2. \A x, pc : [runner EXCEPT !.record = record, !.unsubs = x].record = record
      BY <1>2 DEF Runners
    <3>3. \/ runner' = Commit([[runner EXCEPT !.record = record] EXCEPT !.unsubs = @ \cup {"due"}],
                              c, "runSave")
          \/ runner' = Commit([runner EXCEPT !.record = record], c, "runNowSave")
      BY <2>1 DEF CallRun, record
    <3>4. runner'.record = record
      BY <1>2, <3>3 DEF Commit, At, Runners
    <3>. QED  BY <3>1, <3>4
  <2>. QED  BY <1>3, <2>2 DEF Advances, Walks
<1>5. CASE AbortPress(c)
  <2>1. runner'.record.state = "idle"
    <3> DEFINE record == [runner.record EXCEPT !.state = "idle"]
    <3>1. record.state = "idle"
      BY <1>2 DEF Runners, Records
    <3>2. runner' = Commit([runner EXCEPT !.record = record], c, "abortSave")
      <4>1. [runner EXCEPT !.record.state = "idle"] = [runner EXCEPT !.record = record]
        BY <1>2 DEF Runners
      <4>. QED  BY <1>5, <4>1 DEF AbortPress, Aborted
    <3> HIDE DEF record
    <3>. QED  BY <1>2, <3>1, <3>2 DEF Commit, At, Runners
  <2>. QED  BY <1>3, <2>1 DEF Advances, Walks
<1>6. CASE CallAbort(c) /\ runner.record.state = "running" /\ Busy(oven)
  <2> DEFINE h == ClearHandlers(CancelTasks(runner, Nobody))
             q == [h EXCEPT !.transitioning = FALSE]
  <2>1. runner' = At(q, c, "abortPress")
    BY <1>6 DEF CallAbort
  <2>2. h \in Runners /\ h.record = runner.record
    <3>1. CancelTasks(runner, Nobody) \in Runners /\ CancelTasks(runner, Nobody).record = runner.record
      BY <1>2, Places, CancelType, CancelFacts DEF CancelTasks, Cancelled
    <3> HIDE DEF h
    <3>. QED  BY <3>1, ClearHandlersType DEF ClearHandlers, ClearStepHandlers, Runners, h
  <2> HIDE DEF h
  <2>3. runner'.record = runner.record /\ runner'.tasks[c].pc = "abortPress"
    BY <1>2, <2>1, <2>2 DEF At, Runners, Tasks
  <2>4. Aborting(runner')
    BY <1>2, <2>3, WhichByCall
  <2>5. ~Ran(runner') /\ ~Finishes(runner') /\ runner'.step_unsubs = {}
    BY <2>4, WhereItIsNot
  <2>. QED  BY <1>3, <2>3, <2>5 DEF Advances, Walks
<1>7. CASE CallAbort(c) /\ ~(runner.record.state = "running" /\ Busy(oven))
  <2>1. runner'.record.state \in {"running", "idle"} /\ runner'.record.state \notin Active
    BY <1>2, <1>7, CallAbortOrdered, CallAbortStops
  <2>. QED  BY <1>3, <2>1 DEF Advances, Walks, Active
<1>. QED  BY <1>1, <1>4, <1>5, <1>6, <1>7

\* A timer begins a run, ends a step that is done, or fails the run.
LEMMA TimerAdvances ==
    ASSUME TypeOK, Ordered(runner), Written, Known(runner), Timer
    PROVE  Advances(runner)
<1> DEFINE n == NewTask(runner)
<1>1. /\ runner \in Runners /\ n \in Background /\ runner.tasks[n].pc = "free"
  BY NewTaskFree
     DEF TypeOK, Timer, StartComes, StepTimer, PreheatTimeout, MaxReached, DoorGraceOver
<1> HIDE DEF n
<1>2. Steady(runner) => Ready(runner, n) /\ Ran(runner)
  BY Places, WhereItIsNot DEF Steady, Ready, Beside
<1>3. \A t \in Background : Saving(runner, t) \/ Boundary(runner, t) => t # n
  BY <1>1 DEF Saving, Boundary, TransitionPcs
<1>4. CASE StepTimer
  <2>1. PICK h \in runner.step_unsubs :
           /\ h[1] = "done" /\ clock.step[h[2]] = "over"
           /\ runner' = StepDone([runner EXCEPT !.step_unsubs = @ \ {h}], n, oven)
    BY <1>4 DEF StepTimer, n
  <2> DEFINE q == [runner EXCEPT !.step_unsubs = @ \ {h}]
  <2>2. /\ q \in Runners /\ q.up = runner.up /\ q.record = runner.record
        /\ q.unsubs = runner.unsubs /\ q.tasks = runner.tasks /\ q.saves = runner.saves
        /\ q.step_unsubs \subseteq runner.step_unsubs
    BY <1>1 DEF Runners
  <2> HIDE DEF q
  <2>3. Ready(runner, n) /\ Ran(runner)
    BY <1>1, <1>2, WhichByHandles
  <2>4. Ready(q, n) /\ Same(runner, q)
    BY <2>2, <2>3 DEF Ready, InRun, CallsFree, Beside, OnePowerOff, Same
  <2>5. Done(q)
    <3>1. OverNow(runner)
      BY <2>1 DEF Known, HandlersRight, OverNow
    <3>. QED  BY <2>3, <2>4, <3>1, SameDone DEF Done
  <2>6. Walks(q, runner')
    BY <1>1, <2>1, <2>2, <2>4, <2>5, StepDoneOrdered, StepsOnWalks DEF q
  <2>. QED  BY <1>4, <2>4, <2>6, SameWalks DEF StepTimer, Advances
<1>5. CASE PreheatTimeout
  <2>1. runner' = Fail(runner, n, TRUE, "return", oven) /\ runner.step_unsubs # {}
    BY <1>5 DEF PreheatTimeout, n
  <2>2. Stoppable(runner, n) /\ runner.record.state = "running"
    BY <1>1, <2>1, WhichByHandles, RunStoppable
  <2>3. Walks(runner, runner')
    BY <1>1, <2>1, <2>2, FailOrdered, HaltsWalks
  <2>. QED  BY <1>5, <2>3 DEF PreheatTimeout, Advances
<1>6. CASE MaxReached
  <2>1. runner' = Fail(runner, n, TRUE, "powerOff", oven) /\ "max" \in runner.unsubs
    BY <1>6 DEF MaxReached, n
  <2>2. Stoppable(runner, n) /\ runner.record.state = "running"
    BY <1>1, <1>3, <2>1, WhichByHandles, RunStoppable
  <2>3. Walks(runner, runner')
    BY <1>1, <2>1, <2>2, FailOrdered, HaltsWalks
  <2>. QED  BY <1>6, <2>3 DEF MaxReached, Advances
<1>7. CASE DoorGraceOver
  <2> DEFINE q == [runner EXCEPT !.door_timer = FALSE]
  <2>1. runner' = Fail(q, n, TRUE, "return", oven) /\ runner.door_timer
    BY <1>7 DEF DoorGraceOver, n
  <2>2. Stoppable(runner, n) /\ runner.record.state = "running"
    BY <1>1, <1>3, <2>1, WhichByHandles, RunStoppable
  <2>3. /\ q \in Runners /\ q.up = runner.up /\ q.record = runner.record
        /\ q.tasks = runner.tasks /\ q.saves = runner.saves
        /\ q.step_unsubs = runner.step_unsubs
    BY <1>1 DEF Runners
  <2> HIDE DEF q
  <2>4. Stoppable(q, n) /\ q.record.state = "running" /\ Same(runner, q)
    BY <2>2, <2>3 DEF Stoppable, CallsFree, Same
  <2>5. Walks(q, runner')
    BY <1>1, <2>1, <2>3, <2>4, FailOrdered, HaltsWalks
  <2>. QED  BY <1>7, <2>4, <2>5, SameWalks DEF DoorGraceOver, Advances
<1>8. CASE StartComes
  <2>1. runner.record.state = "scheduled"
    BY <1>1, <1>8, WhichByHandles DEF StartComes
  <2>. QED  BY <1>8, <2>1, StartOrdered, BeginAdvances DEF StartComes
<1>. QED  BY <1>4, <1>5, <1>6, <1>7, <1>8 DEF Timer

\* A restart goes on from the record that was saved.
LEMMA SetupAdvances ==
    ASSUME TypeOK, Ordered(runner), Sound(disk), Setup
    PROVE  Advances(Loaded)
<1> DEFINE n == NewTask(runner)
           l == Loaded
<1>1. n \in Background /\ ~runner.up
  BY NewTaskFree DEF Setup, SetupInactive, SetupRunning, SetupScheduled
<1>2. Slots = Background \cup Calls /\ Nobody \notin Slots /\ Background \cap Calls = {}
  BY Places
<1> HIDE DEF n
<1>3. /\ l \in Runners /\ l.up /\ l.record = disk /\ l.step_unsubs = {}
      /\ l.saves = <<>> /\ \A t \in Slots : l.tasks[t].pc = "free"
  BY <1>1, LoadedFacts
<1> HIDE DEF l
<1>4. CASE SetupInactive
  <2>1. Walks(l, l)
    BY StaysWalks DEF Same
  <2>. QED  BY <1>4, <2>1 DEF SetupInactive, Advances, l
<1>5. CASE SetupRunning
  <2> DEFINE q == Wait(l, n, "recoverWait", oven)
  <2>1. Moved(l, q, n, {"recoverWait"})
    BY <1>1, <1>2, <1>3, WaitMoved
  <2> HIDE DEF q
  <2>2. Walks(l, q)
    <3>1. l.tasks[n].pc \notin TransitionPcs \cup LeavingPcs
      BY <1>1, <1>2, <1>3 DEF TransitionPcs, LeavingPcs
    <3>. QED  BY <1>1, <1>2, <2>1, <3>1, ReturnWalks DEF Moved
  <2>. QED  BY <1>5, <2>2 DEF SetupRunning, Advances, l, q, n
<1>6. CASE SetupScheduled
  <2>1. disk.state = "scheduled"
    BY <1>6 DEF SetupScheduled
  <2>2. CASE clock.start = "future"
    <3> DEFINE q == [l EXCEPT !.unsubs = {"due"}]
    <3>1. Same(l, q)
      BY <1>3 DEF Same, Runners
    <3>2. Walks(l, q)
      BY <3>1, StaysWalks
    <3>. QED  BY <1>6, <2>2, <3>2 DEF SetupScheduled, Advances, l
  <2>3. CASE clock.start = "due"
    <3>1. Begins(l, n)
      BY <1>6, <2>3 DEF SetupScheduled, l, n
    <3>2. /\ runner'.record.state \in {"running", "failed"}
          /\ runner'.record.state = "running" => InBoundary(runner')
      <4>1. PICK home : runner' = Begin(l, n, oven, home)
        BY <3>1 DEF Begins
      <4>2. Startable(l, n)
        <5>1. CallsFree(l) /\ OnePowerOff(l) /\ Beside(l, n)
          BY <1>2, <1>3 DEF CallsFree, OnePowerOff, Beside
        <5>2. "due" \notin l.unsubs
          BY <1>1, LoadedFacts DEF l
        <5>. QED  BY <1>3, <2>1, <5>1, <5>2 DEF Startable
      <4>. QED  BY <1>1, <1>3, <4>1, <4>2, BeginOrdered DEF Boundary, InBoundary
    <3>. QED  BY <1>3, <2>1, <3>1, <3>2, BeginAdvances DEF l
  <2>4. CASE clock.start = "missed"
    <3>1. runner'.record.state = "failed" /\ begun' = begun
      <4>1. runner' = Fail(l, n, FALSE, "return", oven) /\ begun' = begun
        BY <1>6, <2>4 DEF SetupScheduled, l, n
      <4>2. DOMAIN l.saves = {}
        BY <1>3
      <4>3. Stoppable(l, n)
        BY <1>2, <1>3, <2>1, <4>2 DEF Stoppable, Active, CallsFree
      <4>. QED  BY <1>1, <1>3, <4>1, <4>3, FailOrdered
    <3>. QED  BY <3>1 DEF Advances, Walks
  <2>5. clock.start \in {"future", "due", "missed"}
    BY DEF TypeOK, Clocks
  <2>. QED  BY <2>2, <2>3, <2>4, <2>5
<1>. QED  BY <1>4, <1>5, <1>6 DEF Setup

-----------------------------------------------------------------------------
(* The steps the oven was seen running.                                    *)

\* What a record says of the steps b that were seen running.
Told(record, b) ==
    /\ record.state = "running" =>
          /\ EndsRight(record)
          /\ 1 .. record.step_index \subseteq b /\ b \subseteq 1 .. Len(record.preset)
    /\ record.state = "finished" => b = 1 .. Len(record.preset)

\* What the runner object says of them.
Progress(r, b) ==
    /\ r.record.state = "running" => b \subseteq 1 .. Len(r.record.preset)
    /\ Ran(r) => EndsRight(r.record) /\ 1 .. r.record.step_index \subseteq b
    /\ InBoundary(r) => 1 .. (r.record.step_index - 1) \subseteq b
    /\ Finishes(r) => LastStep(r) /\ 1 .. r.record.step_index \subseteq b /\ OverNow(r)
    /\ r.record.state = "finished" => b = 1 .. Len(r.record.preset)
    /\ HandlersRight(r)

\* What is stored, and asked to be written, says of them; and it is of the runner's run.
Kept(saved, r, b) ==
    /\ Told(saved, b) /\ \A i \in DOMAIN Writes(r) : Told(Writes(r)[i], b)
    /\ Youngest(saved, Writes(r)).preset = r.record.preset

\* Going on does not change the record but as it says.
LEMMA GoesRecord ==
    ASSUME NEW r \in Runners, NEW q \in Runners, Goes(r, q)
    PROVE  /\ q.record = r.record => (InBoundary(q) => InBoundary(r)) /\ Writes(q) = Writes(r)
           /\ r.record.state = "running" /\ q.record.state = "running" =>
                 /\ q.record.preset = r.record.preset /\ Writes(q) = Writes(r)
                 /\ \/ q.record = r.record
                    \/ q.record.step_index = r.record.step_index + 1
           /\ r.record.state # "running" /\ q.record.state = "running" =>
                 /\ q.record.preset = r.record.preset /\ Writes(q) = Writes(r)
                 /\ r.record.state = "scheduled" /\ q.record.step_index = 1
<1>1. /\ r.record \in Records /\ q.record \in Records
      /\ r.record.step_index \in Int /\ q.record.step_index \in Int
  BY BoundsAssumption DEF Runners, Records
<1>2. CASE Quietly(r, q) /\ Writes(q) = Writes(r)
  <2>1. CASE q.record = r.record /\ (InBoundary(q) => InBoundary(r))
    BY <1>2, <2>1
  <2>2. CASE /\ r.record.state = "scheduled"
             /\ q.record = [r.record EXCEPT !.state = "running", !.step_index = 1]
    BY <1>1, <1>2, <2>2 DEF Records
  <2>3. CASE /\ r.record.state = "running"
             /\ q.record = [r.record EXCEPT !.step_index = @ + 1]
    <3>1. /\ q.record.step_index = r.record.step_index + 1
          /\ q.record.preset = r.record.preset
      BY <1>1, <2>3 DEF Records
    <3>2. q.record # r.record
      BY <1>1, <3>1
    <3>. QED  BY <1>2, <2>3, <3>1, <3>2
  <2>. QED  BY <1>2, <2>1, <2>2, <2>3 DEF Quietly
<1>3. CASE Asking(r, q)
  BY <1>1, <1>3 DEF Asking, Active
<1>. QED  BY <1>2, <1>3 DEF Goes

\* A run that goes on keeps to the steps that were seen running.
LEMMA WalkProgress ==
    ASSUME NEW r \in Runners, NEW q \in Runners, NEW b, Goes(r, q), Walks(r, q),
           InBoundary(r) \/ Finishes(r) => r.record.state = "running",
           Ordered(q), Progress(r, b)
    PROVE  Progress(q, b)
<1>1. /\ InBoundary(q) => \E s \in Background : Boundary(q, s)
      /\ Finishes(q) => \E s \in Background : Finishing(q, s)
  BY WhichByTask DEF InBoundary, Finishes
<1>2. \A s \in Background : Boundary(q, s) \/ Finishing(q, s) => q.record.state = "running"
  BY DEF Boundary, Finishing, Ready, InRun
<1>4. q.record.state # "running" => q.step_unsubs = {}
  BY WhichByHandles DEF Resting
<1>5. Ran(r) => r.record.state = "running" /\ ~InBoundary(r)
  BY Places DEF Ran, InBoundary
<1>6. Ran(q) => q.record.state = "running"
  BY DEF Ran
<1>7. CASE /\ q.record = r.record /\ q.step_unsubs \subseteq r.step_unsubs
           /\ Ran(q) => Ran(r)
           /\ Finishes(q) => Finishes(r)
  <2>1. InBoundary(q) => InBoundary(r)
    BY <1>7, GoesRecord
  <2>. QED  BY <1>7, <2>1
            DEF Progress, HandlersRight, CurrentStep, StepAt, LastStep, OverNow
<1>8. CASE q.record.state \notin {"running", "finished"}
  BY <1>1, <1>2, <1>4, <1>6, <1>8 DEF Progress, HandlersRight
<1>9. CASE Done(r) /\ InBoundary(q)
  <2>1. PICK s \in Background : Boundary(q, s)
    BY <1>1, <1>9
  <2>2. ~Ran(q) /\ ~Finishes(q) /\ q.step_unsubs = {} /\ q.record.state = "running"
    BY <1>2, <2>1, WhereItIs
  <2>3. Ran(r) /\ r.record.state = "running" /\ ~InBoundary(r)
    BY <1>5, <1>9 DEF Done
  <2>4. q.record.step_index = r.record.step_index + 1 /\ q.record.preset = r.record.preset
    BY <1>9, <2>2, <2>3, GoesRecord
  <2>5. r.record.step_index \in Int
    BY BoundsAssumption DEF Runners, Records
  <2>6. q.record.step_index - 1 = r.record.step_index
    BY <2>4, <2>5
  <2>. QED  BY <2>2, <2>3, <2>4, <2>6 DEF Progress, HandlersRight
<1>10. CASE /\ (Done(r) /\ LastStep(r)) \/ Finishes(r)
            /\ \/ Finishes(q) /\ q.record = r.record
               \/ q.record.state = "finished" /\ q.record.preset = r.record.preset
  <2>1. LastStep(r) /\ 1 .. r.record.step_index \subseteq b /\ OverNow(r)
    BY <1>10 DEF Done, Progress
  <2>2. r.record.state = "running" /\ b \subseteq 1 .. Len(r.record.preset)
    BY <1>5, <1>10 DEF Done, Progress
  <2>3. CASE Finishes(q) /\ q.record = r.record
    <3>1. ~Ran(q) /\ ~InBoundary(q) /\ q.step_unsubs = {}
      BY <1>1, <2>3, WhereItIs
    <3>2. LastStep(q) /\ OverNow(q)
      BY <2>1, <2>3 DEF LastStep, OverNow, CurrentStep, StepAt
    <3>. QED  BY <2>1, <2>2, <2>3, <3>1, <3>2 DEF Progress, HandlersRight
  <2>4. CASE q.record.state = "finished" /\ q.record.preset = r.record.preset
    <3>1. ~Ran(q) /\ ~InBoundary(q) /\ ~Finishes(q) /\ q.step_unsubs = {}
      BY <1>1, <1>2, <1>4, <1>6, <2>4
    <3>2. b = 1 .. Len(q.record.preset)
      BY <2>1, <2>2, <2>4 DEF LastStep
    <3>. QED  BY <2>4, <3>1, <3>2 DEF Progress, HandlersRight
  <2>. QED  BY <1>10, <2>3, <2>4
<1>11. CASE Ran(r) /\ q.record = r.record /\ ~Finishes(q) /\ HandlersRight(q)
  <2>1. ~InBoundary(q) /\ r.record.state = "running"
    BY <1>5, <1>11, GoesRecord
  <2>. QED  BY <1>11, <2>1 DEF Progress
<1>. QED  BY <1>7, <1>8, <1>9, <1>10, <1>11 DEF Walks

\* Then what it asks to be written says so.
LEMMA WalkKept ==
    ASSUME NEW r \in Runners, NEW q \in Runners, NEW saved \in Records, NEW b,
           Goes(r, q), Walks(r, q), Kept(saved, r, b), Progress(q, b)
    PROVE  Kept(saved, q, b)
<1>1. q.record \in Records /\ r.record \in Records
  BY DEF Runners
<1>2. CASE Quietly(r, q) /\ Writes(q) = Writes(r)
  <2>1. q.record.preset = r.record.preset
    BY <1>1, <1>2 DEF Quietly, Records
  <2>. QED  BY <1>2, <2>1 DEF Kept
<1>3. CASE Asking(r, q) /\ Writes(q) = Append(Writes(r), q.record)
  <2>1. /\ Writes(r) \in Seq(Records) /\ Writes(q) \in Seq(Records)
    BY WritesType
  <2>2. /\ Len(Writes(q)) = Len(Writes(r)) + 1 /\ Len(Writes(r)) \in Nat
        /\ \A i \in 1 .. Len(Writes(r)) : Writes(q)[i] = Writes(r)[i]
        /\ Writes(q)[Len(Writes(r)) + 1] = q.record
        /\ DOMAIN Writes(q) = 1 .. (Len(Writes(r)) + 1)
        /\ DOMAIN Writes(r) = 1 .. Len(Writes(r))
    BY <1>1, <1>3, <2>1, AppendProperties, LenProperties
  <2>3. Youngest(saved, Writes(q)) = q.record
    BY <2>2, EmptySeq DEF Youngest
  <2>4. Told(q.record, b)
    BY <1>3 DEF Asking, Told, Progress
  <2>5. \A i \in DOMAIN Writes(q) : i = Len(Writes(r)) + 1 \/ i \in DOMAIN Writes(r)
    BY <2>2
  <2>6. \A i \in DOMAIN Writes(q) : Told(Writes(q)[i], b)
    BY <2>2, <2>4, <2>5 DEF Kept
  <2>. QED  BY <2>3, <2>6 DEF Kept
<1>. QED  BY <1>2, <1>3 DEF Goes

\* A run that begins has seen nothing yet, and what is stored is its schedule.
LEMMA BeginKept ==
    ASSUME NEW r \in Runners, NEW q \in Runners, NEW saved \in Records, NEW b,
           Goes(r, q), Stored(saved, r), Kept(saved, r, b), Ordered(q),
           r.record.state # "running", q.record.state = "running", InBoundary(q)
    PROVE  Kept(saved, q, {}) /\ Progress(q, {})
<1>1. PICK s \in Background : Boundary(q, s)
  BY WhichByTask DEF InBoundary
<1>2. /\ q.record.preset = r.record.preset /\ Writes(q) = Writes(r)
      /\ r.record.state = "scheduled" /\ q.record.step_index = 1 /\ r.up
  BY GoesRecord DEF Goes
<1>3. Writes(r) = <<>> /\ DOMAIN Writes(q) = {}
  <2>1. Writes(q) = <<>>
    BY <1>1, WritesType DEF Boundary, Ready
  <2>. QED  BY <1>2, <2>1
<1>4. saved.state = "scheduled"
  BY <1>2, <1>3 DEF Stored, Youngest, Keeps
<1>5. Kept(saved, q, {})
  BY <1>2, <1>3, <1>4 DEF Kept, Told, Youngest
<1>6. ~Ran(q) /\ ~Finishes(q) /\ q.step_unsubs = {}
  BY <1>1, WhereItIs
<1>7. 1 .. (q.record.step_index - 1) = {}
  BY <1>2
<1>. QED  BY <1>5, <1>6, <1>7 DEF Progress, HandlersRight

\* Either way the runner and what is stored agree on the steps that were seen.
LEMMA AdvanceKept ==
    ASSUME NEW r \in Runners, runner' \in Runners, NEW saved \in Records,
           Goes(r, runner'), Advances(r), Stored(saved, r), Ordered(runner'),
           InBoundary(r) \/ Finishes(r) => r.record.state = "running",
           Kept(saved, r, begun), Progress(r, begun)
    PROVE  Kept(saved, runner', begun') /\ Progress(runner', begun')
  BY WalkProgress, WalkKept, BeginKept DEF Advances

\* A step that starts has been seen running, and its record is on its way to the disk.
LEMMA StartsRight ==
    ASSUME TypeOK, TypeOK', Ordered(runner), Ordered(runner'), NEW s \in Background,
           StepStarts(s)
    PROVE  /\ Boundary(runner, s) /\ Saving(runner', s)
           /\ EndsRight(runner'.record) /\ runner'.step_unsubs = {}
           /\ runner'.record.preset = runner.record.preset
           /\ runner'.record.step_index = runner.record.step_index
           /\ begun' = begun \cup {runner.record.step_index}
           /\ Writes(runner) = <<>> /\ Writes(runner') = <<runner'.record>>
<1> DEFINE k == runner.tasks[s].step
           q == [runner EXCEPT !.transitioning = FALSE]
           ends == IF StepAt(q, k).kind = "hold" THEN 0 ELSE k
           p == [q EXCEPT !.record.ends = ends]
           c == Commit(p, s, "stepSave")
           record == [runner.record EXCEPT !.ends = ends]
<1>1. runner \in Runners /\ runner' \in Runners /\ s \in Slots
  BY Places DEF TypeOK
<1>2. Boundary(runner, s)
  <2>1. runner.tasks[s].pc \in TransitionPcs
    BY DEF StepStarts, Is, TransitionPcs
  <2>. QED  BY <1>1, <2>1, WhichByTask
<1>3. /\ runner.record.state = "running" /\ k = runner.record.step_index
      /\ runner.saves = <<>> /\ runner.record \in Records
  BY <1>1, <1>2 DEF Boundary, Ready, InRun, Runners
<1>4. ends = IF runner.record.preset[k].kind = "hold" THEN 0 ELSE k
  BY <1>1 DEF StepAt, Runners
<1>5. ends \in 0 .. MaxSteps
  BY <1>1, BoundsAssumption DEF Runners, Tasks
<1>6. runner' = c /\ begun' = begun \cup {k}
  BY <1>3 DEF StepStarts
<1> HIDE DEF ends
<1>7. record \in Records
  BY <1>3, <1>5 DEF Records
<1>8. /\ p.record = record /\ p.saves = runner.saves /\ p \in Runners
      /\ p.step_unsubs = runner.step_unsubs
  <2>1. p = [runner EXCEPT !.transitioning = FALSE, !.record = record]
    BY <1>1 DEF Runners
  <2> HIDE DEF p, record
  <2>. QED  BY <1>1, <1>7, <2>1 DEF Runners
<1>9. /\ record.step_index = k /\ record.preset = runner.record.preset /\ record.ends = ends
  BY <1>3 DEF Records
<1> HIDE DEF p, record
<1>10. Asked(p, c, s, "stepSave")
  <2>1. "stepSave" \in Pcs
    BY DEF Pcs, TaskPcs
  <2>. QED  BY <1>1, <1>8, <2>1, CommitWrites
<1> HIDE DEF c
<1>11. Saving(runner', s)
  <2>1. runner'.tasks[s].pc = "stepSave"
    BY <1>6, <1>10 DEF Asked
  <2>. QED  BY <1>1, <2>1, WhichByTask
<1>12. runner'.record = record
  BY <1>6, <1>8, <1>10 DEF Asked
<1>13. EndsRight(runner'.record)
  BY <1>4, <1>9, <1>12 DEF EndsRight
<1>14. runner'.step_unsubs = {}
  BY <1>11 DEF Saving
<1>15. Writes(runner) = <<>> /\ Writes(runner') = <<runner'.record>>
  <2>1. Writes(runner) = <<>> /\ Writes(p) = <<>>
    BY <1>1, <1>3, <1>8, WritesType
  <2>2. Writes(runner') = Append(Writes(p), runner'.record)
    BY <1>6, <1>10 DEF Asked
  <2>. QED  BY <2>1, <2>2
<1>. QED  BY <1>2, <1>3, <1>6, <1>9, <1>11, <1>12, <1>13, <1>14, <1>15

\* So what is asked to be written still says what was seen.
LEMMA StartKept ==
    ASSUME TypeOK, TypeOK', Ordered(runner), Ordered(runner'), NEW s \in Background,
           StepStarts(s), Kept(disk, runner, begun), Progress(runner, begun)
    PROVE  Kept(disk, runner', begun') /\ Progress(runner', begun')
<1> DEFINE k == runner.record.step_index
<1>1. /\ Boundary(runner, s) /\ Saving(runner', s)
      /\ EndsRight(runner'.record) /\ runner'.step_unsubs = {}
      /\ runner'.record.preset = runner.record.preset /\ runner'.record.step_index = k
      /\ begun' = begun \cup {k}
      /\ Writes(runner) = <<>> /\ Writes(runner') = <<runner'.record>>
  BY StartsRight
<1>2. /\ runner.record.state = "running" /\ k \in 1 .. Len(runner.record.preset) /\ k \in Int
      /\ runner'.record.state = "running"
  <2>1. k \in Int
    BY BoundsAssumption DEF TypeOK, Runners, Records
  <2>. QED  BY <1>1, <2>1 DEF Boundary, Saving, Ready, InRun, Sound
<1>3. 1 .. (k - 1) \subseteq begun /\ begun \subseteq 1 .. Len(runner.record.preset)
  <2>1. InBoundary(runner)
    BY <1>1, WhereItIs
  <2>. QED  BY <1>2, <2>1 DEF Progress
<1>4. 1 .. k \subseteq begun' /\ begun' \subseteq 1 .. Len(runner.record.preset)
  BY <1>1, <1>2, <1>3
<1>5. Told(runner'.record, begun')
  BY <1>1, <1>2, <1>4 DEF Told
<1>6. Told(disk, begun')
  <2>1. disk.preset = runner.record.preset /\ Told(disk, begun)
    BY <1>1 DEF Kept, Youngest
  <2>. QED  BY <1>1, <1>2, <1>4, <2>1 DEF Told
<1>7. Kept(disk, runner', begun')
  <2>1. /\ \A i \in DOMAIN Writes(runner') : Writes(runner')[i] = runner'.record
        /\ Len(Writes(runner')) = 1 /\ Writes(runner')[1] = runner'.record
        /\ Writes(runner') # <<>>
    BY <1>1
  <2>2. Youngest(disk, Writes(runner')) = runner'.record
    BY <2>1 DEF Youngest
  <2>. QED  BY <1>5, <1>6, <2>1, <2>2 DEF Kept
<1>8. Progress(runner', begun')
  <2>1. ~InBoundary(runner') /\ ~Finishes(runner')
    BY <1>1, WhereItIs
  <2>. QED  BY <1>1, <1>2, <1>4, <2>1 DEF Progress, HandlersRight
<1>. QED  BY <1>7, <1>8

\* While no link drops, the oven stays within reach.
LEMMA LinkKept ==
    ASSUME OneCall, NoFaults, TypeOK, TypeOK', Ordered(runner), Ordered(runner'), Linked,
           [Next]_vars
    PROVE  Linked'
<1>1. oven \in Oven /\ oven' \in Oven
  BY DEF TypeOK
<1>2. \A button : Press(oven, button).link = oven.link
  BY <1>1 DEF Press, Oven
<1>3. CASE Observe
  <2>1. CASE OnLinkDrop
    BY <1>1, <2>1 DEF OnLinkDrop, LinkDrops, NoFaults, Linked, Oven
  <2>2. CASE OnOperation
    BY <1>1, <2>2 DEF OnOperation, OperationEvent, ActOnCommand, ProgrammeEnds, UserStarts,
                      PauseToggles, IdleReport, LinkReturns, Linked, Oven
  <2>3. CASE OnDoor \/ OnRemoteStart \/ OnTemperature
    BY <1>1, <2>3 DEF OnDoor, OnRemoteStart, OnTemperature, DoorMoves, RemoteChanges,
                      TemperatureChanges, Linked, Oven
  <2>. QED  BY <1>3, <2>1, <2>2, <2>3 DEF Observe
<1>4. CASE \E s \in Background : Resume(s)
  <2>1. PICK s \in Background : Resume(s)
    BY <1>4
  <2>2. Turned(s) => oven'.link = oven.link
    BY <1>1 DEF Turned, Turn, Oven
  <2>. QED  BY <1>2, <2>1, <2>2, ResumeOven DEF Linked
<1>5. CASE Save
  BY <1>5, SaveTame DEF Linked
<1>6. CASE Command
  BY <1>2, <1>6, CommandTame DEF Linked
<1>7. CASE Timer
  BY <1>7, TimerTame DEF Linked
<1>8. CASE TimePasses
  BY <1>8 DEF TimePasses, StartPasses, StepPasses, MaxPasses, Linked
<1>9. CASE Crash \/ Setup
  BY <1>9, RestartTame DEF Linked
<1>10. CASE UNCHANGED vars
  BY <1>10 DEF vars, Linked
<1>. QED  BY <1>3, <1>4, <1>5, <1>6, <1>7, <1>8, <1>9, <1>10 DEF Next

\* A step that is near its end stays so, until it starts again.
LEMMA StaysOver ==
    ASSUME TypeOK, [Next]_vars, ~\E s \in Background : StepStarts(s), NEW k \in 1 .. MaxSteps,
           clock.step[k] # "early"
    PROVE  clock'.step[k] # "early"
<1>1. clock \in Clocks
  BY DEF TypeOK
<1>2. CASE StepPasses
  BY <1>1, <1>2 DEF StepPasses, Clocks
<1>3. CASE clock'.step = clock.step
  BY <1>3
<1>4. UNCHANGED vars => clock' = clock
  BY DEF vars
<1>. QED  BY <1>2, <1>3, <1>4, ClockSteps

\* What happens to a run without time passing: it starts a step; it advances; a write
\* lands and it advances; Home Assistant dies; it comes back, and the run advances.
Happens ==
    \/ UNCHANGED <<runner, disk, begun>>
    \/ UNCHANGED disk /\ runner.up /\ \E s \in Background : StepStarts(s)
    \/ UNCHANGED disk /\ runner.up /\ Goes(runner, runner') /\ Advances(runner)
    \/ /\ runner.up /\ runner.saves # <<>> /\ disk' = Head(runner.saves).record
       /\ Goes(Landed, runner') /\ Advances(Landed)
    \/ UNCHANGED <<disk, begun>> /\ runner' = NewRunner
    \/ /\ UNCHANGED disk /\ ~runner.up
       /\ \/ runner' = Loaded /\ UNCHANGED begun
          \/ Goes(Loaded, runner') /\ Advances(Loaded)

LEMMA WhatHappens ==
    ASSUME OneCall, NoStopRaises, TypeOK, TypeOK', OrderInv, Ordered(runner'),
           runner.up => Known(runner), [Next]_vars
    PROVE  Happens
<1>1. Ordered(runner) /\ Fresh(runner) /\ Written /\ Sound(disk)
  BY DEF OrderInv, Stored
<1>2. CASE Observe
  <2>1. UNCHANGED begun
    BY <1>2 DEF Observe, OnOperation, OnLinkDrop, OnDoor, OnRemoteStart, OnTemperature
  <2>. QED  BY <1>1, <1>2, <2>1, ObserveOrdered, ObserveWalks DEF Happens, Advances
<1>3. CASE \E s \in Background : Resume(s)
  <2>1. PICK s \in Background : Resume(s)
    BY <1>3
  <2>2. /\ UNCHANGED disk /\ runner.up
        /\ Goes(runner, runner') \/ StepStarts(s)
    BY <1>1, <2>1, ResumeOrdered DEF Goes, Starts
  <2>. QED  BY <1>1, <2>1, <2>2, ResumeWalks DEF Happens, Advances
<1>4. CASE Save
  <2>1. /\ Goes(Landed, runner') /\ runner.up
        /\ runner.saves # <<>> /\ disk' = Head(runner.saves).record
    BY <1>1, <1>4, SaveOrdered
  <2>. QED  BY <1>1, <1>4, <2>1, SaveAdvances DEF Happens
<1>5. CASE Command
  <2>1. Goes(runner, runner') /\ UNCHANGED disk
    BY <1>1, <1>5, CommandOrdered
  <2>. QED  BY <1>1, <1>5, <2>1, CommandAdvances DEF Happens, Goes
<1>6. CASE Timer
  <2>1. Goes(runner, runner') /\ UNCHANGED disk
    BY <1>1, <1>6, TimerOrdered
  <2>. QED  BY <1>1, <1>6, <2>1, TimerAdvances DEF Happens, Goes
<1>7. CASE TimePasses
  BY <1>7 DEF TimePasses, StartPasses, StepPasses, MaxPasses, Happens
<1>8. CASE Crash
  BY <1>8 DEF Crash, Happens
<1>9. CASE Setup
  <2>1. UNCHANGED disk /\ ~runner.up /\ (runner' = Loaded \/ Goes(Loaded, runner'))
    BY <1>1, <1>9, SetupOrdered
  <2>2. Advances(Loaded)
    BY <1>1, <1>9, SetupAdvances
  <2>3. runner' = Loaded => UNCHANGED begun
    <3>1. runner' = Loaded /\ begun' # begun => FALSE
      BY <2>2 DEF Advances
    <3>. QED  BY <3>1
  <2>. QED  BY <2>1, <2>2, <2>3 DEF Happens
<1>10. CASE UNCHANGED vars
  BY <1>10 DEF vars, Happens
<1>. QED  BY <1>2, <1>3, <1>4, <1>5, <1>6, <1>7, <1>8, <1>9, <1>10 DEF Next

\* A write that lands tells what it told before.
LEMMA LandedKept ==
    ASSUME TypeOK, runner.saves # <<>>, Kept(disk, runner, begun), Progress(runner, begun)
    PROVE  Kept(Head(runner.saves).record, Landed, begun) /\ Progress(Landed, begun)
<1> DEFINE n == Len(runner.saves)
           w == Writes(runner)
           l == Writes(Landed)
<1>1. /\ runner \in Runners /\ Landed \in Runners /\ Landed.record = runner.record
      /\ Landed.tasks = runner.tasks /\ Landed.step_unsubs = runner.step_unsubs
  BY LandedFacts DEF TypeOK
<1>2. n \in Nat \ {0} /\ Len(w) = n /\ Len(l) = n - 1 /\ w \in Seq(Records) /\ l \in Seq(Records)
  BY <1>1, LandedFacts, WritesType
<1>3. l = Tail(w) /\ Head(w) = Head(runner.saves).record /\ w # <<>>
  BY <1>1, LandedFacts
<1>4. /\ \A i \in 1 .. (n - 1) : l[i] = w[i + 1]
      /\ Head(w) = w[1] /\ DOMAIN w = 1 .. n /\ DOMAIN l = 1 .. (n - 1)
  BY <1>2, <1>3, HeadTailProperties, LenProperties
<1> HIDE DEF n, w, l
<1>5. Youngest(Head(w), l) = Youngest(disk, w)
  <2>1. CASE n = 1
    BY <1>2, <1>3, <1>4, <2>1, EmptySeq DEF Youngest
  <2>2. CASE n > 1
    <3>1. l # <<>>
      BY <1>2, <2>2, EmptySeq
    <3>2. l[n - 1] = w[(n - 1) + 1]
      BY <1>2, <1>4, <2>2
    <3>. QED  BY <1>2, <1>3, <3>1, <3>2 DEF Youngest
  <2>. QED  BY <1>2, <2>1, <2>2
<1>6. Told(Head(w), begun) /\ \A i \in DOMAIN l : Told(l[i], begun)
  <2>1. \A i \in DOMAIN w : Told(w[i], begun)
    BY DEF Kept, w
  <2>2. 1 \in DOMAIN w /\ \A i \in DOMAIN l : i + 1 \in DOMAIN w
    BY <1>2, <1>4
  <2>. QED  BY <1>4, <2>1, <2>2
<1>7. Kept(Head(w), Landed, begun)
  BY <1>1, <1>5, <1>6 DEF Kept, w, l
<1>8. Progress(Landed, begun)
  BY <1>1 DEF Progress, Ran, InBoundary, Finishes, LastStep, OverNow, HandlersRight,
              CurrentStep, StepAt
<1>. QED  BY <1>3, <1>7, <1>8

\* A runner that has just been loaded knows what the disk knows.
LEMMA LoadedKept ==
    ASSUME TypeOK, Ordered(runner), ~runner.up, Sound(disk), Told(disk, begun)
    PROVE  /\ Stored(disk, Loaded) /\ Kept(disk, Loaded, begun) /\ Progress(Loaded, begun)
           /\ Loaded.record = disk
<1>1. /\ Loaded \in Runners /\ Loaded.up /\ Loaded.record = disk
      /\ Loaded.step_unsubs = {} /\ Loaded.saves = <<>>
      /\ \A t \in Slots : Loaded.tasks[t].pc = "free"
  BY LoadedFacts
<1>2. Writes(Loaded) = <<>> /\ DOMAIN Writes(Loaded) = {}
  <2>1. Writes(Loaded) = <<>>
    BY <1>1, WritesType
  <2>. QED  BY <2>1
<1>3. ~InBoundary(Loaded) /\ ~Finishes(Loaded) /\ Ran(Loaded) = (disk.state = "running")
  BY <1>1, Places DEF InBoundary, Finishes, Ran, TransitionPcs, LeavingPcs
<1>4. Keeps(disk, Loaded)
  <2>1. disk.step_index \in Int
    BY BoundsAssumption DEF TypeOK, Records
  <2>. QED  BY <1>1, <1>3, <2>1 DEF Keeps, Active
<1>5. Stored(disk, Loaded) /\ Kept(disk, Loaded, begun)
  BY <1>1, <1>2, <1>4 DEF Stored, Kept, Youngest
<1>6. Progress(Loaded, begun)
  BY <1>1, <1>3 DEF Progress, Told, HandlersRight
<1>. QED  BY <1>1, <1>5, <1>6

\* The invariant: the oven is within reach; what is stored, on its way to the disk, and
\* known to the runner says which steps were seen running.
StepsInv ==
    /\ Linked /\ Told(disk, begun)
    /\ runner.up => Kept(disk, runner, begun) /\ Progress(runner, begun)

LEMMA InitSteps == Init => StepsInv
<1> SUFFICES ASSUME Init PROVE StepsInv
  OBVIOUS
<1>1. NewRunner \in Runners /\ runner \in Runners /\ disk = NoRecord /\ begun = {}
  BY InitTypeOK, NewRunnerType DEF Init, TypeOK
<1>2. /\ runner.record = NoRecord /\ runner.step_unsubs = {} /\ runner.saves = <<>>
      /\ \A t \in Slots : runner.tasks[t].pc = "free"
  <2>1. runner = [NewRunner EXCEPT !.up = TRUE]
    BY DEF Init
  <2>2. /\ runner.record = NewRunner.record /\ runner.step_unsubs = NewRunner.step_unsubs
        /\ runner.saves = NewRunner.saves /\ runner.tasks = NewRunner.tasks
    BY <1>1, <2>1 DEF Runners
  <2>. QED  BY <2>2 DEF NewRunner, NoTask
<1>3. NoRecord.state = "idle"
  BY DEF NoRecord
<1>4. Writes(runner) = <<>>
  BY <1>1, <1>2, WritesType
<1>5. Told(disk, begun) /\ Kept(disk, runner, begun)
  BY <1>1, <1>2, <1>3, <1>4 DEF Told, Kept, Youngest
<1>6. Progress(runner, begun)
  BY <1>2, <1>3, Places DEF Progress, Ran, InBoundary, Finishes, HandlersRight, TransitionPcs
<1>. QED  BY <1>5, <1>6 DEF StepsInv, Linked, Init, OvenInit

\* As a deadline passes, what the runner says of its step remains.
LEMMA ClockKept ==
    ASSUME TypeOK, TypeOK', Ordered(runner'), [Next]_vars, Progress(runner', begun'),
           (\E s \in Background : StepStarts(s)) => ~Finishes(runner')
    PROVE  Progress(runner, begun)'
<1> DEFINE k == runner'.record.step_index
<1>1. ASSUME Finishes(runner')
      PROVE  CurrentStep(runner').kind = "timed" => clock'.step[k] # "early"
  <2>1. PICK s \in Background : Finishing(runner', s)
    BY <1>1, WhichByTask DEF TypeOK, Finishes
  <2>2. k \in 1 .. Len(runner'.record.preset) /\ runner'.record.preset # <<>>
    BY <2>1 DEF Finishing, Ready, InRun, Sound, Active
  <2>3. runner'.record.preset \in Presets
    BY <2>2 DEF TypeOK, Runners, Records
  <2>4. k \in 1 .. MaxSteps
    BY <2>2, <2>3, PresetsAssumption, BoundsAssumption
  <2>5. CurrentStep(runner').kind = "timed" => clock.step[k] # "early"
    BY <1>1 DEF Progress, OverNow
  <2>. QED  BY <1>1, <2>4, <2>5, StaysOver
<1>. QED  BY <1>1 DEF Progress, OverNow, Ran, InBoundary, Finishes, LastStep, HandlersRight,
                      CurrentStep, StepAt

\* Every step keeps it.
LEMMA StepsKept ==
    ASSUME OneCall, NoBriefSteps, NoFaults, TypeOK, TypeOK', OrderInv, OrderInv', StepsInv,
           [Next]_vars
    PROVE  StepsInv' /\ Happens
<1>1. /\ Ordered(runner) /\ Ordered(runner') /\ Stored(disk, runner) /\ Sound(disk)
      /\ runner \in Runners /\ runner' \in Runners /\ disk \in Records
  BY DEF OrderInv, Stored, TypeOK
<1>2. Linked'
  BY <1>1, LinkKept DEF StepsInv
<1>3. Happens
  <2>1. runner.up => Known(runner)
    BY DEF StepsInv, Progress, Known
  <2>. QED  BY <1>1, <2>1, WhatHappens, NothingRaised DEF StepsInv
<1>4. ASSUME Kept(disk', runner', begun'), Progress(runner', begun'),
             (\E s \in Background : StepStarts(s)) => ~Finishes(runner')
      PROVE  StepsInv'
  <2>1. Progress(runner, begun)'
    BY <1>1, <1>4, ClockKept
  <2>2. Told(disk, begun)' /\ Kept(disk, runner, begun)'
    BY <1>4 DEF Kept, Told, EndsRight, Youngest, Writes
  <2>. QED  BY <1>2, <2>1, <2>2 DEF StepsInv
<1>5. ASSUME NEW s \in Background, StepStarts(s), runner.up, UNCHANGED disk PROVE StepsInv'
  <2>1. Kept(disk, runner', begun') /\ Progress(runner', begun')
    BY <1>1, <1>5, StartKept DEF StepsInv
  <2>2. ~Finishes(runner')
    BY <1>1, <1>5, StartsRight, WhereItIs
  <2>. QED  BY <1>4, <1>5, <2>1, <2>2
<1>6. InBoundary(runner) \/ Finishes(runner) => runner.record.state = "running"
  <2>1. /\ InBoundary(runner) => \E s \in Background : Boundary(runner, s)
        /\ Finishes(runner) => \E s \in Background : Finishing(runner, s)
    BY <1>1, WhichByTask DEF InBoundary, Finishes
  <2>. QED  BY <2>1 DEF Boundary, Finishing, Ready, InRun
<1>. DEFINE Started == \E s \in Background : StepStarts(s)
<1>7. Started => runner.up /\ UNCHANGED disk
  <2>1. ASSUME NEW s \in Background, StepStarts(s) PROVE runner.up /\ UNCHANGED disk
    BY <1>1, <2>1, StartsRight DEF Boundary, Ready, InRun, StepStarts
  <2>. QED  BY <2>1
<1>8. ASSUME ~Started PROVE StepsInv'
  <2>1. CASE UNCHANGED <<runner, disk, begun>>
    <3>1. runner.up => Kept(disk', runner', begun') /\ Progress(runner', begun')
      BY <2>1 DEF StepsInv
    <3>2. runner.up => StepsInv'
      BY <1>4, <1>8, <3>1
    <3>3. Told(disk, begun)'
      BY <2>1 DEF StepsInv, Told, EndsRight
    <3>. QED  BY <1>2, <2>1, <3>2, <3>3 DEF StepsInv
  <2>2. CASE UNCHANGED disk /\ runner.up /\ Goes(runner, runner') /\ Advances(runner)
    <3>1. Kept(disk, runner', begun') /\ Progress(runner', begun')
      BY <1>1, <1>6, <2>2, AdvanceKept DEF StepsInv
    <3>. QED  BY <1>4, <1>8, <2>2, <3>1
  <2>3. CASE /\ runner.up /\ runner.saves # <<>> /\ disk' = Head(runner.saves).record
             /\ Goes(Landed, runner') /\ Advances(Landed)
    <3>1. Landed \in Runners /\ Head(runner.saves).record \in Records
      BY <1>1, <2>3, LandedType
    <3>2. Stored(Head(runner.saves).record, Landed)
      BY <1>1, <2>3, LandedStored
    <3>3. Kept(Head(runner.saves).record, Landed, begun) /\ Progress(Landed, begun)
      BY <2>3, LandedKept DEF StepsInv
    <3>4. InBoundary(Landed) \/ Finishes(Landed) => Landed.record.state = "running"
      BY <1>1, <1>6, <2>3, LandedFacts DEF InBoundary, Finishes
    <3>5. Kept(disk', runner', begun') /\ Progress(runner', begun')
      BY <1>1, <2>3, <3>1, <3>2, <3>3, <3>4, AdvanceKept
    <3>. QED  BY <1>4, <1>8, <3>5
  <2>4. CASE UNCHANGED <<disk, begun>> /\ runner' = NewRunner
    <3>1. ~runner'.up
      BY <2>4 DEF NewRunner
    <3>2. Told(disk, begun)'
      BY <2>4 DEF StepsInv, Told, EndsRight
    <3>. QED  BY <1>2, <3>1, <3>2 DEF StepsInv
  <2>5. CASE /\ UNCHANGED disk /\ ~runner.up
             /\ \/ runner' = Loaded /\ UNCHANGED begun
                \/ Goes(Loaded, runner') /\ Advances(Loaded)
    <3>1. /\ Stored(disk, Loaded) /\ Kept(disk, Loaded, begun) /\ Progress(Loaded, begun)
          /\ Loaded \in Runners /\ \A t \in Slots : Loaded.tasks[t].pc = "free"
      BY <1>1, <2>5, LoadedKept, LoadedFacts DEF StepsInv
    <3>2. ~InBoundary(Loaded) /\ ~Finishes(Loaded)
      BY <3>1, Places DEF InBoundary, Finishes, TransitionPcs
    <3>3. Kept(disk, runner', begun') /\ Progress(runner', begun')
      BY <1>1, <2>5, <3>1, <3>2, AdvanceKept
    <3>. QED  BY <1>4, <1>8, <2>5, <3>3
  <2>. QED  BY <1>3, <1>8, <2>1, <2>2, <2>3, <2>4, <2>5 DEF Happens
<1>. QED  BY <1>3, <1>5, <1>7, <1>8

\* A preset that reports finished has had the oven running every one of its steps,
\* through stops, retries, crashes and recoveries (_async_run_step enters a step only
\* from one that has run), as long as no service call raises and no link drops.
THEOREM FinishedRanAll ==
    ASSUME OneCall, NoBriefSteps, NoFaults
    PROVE  Spec => []FinishedRanEveryStep
<1>1. TypeOK /\ TypeOK' /\ OrderInv /\ OrderInv' /\ StepsInv /\ [Next]_vars => StepsInv'
  BY StepsKept
<1>2. TypeOK /\ OrderInv /\ StepsInv => FinishedRanEveryStep
  <2>1. ASSUME TypeOK, OrderInv, ~runner.up PROVE runner.record.state = "idle"
    BY <2>1, DownIsNew DEF TypeOK, OrderInv, NewRunner, NoRecord
  <2>. QED  BY <2>1 DEF StepsInv, Progress, FinishedRanEveryStep
<1>. QED  BY <1>1, <1>2, InitSteps, TypeCorrect, OrderKept, PTL DEF Spec

\* A timed step is left for the next one, or for the end, only once the oven was seen
\* running it and its duration has passed but for the end slack (StepDone is reached from
\* its timer, or from an idle oven that _in_end_slack forgives).
THEOREM TimedStepsRunOut ==
    ASSUME OneCall, NoBriefSteps, NoFaults
    PROVE  Spec => TimedStepRunsOut
<1> DEFINE k == runner.record.step_index
           Left == \/ runner'.record.state = "finished"
                   \/ HasStep(runner') /\ runner'.record.step_index # k
           Out == HasStep(runner) /\ CurrentStep(runner).kind = "timed" /\ Left
                    => k \in begun /\ clock.step[k] # "early"
<1>1. ASSUME TypeOK, TypeOK', OrderInv, OrderInv', StepsInv, [Next]_vars,
             HasStep(runner), CurrentStep(runner).kind = "timed", Left
      PROVE  k \in begun /\ clock.step[k] # "early"
  <2>1. /\ runner \in Runners /\ Ordered(runner) /\ Ordered(runner') /\ Happens
        /\ runner' \in Runners /\ runner.record.state = "running"
    BY <1>1, StepsKept DEF TypeOK, OrderInv, HasStep
  <2>2. runner.up /\ Progress(runner, begun)
    <3>1. runner.up
      BY <2>1, DownIsNew DEF NewRunner, NoRecord
    <3>. QED  BY <1>1, <3>1 DEF StepsInv
  <2>3. k \in 1 .. k
    BY <1>1, <2>1, OrderedSound DEF Sound
  <2>4. Done(runner) \/ Finishes(runner) => k \in begun /\ OverNow(runner)
    BY <2>2, <2>3 DEF Done, Progress
  <2>5. ASSUME NEW r, r.record = runner.record, r.tasks = runner.tasks, Walks(r, runner')
        PROVE  Done(runner) \/ Finishes(runner)
    <3>1. runner'.record # runner.record /\ runner'.record.state \in {"running", "finished"}
      BY <1>1, <2>1 DEF HasStep
    <3>2. (Done(r) = Done(runner)) /\ (Finishes(r) = Finishes(runner))
      BY <2>5 DEF Done, Ran, OverNow, CurrentStep, StepAt, Finishes
    <3>3. /\ Finishes(runner') => runner'.record.state = "running"
          /\ InBoundary(runner') => runner'.record.state = "running"
      BY <2>1, WhichByTask
         DEF Finishes, InBoundary, Finishing, Boundary, Ready, InRun
    <3>. QED  BY <2>5, <3>1, <3>2, <3>3 DEF Walks
  <2>6. CASE UNCHANGED <<runner, disk, begun>>
    BY <1>1, <2>1, <2>6
  <2>7. CASE \E s \in Background : StepStarts(s)
    BY <1>1, <2>1, <2>7, StartsRight DEF Saving, InRun
  <2>8. CASE Advances(runner)
    BY <2>1, <2>4, <2>5, <2>8, <1>1 DEF Advances, OverNow
  <2>9. CASE runner.saves # <<>> /\ Advances(Landed)
    <3>1. Landed.record = runner.record /\ Landed.tasks = runner.tasks
      BY <2>1, <2>9, LandedFacts
    <3>. QED  BY <2>1, <2>4, <2>5, <2>9, <3>1, <1>1 DEF Advances, OverNow
  <2>10. CASE runner' = NewRunner
    BY <1>1, <2>10 DEF NewRunner, NoRecord, HasStep
  <2>. QED  BY <2>1, <2>2, <2>6, <2>7, <2>8, <2>9, <2>10 DEF Happens
<1>2. TypeOK /\ TypeOK' /\ OrderInv /\ OrderInv' /\ StepsInv /\ [Next]_vars => [Out]_vars
  BY <1>1
<1>3. TypeOK /\ TypeOK' /\ OrderInv /\ OrderInv' /\ StepsInv /\ [Next]_vars => StepsInv'
  BY StepsKept
<1>4. [][Out]_vars => TimedStepRunsOut
  BY PTL DEF TimedStepRunsOut
<1>. QED  BY <1>2, <1>3, <1>4, InitSteps, TypeCorrect, OrderKept, PTL DEF Spec

-----------------------------------------------------------------------------
(* Whose programme the oven runs.                                          *)

\* Every step ends by the clock.
AllTimed == \A p \in Presets : \A k \in 1 .. Len(p) : p[k].kind = "timed"

\* The programme of step k is chosen, or none; the step of a record is near its end; a
\* record of a run fits the oven o and the clock c: its step is chosen, or near its end.
Chose(o, k) == o.selected \in {0, k}
Overdue(c, record) == c.step[record.step_index] # "early"
Fits(o, c, record) ==
    record.state = "running" => Chose(o, record.step_index) \/ Overdue(c, record)

Recovers(r) == \E s \in Background : r.tasks[s].pc = "recoverWait"

\* What is stored, and asked to be written, fits; it is the runner's record once a step
\* has started; between steps it is at its end, and the transition's choice stands.
Suits(o, c, saved, r) ==
    /\ Fits(o, c, saved) /\ \A i \in DOMAIN Writes(r) : Fits(o, c, Writes(r)[i])
    /\ Ran(r) => Youngest(saved, Writes(r)) = r.record
    /\ InBoundary(r) /\ saved.state = "running" => Overdue(c, saved)
    /\ Chosen(r) # {} => Chose(o, r.record.step_index)

\* What a step has started stays chosen, once it is known to run.
Stands(o, r) == Ran(r) /\ ~Recovers(r) => Chose(o, r.record.step_index)

ProgrammeInv ==
    /\ Fits(oven, clock, disk)
    /\ runner.up => Suits(oven, clock, disk, runner) /\ Stands(oven, runner)

\* Only a transition chooses a programme; somebody at the oven takes the choice back.
LEMMA SelectedMoves ==
    ASSUME OneCall, TypeOK, TypeOK', OrderInv, Ordered(runner'), [Next]_vars
    PROVE  oven'.selected \in {0, oven.selected} \/ \E s \in Background : Turned(s)
<1>1. Ordered(runner) /\ runner \in Runners /\ oven \in Oven
  BY DEF OrderInv, TypeOK
<1>2. ASSUME \/ oven' = oven \/ oven' = Press(oven, "abort") \/ oven' = Press(oven, "off")
             \/ OperationEvent \/ LinkDrops \/ DoorMoves \/ RemoteChanges \/ TemperatureChanges
      PROVE  oven'.selected \in {0, oven.selected}
  BY <1>1, <1>2, OvenMoves
<1>3. CASE Observe
  <2>1. OperationEvent \/ LinkDrops \/ DoorMoves \/ RemoteChanges \/ TemperatureChanges
    BY <1>3 DEF Observe, OnOperation, OnLinkDrop, OnDoor, OnRemoteStart, OnTemperature
  <2>. QED  BY <1>2, <2>1
<1>4. ASSUME NEW s \in Background, Resume(s)
      PROVE  oven'.selected \in {0, oven.selected} \/ Turned(s)
  <2>1. oven' = Press(oven, "start") => oven'.selected = oven.selected
    BY <1>1 DEF Press, Oven
  <2>. QED  BY <1>2, <1>4, <2>1, ResumeOven
<1>5. CASE Save
  BY <1>1, <1>2, <1>5, SaveTame
<1>6. CASE Command
  BY <1>1, <1>2, <1>6, CommandTame
<1>7. CASE Timer
  BY <1>1, <1>2, <1>7, TimerTame
<1>8. CASE TimePasses \/ UNCHANGED vars
  BY <1>2, <1>8 DEF TimePasses, StartPasses, StepPasses, MaxPasses, vars
<1>9. CASE Crash \/ Setup
  BY <1>1, <1>2, <1>9, RestartTame
<1>. QED  BY <1>3, <1>4, <1>5, <1>6, <1>7, <1>8, <1>9 DEF Next

\* A task that has chosen its programme is in a transition.
LEMMA ChosenBetween ==
    ASSUME NEW r \in Runners, Ordered(r), Chosen(r) # {}
    PROVE  InBoundary(r)
<1>1. PICK t \in Slots : r.tasks[t].pc \in ChosenPcs
  BY DEF Chosen
<1>2. ChosenPcs \subseteq TransitionPcs /\ ChosenPcs \cap CallPcs = {}
  BY DEF ChosenPcs, TransitionPcs, CallPcs
<1>3. t \in Background
  BY <1>1, <1>2, Places, WhichByCall
<1>. QED  BY <1>1, <1>2, <1>3 DEF InBoundary

\* A run between steps is running, and no write of it is under way.
LEMMA BetweenSteps ==
    ASSUME NEW r \in Runners, Ordered(r), InBoundary(r)
    PROVE  /\ r.record.state = "running" /\ ~Ran(r) /\ ~Finishes(r) /\ ~Recovers(r)
           /\ Writes(r) = <<>>
<1>1. PICK s \in Background : Boundary(r, s)
  BY WhichByTask DEF InBoundary
<1>2. r.record.state = "running" /\ r.saves = <<>> /\ Beside(r, s) /\ r.tasks[s].pc \in TransitionPcs
  BY <1>1 DEF Boundary, Ready, InRun
<1>3. ~Ran(r) /\ ~Finishes(r)
  BY <1>1, WhereItIs
<1>4. ~Recovers(r)
  BY <1>2 DEF Recovers, Beside, TransitionPcs
<1>. QED  BY <1>2, <1>3, <1>4, WritesType

LEMMA SoundStep ==
    ASSUME NEW record \in Records, Sound(record), record.state = "running"
    PROVE  /\ record.preset \in Presets /\ record.step_index \in 1 .. Len(record.preset)
           /\ record.step_index \in 1 .. MaxSteps
<1>1. record.preset # <<>> /\ record.step_index \in 1 .. Len(record.preset)
  BY DEF Sound, Active
<1>2. record.preset \in Presets
  BY <1>1 DEF Records
<1>. QED  BY <1>1, <1>2, PresetsAssumption, BoundsAssumption

\* From o and c to p and d nothing is chosen and no step starts anew.
Later(o, c, p, d) ==
    /\ p.selected \in {0, o.selected}
    /\ \A k \in 1 .. MaxSteps : c.step[k] # "early" => d.step[k] # "early"

\* What suits goes on to suit then.
LEMMA SuitsLater ==
    ASSUME NEW o, NEW c, NEW p, NEW d, Later(o, c, p, d),
           NEW saved \in Records, NEW r \in Runners, Stored(saved, r)
    PROVE  /\ Fits(o, c, saved) => Fits(p, d, saved)
           /\ Suits(o, c, saved, r) => Suits(p, d, saved, r)
           /\ Stands(o, r) => Stands(p, r)
<1>1. \A k : Chose(o, k) => Chose(p, k)
  BY DEF Chose, Later
<1>2. \A record \in Records : Sound(record) /\ record.state = "running" /\ Overdue(c, record)
         => Overdue(d, record)
  BY SoundStep DEF Overdue, Later
<1>3. \A record \in Records : Sound(record) /\ Fits(o, c, record) => Fits(p, d, record)
  BY <1>1, <1>2 DEF Fits
<1>4. Sound(saved) /\ \A i \in DOMAIN Writes(r) : Writes(r)[i] \in Records /\ Sound(Writes(r)[i])
  <2>1. Writes(r) \in Seq(Records)
    BY WritesType
  <2>. QED  BY <2>1, ElementOfSeq, LenProperties DEF Stored
<1>5. Stands(o, r) => Stands(p, r)
  BY <1>1 DEF Stands
<1>. QED  BY <1>1, <1>2, <1>3, <1>4, <1>5 DEF Suits

\* What the tasks of r and its record say of each other.
Tidy(r) ==
    /\ Sound(r.record) /\ (Chosen(r) # {} => InBoundary(r))
    /\ InBoundary(r) => r.record.state = "running" /\ ~Ran(r)

LEMMA OrderedTidy ==
    ASSUME NEW r \in Runners, Ordered(r)
    PROVE  Tidy(r)
  BY OrderedSound, ChosenBetween, BetweenSteps DEF Tidy

\* A run that goes on: the step it leaves is over, and stored.
LEMMA WalkSuits ==
    ASSUME AllTimed, NEW r \in Runners, NEW q \in Runners, NEW saved \in Records,
           Goes(r, q), Walks(r, q), Tidy(r), Ordered(q), Stored(saved, r),
           Chosen(q) \subseteq Chosen(r), NEW o, Suits(o, clock, saved, r)
    PROVE  Suits(o, clock, saved, q)
<1>1. r.record \in Records /\ q.record \in Records
  BY DEF Runners
<1>2. \A i \in DOMAIN Writes(q) : Fits(o, clock, Writes(q)[i])
  <2>1. CASE Writes(q) = Writes(r)
    BY <2>1 DEF Suits
  <2>2. CASE Asking(r, q) /\ Writes(q) = Append(Writes(r), q.record)
    <3>1. Fits(o, clock, q.record)
      BY <2>2 DEF Asking, Fits
    <3>2. Writes(r) \in Seq(Records)
      BY WritesType
    <3>3. \A i \in DOMAIN Writes(q) : \/ Writes(q)[i] = q.record
                                      \/ i \in DOMAIN Writes(r) /\ Writes(q)[i] = Writes(r)[i]
      BY <1>1, <2>2, <3>2, AppendProperties, LenProperties
    <3>. QED  BY <3>1, <3>3 DEF Suits
  <2>. QED  BY <2>1, <2>2 DEF Goes
<1>3. Finishes(q) => q.record.state = "running" /\ ~InBoundary(q) /\ ~Ran(q)
  <2>1. Finishes(q) => \E s \in Background : Finishing(q, s)
    BY WhichByTask DEF Finishes
  <2>. QED  BY <2>1, WhereItIs DEF Finishing, Ready, InRun
<1>4. InBoundary(q) => q.record.state = "running" /\ ~Ran(q) /\ Writes(q) = <<>>
  BY BetweenSteps
<1>5. Ran(q) => q.record.state = "running" /\ q.record = r.record /\ Ran(r)
  BY <1>3, <1>4 DEF Walks, Ran
<1>6. InBoundary(q) => \/ q.record = r.record /\ InBoundary(r)
                       \/ Done(r)
  <2>1. q.record = r.record => (InBoundary(q) => InBoundary(r))
    BY GoesRecord
  <2>. QED  BY <1>3, <1>4, <2>1 DEF Walks
<1>7. Ran(q) => Youngest(saved, Writes(q)) = q.record
  BY <1>5, GoesRecord DEF Suits
<1>8. InBoundary(q) /\ saved.state = "running" => Overdue(clock, saved)
  <2>1. CASE InBoundary(r)
    BY <2>1 DEF Suits
  <2>2. CASE InBoundary(q) /\ Done(r)
    <3>1. Ran(r) /\ OverNow(r) /\ r.record.state = "running"
      BY <2>2 DEF Done, Ran
    <3>2. Writes(r) = <<>>
      BY <1>4, <2>2, <3>1, GoesRecord
    <3>3. saved = r.record
      BY <3>1, <3>2 DEF Suits, Youngest
    <3>4. CurrentStep(r).kind = "timed"
      BY <1>1, <3>1, SoundStep DEF Tidy, AllTimed, CurrentStep, StepAt
    <3>. QED  BY <3>1, <3>3, <3>4 DEF OverNow, Overdue
  <2>. QED  BY <1>6, <2>1, <2>2
<1>9. Chosen(q) # {} => Chose(o, q.record.step_index)
  <2> SUFFICES ASSUME Chosen(q) # {} PROVE Chose(o, q.record.step_index)
    OBVIOUS
  <2>1. InBoundary(q) /\ InBoundary(r) /\ Chosen(r) # {}
    BY ChosenBetween DEF Tidy
  <2>2. ~Done(r)
    BY <2>1 DEF Tidy, Done
  <2>. QED  BY <1>6, <2>1, <2>2 DEF Suits
<1>. QED  BY <1>2, <1>7, <1>8, <1>9 DEF Suits

\* A run that begins: what is stored is its schedule.
LEMMA BeginSuits ==
    ASSUME NEW r \in Runners, NEW q \in Runners, NEW saved \in Records,
           Goes(r, q), Tidy(r), Ordered(q), Stored(saved, r), r.record.state # "running",
           InBoundary(q), Chosen(q) \subseteq Chosen(r), NEW o, Suits(o, clock, saved, r)
    PROVE  Suits(o, clock, saved, q)
<1>1. q.record.state = "running" /\ ~Ran(q) /\ Writes(q) = <<>>
  BY BetweenSteps
<1>2. Writes(r) = <<>> /\ r.up
  BY <1>1, GoesRecord DEF Goes
<1>3. saved.state # "running"
  BY <1>2 DEF Stored, Keeps, Youngest
<1>4. Chosen(r) = {}
  BY DEF Tidy
<1>. QED  BY <1>1, <1>2, <1>3, <1>4 DEF Suits

\* A step that starts is the one chosen; what is stored, of the step before, is over.
LEMMA StartSuits ==
    ASSUME TypeOK, TypeOK', OrderInv, Ordered(runner'), NEW s \in Background, StepStarts(s),
           Suits(oven, clock, disk, runner)
    PROVE  /\ UNCHANGED disk
           /\ Suits(oven', clock', disk, runner') /\ Stands(oven', runner')
<1> DEFINE k == runner.record.step_index
<1>1. /\ runner \in Runners /\ runner' \in Runners /\ disk \in Records /\ clock \in Clocks
      /\ Ordered(runner) /\ Stored(disk, runner) /\ s \in Slots
  BY Places DEF TypeOK, OrderInv
<1>2. /\ Boundary(runner, s) /\ Saving(runner', s) /\ runner'.record.step_index = k
      /\ Writes(runner) = <<>> /\ Writes(runner') = <<runner'.record>>
  BY <1>1, StartsRight
<1>3. InBoundary(runner) /\ runner.record.state = "running" /\ runner.up
      /\ runner.tasks[s].step = k /\ ~InBoundary(runner')
  BY <1>2, WhereItIs DEF Boundary, Ready, InRun
<1>4. oven' = oven /\ disk' = disk
  BY DEF StepStarts
<1>5. \A i \in 1 .. MaxSteps \ {k} : clock'.step[i] = clock.step[i]
  <2>1. PICK phase : clock' = [clock EXCEPT !.step[k] = phase]
    BY <1>3 DEF StepStarts
  <2>. QED  BY <1>1, <2>1 DEF Clocks
<1>6. Chose(oven, k)
  <2>1. s \in Chosen(runner)
    BY <1>1 DEF StepStarts, Is, Chosen, ChosenPcs
  <2>. QED  BY <2>1 DEF Suits
<1>7. Fits(oven, clock', disk)
  <2> SUFFICES ASSUME disk.state = "running" PROVE Overdue(clock', disk)
    BY DEF Fits
  <2>1. Sound(disk) /\ disk.step_index < k
    BY <1>2, <1>3, <1>1 DEF Stored, Keeps, Youngest
  <2>2. disk.step_index \in 1 .. MaxSteps /\ disk.step_index # k
    BY <1>1, <2>1, SoundStep
  <2>3. Overdue(clock, disk)
    BY <1>3 DEF Suits
  <2>. QED  BY <1>5, <2>2, <2>3 DEF Overdue
<1>8. Fits(oven, clock', runner'.record)
  BY <1>2, <1>6 DEF Fits
<1>9. /\ Len(Writes(runner')) = 1 /\ Writes(runner')[1] = runner'.record
      /\ Writes(runner') # <<>> /\ DOMAIN Writes(runner') = {1}
  BY <1>2
<1>10. Chosen(runner') = {}
  BY <1>1, <1>3, ChosenBetween
<1>11. Suits(oven, clock', disk, runner')
  BY <1>3, <1>7, <1>8, <1>9, <1>10 DEF Suits, Youngest
<1>. QED  BY <1>2, <1>4, <1>6, <1>11 DEF Stands

\* A dial that is turned chooses the programme of the step entered, or keeps the choice.
LEMMA TurnSuits ==
    ASSUME TypeOK, TypeOK', OrderInv, Ordered(runner'), NEW s \in Background, Turned(s),
           Suits(oven, clock, disk, runner)
    PROVE  /\ UNCHANGED disk
           /\ Suits(oven', clock', disk, runner') /\ Stands(oven', runner')
<1> DEFINE k == runner.record.step_index
           pc == runner.tasks[s].pc
           next == NextDial(runner, runner.tasks[s].step, pc)
<1>1. /\ runner \in Runners /\ runner' \in Runners /\ oven \in Oven
      /\ Ordered(runner) /\ s \in Slots
  BY Places DEF TypeOK, OrderInv
<1>2. /\ pc \in Dials /\ clock' = clock /\ disk' = disk
      /\ oven' = Turn(oven, pc, runner.tasks[s].step)
      /\ runner' = Issue(runner, s, next, oven')
  BY DEF Turned, Dial
<1>3. Boundary(runner, s) /\ InBoundary(runner)
  <2>1. pc \in TransitionPcs
    BY <1>2 DEF Dials, TransitionPcs
  <2>. QED  BY <1>1, <2>1, WhichByTask DEF InBoundary
<1>4. runner.tasks[s].step = k /\ Writes(runner) = <<>>
  BY <1>1, <1>3, BetweenSteps DEF Boundary
<1>5. Moved(runner, runner', s, TransitionPcs)
  <2>1. next \in TransitionPcs /\ "runWait" \in TransitionPcs
    BY DEF NextDial, TransitionPcs
  <2>. QED  BY <1>1, <1>2, <2>1, WaitMoved DEF Issue
<1>6. runner'.record = runner.record /\ Writes(runner') = <<>> /\ ~Ran(runner')
  <2>1. InBoundary(runner')
    BY <1>5 DEF Moved, InBoundary
  <2>. QED  BY <1>1, <1>5, <2>1, BetweenSteps DEF Moved
<1>7. Chose(oven', k)
  <2>1. CASE pc = "select"
    <3>1. oven'.selected = k
      BY <1>1, <1>2, <1>4, <2>1 DEF Turn, Oven
    <3>. QED  BY <3>1 DEF Chose
  <2>2. CASE pc # "select"
    <3>1. oven'.selected = oven.selected
      BY <1>1, <1>2, <2>2 DEF Turn, Oven
    <3>2. s \in Chosen(runner)
      BY <1>1, <1>2, <2>2 DEF Dials, Chosen, ChosenPcs
    <3>. QED  BY <3>1, <3>2 DEF Suits, Chose
  <2>. QED  BY <2>1, <2>2
<1>8. disk.state = "running" => Overdue(clock, disk)
  BY <1>3 DEF Suits
<1>. QED  BY <1>2, <1>6, <1>7, <1>8 DEF Suits, Stands, Fits

\* What a loaded runner knows suits the disk it is from.
LEMMA LoadedSuits ==
    ASSUME TypeOK, Ordered(runner), ~runner.up, NEW o, NEW c, Fits(o, c, disk)
    PROVE  Suits(o, c, disk, Loaded) /\ Chosen(Loaded) = {} /\ ~InBoundary(Loaded)
<1>1. /\ Loaded \in Runners /\ Loaded.record = disk /\ Loaded.saves = <<>>
      /\ \A t \in Slots : Loaded.tasks[t].pc = "free"
  BY LoadedFacts
<1>2. Writes(Loaded) = <<>> /\ DOMAIN Writes(Loaded) = {}
  <2>1. Writes(Loaded) = <<>>
    BY <1>1, WritesType
  <2>. QED  BY <2>1
<1>3. Chosen(Loaded) = {} /\ ~InBoundary(Loaded)
  BY <1>1, Places DEF Chosen, ChosenPcs, InBoundary, TransitionPcs
<1>. QED  BY <1>1, <1>2, <1>3 DEF Suits, Youngest

\* A write that lands still suits.
LEMMA LandedSuits ==
    ASSUME TypeOK, runner.saves # <<>>, NEW o, NEW c, Suits(o, c, disk, runner),
           Stored(disk, runner), Ordered(runner)
    PROVE  Suits(o, c, Head(runner.saves).record, Landed)
           /\ Chosen(Landed) = Chosen(runner) /\ ~InBoundary(Landed)
<1> DEFINE n == Len(runner.saves)
           w == Writes(runner)
           l == Writes(Landed)
<1>1. /\ runner \in Runners /\ Landed \in Runners /\ Landed.record = runner.record
      /\ Landed.tasks = runner.tasks
  BY LandedFacts DEF TypeOK
<1>2. n \in Nat \ {0} /\ Len(w) = n /\ Len(l) = n - 1 /\ w \in Seq(Records) /\ l \in Seq(Records)
  BY <1>1, LandedFacts, WritesType
<1>3. l = Tail(w) /\ Head(w) = Head(runner.saves).record /\ w # <<>>
  BY <1>1, LandedFacts
<1>4. /\ \A i \in 1 .. (n - 1) : l[i] = w[i + 1]
      /\ Head(w) = w[1] /\ DOMAIN w = 1 .. n /\ DOMAIN l = 1 .. (n - 1)
  BY <1>2, <1>3, HeadTailProperties, LenProperties
<1>5. ~InBoundary(runner)
  BY <1>1, <1>3, BetweenSteps
<1> HIDE DEF n, w, l
<1>6. Youngest(Head(w), l) = Youngest(disk, w)
  <2>1. CASE n = 1
    BY <1>2, <1>3, <1>4, <2>1, EmptySeq DEF Youngest
  <2>2. CASE n > 1
    <3>1. l # <<>>
      BY <1>2, <2>2, EmptySeq
    <3>2. l[n - 1] = w[(n - 1) + 1]
      BY <1>2, <1>4, <2>2
    <3>. QED  BY <1>2, <1>3, <3>1, <3>2 DEF Youngest
  <2>. QED  BY <1>2, <2>1, <2>2
<1>7. Fits(o, c, Head(w)) /\ \A i \in DOMAIN l : Fits(o, c, l[i])
  <2>1. \A i \in DOMAIN w : Fits(o, c, w[i])
    BY DEF Suits, w
  <2>2. 1 \in DOMAIN w /\ \A i \in DOMAIN l : i + 1 \in DOMAIN w
    BY <1>2, <1>4
  <2>. QED  BY <1>4, <2>1, <2>2
<1>8. /\ Ran(Landed) = Ran(runner) /\ ~InBoundary(Landed) /\ Chosen(Landed) = Chosen(runner)
  BY <1>1, <1>5 DEF Ran, InBoundary, Chosen
<1>9. Ran(runner) => Youngest(disk, w) = runner.record
  BY DEF Suits, w
<1>10. Chosen(runner) # {} => Chose(o, runner.record.step_index)
  BY DEF Suits
<1>11. Suits(o, c, Head(w), Landed)
  BY <1>1, <1>6, <1>7, <1>8, <1>9, <1>10 DEF Suits, l
<1>. QED  BY <1>3, <1>8, <1>11

\* While a run is recovering nothing else acts on it: it ends, or its wait does.
LEMMA WhileRecovering ==
    ASSUME OneCall, TypeOK, TypeOK', OrderInv, Ordered(runner'), [Next]_vars,
           NEW s \in Background, Recovering(runner, s)
    PROVE  Recovers(runner') \/ ~Ran(runner') \/ RecoverWait(s)
<1> DEFINE w == Wake(runner, oven')
<1>1. runner \in Runners /\ Ordered(runner) /\ w \in Runners /\ s \in Slots
  BY WakeType, Places DEF OrderInv, TypeOK
<1>2. /\ runner.up /\ runner.saves = <<>> /\ runner.unsubs = {} /\ runner.step_unsubs = {}
      /\ ~runner.door_timer /\ runner.tasks[s].pc = "recoverWait"
      /\ \A t \in Background \ {s} : runner.tasks[t].pc = "free"
  BY DEF Recovering, Ready, InRun, Calm, Alone
<1>3. Alike(runner, w)
  BY <1>1, WakeOrdered
<1>4. Recovers(runner) /\ Recovers(w)
  BY <1>1, <1>2, <1>3 DEF Recovers, Alike
<1>5. ~Listening(runner) /\ ~Listening(w)
  BY <1>2, <1>3 DEF Listening, Alike
<1> HIDE DEF w
<1>6. CASE Observe
  <2>1. runner' \in {runner, w}
    BY <1>2, <1>5, <1>6 DEF Observe, OnOperation, OnLinkDrop, OnDoor, OnRemoteStart,
       OnTemperature, CheckOperation, CheckDoor, CheckTemperature, w
  <2>. QED  BY <1>4, <2>1
<1>7. ASSUME NEW t \in Background, Resume(t) PROVE RecoverWait(s)
  <2>1. runner.tasks[t].pc # "free"
    BY <1>7 DEF Resume, StopPress, StopWait, RemoteWait, Dial, StartPress, StartTimesOut,
       StepStarts, FailPress, FinishPress, PowerOff, RecoverWait, Is, Dials
  <2>2. t = s
    BY <1>2, <2>1
  <2>. QED  BY <1>2, <1>7, <2>2 DEF Resume, StopPress, StopWait, RemoteWait, Dial, StartPress,
       StartTimesOut, StepStarts, FailPress, FinishPress, PowerOff, Is, Dials
<1>8. ~Save
  BY <1>2 DEF Save, StepSaved, FailSaved, RunNowSaved, LastSaved, Lands, OrphanSaved
<1>9. CASE Command
  BY <1>1, <1>9, CommandStops, WhereItIsNot DEF Ran
<1>10. ~Timer
  BY <1>2 DEF Timer, StartComes, StepTimer, PreheatTimeout, MaxReached, DoorGraceOver
<1>11. CASE TimePasses \/ UNCHANGED vars
  BY <1>4, <1>11 DEF TimePasses, StartPasses, StepPasses, MaxPasses, vars
<1>12. CASE Crash
  BY <1>12, NewRests, WhereItIsNot DEF Crash
<1>13. ~Setup
  BY <1>2 DEF Setup, SetupInactive, SetupRunning, SetupScheduled
<1>. QED  BY <1>6, <1>7, <1>8, <1>9, <1>10, <1>11, <1>12, <1>13 DEF Next

\* A run that goes on after a restart is of a step that is not near its end.
LEMMA RecoveredStands ==
    ASSUME AllTimed, TypeOK, Ordered(runner), Known(runner), NEW s \in Background, RecoverWait(s),
           Ran(runner'), Suits(oven, clock, disk, runner)
    PROVE  Stands(oven, runner')
<1> DEFINE g == ArmRunGuards(runner)
           k == runner.record.step_index
<1>1. runner \in Runners /\ g \in Runners
  BY ArmRunGuardsType DEF TypeOK
<1>2. Recovering(runner, s)
  BY <1>1, WhichByTask DEF RecoverWait, Is
<1>3. Ready(runner, s) /\ Ran(runner) /\ runner.record.state = "running" /\ runner.saves = <<>>
  BY <1>2, WhereItIs DEF Recovering, Ready, InRun
<1>4. /\ g.up = runner.up /\ g.record = runner.record /\ g.tasks = runner.tasks
      /\ g.saves = runner.saves /\ ("due" \in g.unsubs => "due" \in runner.unsubs)
  BY <1>1 DEF ArmRunGuards, Runners
<1> HIDE DEF g
<1>5. Ready(g, s)
  BY <1>3, <1>4 DEF Ready, InRun, CallsFree, Beside, OnePowerOff
<1>6. \A q : Halts(runner, q, s) => ~Ran(q)
  BY WhereItIs DEF Halts, Ran
<1>7. \A q : StepsOn(g, q, s) => ~Ran(q)
  BY WhereItIs DEF StepsOn, Ran
<1>8. ~clock.max
  <2>1. clock.max => runner' = Fail(runner, s, TRUE, "powerOff", oven)
    BY DEF RecoverWait
  <2>2. Halts(runner, Fail(runner, s, TRUE, "powerOff", oven), s)
    BY <1>1, <1>3, RunStoppable, FailOrdered
  <2>. QED  BY <1>6, <2>1, <2>2
<1>9. ~InSlack(runner)
  <2>1. InSlack(runner) => runner' = StepDone(g, s, oven)
    BY <1>8 DEF RecoverWait, g
  <2>2. StepsOn(g, StepDone(g, s, oven), s)
    BY <1>1, <1>5, StepDoneOrdered
  <2>. QED  BY <1>7, <2>1, <2>2
<1>10. Sound(runner.record) /\ runner.record \in Records
  BY <1>1, OrderedSound DEF Runners
<1>11. runner.record.preset \in Presets /\ k \in 1 .. Len(runner.record.preset) /\ k \in 1 .. MaxSteps
       /\ runner.record.preset # <<>>
  BY <1>3, <1>10, SoundStep DEF Sound, Active
<1>12. CurrentStep(runner).kind = "timed" /\ runner.record.ends = k
  BY <1>3, <1>11 DEF AllTimed, Known, EndsRight, CurrentStep, StepAt
<1>13. ~Overdue(clock, runner.record)
  BY <1>3, <1>9, <1>11, <1>12, BoundsAssumption DEF InSlack, HasStep, Overdue
<1>14. disk = runner.record
  <2>1. Writes(runner) = <<>>
    BY <1>1, <1>3, WritesType
  <2>. QED  BY <1>3, <2>1 DEF Suits, Youngest
<1>15. Chose(oven, k)
  BY <1>3, <1>13, <1>14 DEF Suits, Fits
<1>16. runner'.record = runner.record
  <2>1. Walks(runner, runner')
    BY <1>1, RecoverWalks
  <2>2. ~Done(runner)
    BY <1>12, <1>13 DEF Done, OverNow, Overdue
  <2>3. ~Finishes(runner)
    BY <1>2, WhereItIs
  <2>. QED  BY <2>1, <2>2, <2>3 DEF Walks, Ran
<1>. QED  BY <1>15, <1>16 DEF Stands

\* A runner that comes back to a run recovers it.
LEMMA RestartRecovers ==
    ASSUME OneCall, TypeOK, TypeOK', OrderInv, Ordered(runner'), [Next]_vars, ~runner.up
    PROVE  Recovers(runner') \/ ~Ran(runner')
<1>1. runner \in Runners /\ Ordered(runner) /\ Fresh(runner) /\ Written /\ Sound(disk)
  BY DEF OrderInv, TypeOK, Stored
<1>2. ~Ran(runner) /\ runner = NewRunner
  BY <1>1, DownIsNew, NewRests, WhereItIsNot
<1>3. CASE Observe
  BY <1>1, <1>2, <1>3, ObserveOrdered
<1>4. ~(\E s \in Background : Resume(s))
  BY <1>1, ResumeOrdered DEF Goes, Starts
<1>5. ~Save
  BY <1>1, SaveOrdered
<1>6. ~Command
  BY <1>1, CommandOrdered DEF Goes
<1>7. ~Timer
  BY <1>1, TimerOrdered DEF Goes
<1>8. CASE TimePasses \/ UNCHANGED vars
  BY <1>2, <1>8 DEF TimePasses, StartPasses, StepPasses, MaxPasses, vars
<1>9. ~Crash
  BY DEF Crash
<1>10. /\ Loaded \in Runners /\ Loaded.record = disk /\ Loaded.step_unsubs = {}
       /\ \A t \in Slots : Loaded.tasks[t].pc = "free"
  BY <1>1, LoadedFacts
<1>11. CASE SetupRunning
  <2>1. NewTask(runner) \in Background /\ NewTask(runner) \in Slots
    BY <1>11, NewTaskFree, Places DEF SetupRunning
  <2>2. runner'.tasks[NewTask(runner)].pc = "recoverWait"
    <3>1. Moved(Loaded, runner', NewTask(runner), {"recoverWait"})
      BY <1>10, <1>11, <2>1, WaitMoved DEF SetupRunning
    <3>. QED  BY <3>1 DEF Moved
  <2>. QED  BY <2>1, <2>2 DEF Recovers
<1>12. CASE SetupInactive \/ SetupScheduled
  <2>1. disk.state # "running"
    BY <1>12 DEF SetupInactive, SetupScheduled, Active
  <2>2. Advances(Loaded)
    BY <1>1, <1>12, SetupAdvances DEF Setup
  <2>3. ~Ran(Loaded) /\ ~Finishes(Loaded)
    BY <1>10, <2>1, Places DEF Ran, Finishes
  <2>4. InBoundary(runner') => ~Ran(runner')
    BY Places DEF InBoundary, Ran
  <2>. QED  BY <2>2, <2>3, <2>4 DEF Advances, Walks, Ran, Done
<1>. QED  BY <1>3, <1>4, <1>5, <1>6, <1>7, <1>8, <1>9, <1>11, <1>12 DEF Next, Setup

\* A run that goes on, or begins, suits what is stored.
LEMMA AdvanceSuits ==
    ASSUME AllTimed, TypeOK', Ordered(runner'), NEW r \in Runners, NEW saved \in Records,
           Goes(r, runner'), Advances(r), Tidy(r), Stored(saved, r),
           Chosen(runner') \subseteq Chosen(r), NEW o, Suits(o, clock, saved, r)
    PROVE  Suits(o, clock, saved, runner')
<1>1. runner' \in Runners
  BY DEF TypeOK
<1>2. CASE Walks(r, runner')
  BY <1>1, <1>2, WalkSuits
<1>3. CASE r.record.state # "running" /\ InBoundary(runner')
  BY <1>1, <1>3, BeginSuits
<1>. QED  BY <1>2, <1>3 DEF Advances

\* A step that has started stays the one chosen.
LEMMA StandsKept ==
    ASSUME OneCall, AllTimed, TypeOK, TypeOK', OrderInv, Ordered(runner'), [Next]_vars, Happens,
           ~\E s \in Background : StepStarts(s),
           runner.up => /\ Suits(oven, clock, disk, runner) /\ Stands(oven, runner)
                        /\ Known(runner)
    PROVE  Stands(oven, runner')
<1>1. runner \in Runners /\ runner' \in Runners /\ Ordered(runner)
  BY DEF OrderInv, TypeOK
<1>2. CASE ~runner.up
  BY <1>2, RestartRecovers DEF Stands
<1>3. CASE runner.up /\ Recovers(runner)
  <2>1. PICK s \in Background : Recovering(runner, s)
    BY <1>1, <1>3, WhichByTask DEF Recovers
  <2>2. Recovers(runner') \/ ~Ran(runner') \/ RecoverWait(s)
    BY <2>1, WhileRecovering
  <2>3. RecoverWait(s) /\ Ran(runner') => Stands(oven, runner')
    BY <1>1, <1>3, RecoveredStands
  <2>. QED  BY <2>2, <2>3 DEF Stands
<1>4. CASE runner.up /\ ~Recovers(runner)
  <2> SUFFICES ASSUME Ran(runner')
               PROVE  runner'.record = runner.record /\ Ran(runner)
    BY <1>4 DEF Stands
  <2>1. ~InBoundary(runner') /\ ~Finishes(runner') /\ runner'.record.state = "running"
    BY Places DEF Ran, InBoundary, Finishes, LeavingPcs
  <2>2. \A r : Advances(r) => runner'.record = r.record /\ Ran(r)
    BY <2>1 DEF Advances, Walks
  <2>3. runner.saves # <<>> => Landed.record = runner.record /\ Ran(Landed) = Ran(runner)
    BY <1>1, LandedFacts DEF Ran
  <2>4. runner' # NewRunner
    BY <2>1, NewRests DEF NoRecord
  <2>. QED  BY <1>4, <2>2, <2>3, <2>4 DEF Happens
<1>. QED  BY <1>2, <1>3, <1>4

\* Every step keeps the invariant of what is chosen.
LEMMA ProgrammeKept ==
    ASSUME OneCall, NoBriefSteps, NoFaults, AllTimed, TypeOK, TypeOK', OrderInv, OrderInv',
           StepsInv, ProgrammeInv, [Next]_vars
    PROVE  ProgrammeInv'
<1>1. /\ Ordered(runner) /\ Ordered(runner') /\ Stored(disk, runner) /\ Sound(disk)
      /\ Stored(disk', runner')
      /\ runner \in Runners /\ runner' \in Runners /\ disk \in Records /\ disk' \in Records
  BY DEF OrderInv, Stored, TypeOK
<1>2. StepsInv' /\ Happens /\ Reachable(oven')
  <2>1. StepsInv' /\ Happens
    BY StepsKept
  <2>. QED  BY <2>1 DEF StepsInv, Linked, Reachable
<1>3. ASSUME Suits(oven', clock', disk', runner'), Stands(oven', runner')
      PROVE  ProgrammeInv'
  BY <1>3 DEF ProgrammeInv, Suits, Stands, Fits, Chose, Overdue, Youngest, Writes
<1>4. ASSUME NEW s \in Background, Turned(s) \/ StepStarts(s) PROVE ProgrammeInv'
  <2>1. runner.up
    BY <1>1, <1>4, ResumeOrdered DEF Turned, Resume, Goes, Starts
  <2>2. Suits(oven, clock, disk, runner)
    BY <2>1 DEF ProgrammeInv
  <2>3. UNCHANGED disk /\ Suits(oven', clock', disk, runner') /\ Stands(oven', runner')
    BY <1>1, <1>4, <2>2, StartSuits, TurnSuits
  <2>. QED  BY <1>3, <2>3
<1>5. ASSUME ~(\E s \in Background : Turned(s)), ~(\E s \in Background : StepStarts(s))
      PROVE  ProgrammeInv'
  <2>1. oven'.selected \in {0, oven.selected}
    BY <1>1, <1>5, SelectedMoves
  <2>2. Later(oven, clock, oven', clock')
    BY <1>5, <2>1, StaysOver DEF Later
  <2>3. Chosen(runner') \subseteq Chosen(runner)
    BY <1>1, <1>2, <1>5, NextTame
  <2>4. Stands(oven, runner')
    BY <1>1, <1>2, <1>5, StandsKept DEF ProgrammeInv, StepsInv, Progress, Known
  <2>5. ASSUME Suits(oven, clock, disk', runner') PROVE ProgrammeInv'
    <3>1. Suits(oven', clock', disk', runner') /\ Stands(oven', runner')
      BY <1>1, <2>2, <2>4, <2>5, SuitsLater
    <3>. QED  BY <1>3, <3>1
  <2>6. ASSUME ~runner'.up, UNCHANGED disk PROVE ProgrammeInv'
    <3>1. Fits(oven, clock, disk)
      BY DEF ProgrammeInv
    <3>2. Fits(oven', clock', disk)
      BY <1>1, <2>2, <3>1, SuitsLater
    <3>. QED  BY <2>6, <3>2 DEF ProgrammeInv, Fits, Chose, Overdue
  <2>7. CASE UNCHANGED <<runner, disk, begun>>
    <3>1. runner.up => Suits(oven, clock, disk', runner')
      BY <2>7 DEF ProgrammeInv
    <3>. QED  BY <2>5, <2>6, <2>7, <3>1
  <2>8. CASE UNCHANGED disk /\ runner.up /\ Goes(runner, runner') /\ Advances(runner)
    <3>1. Suits(oven, clock, disk, runner')
      BY <1>1, <2>3, <2>8, OrderedTidy, AdvanceSuits DEF ProgrammeInv
    <3>. QED  BY <2>5, <2>8, <3>1
  <2>9. CASE /\ runner.up /\ runner.saves # <<>> /\ disk' = Head(runner.saves).record
             /\ Goes(Landed, runner') /\ Advances(Landed)
    <3>1. Landed \in Runners /\ Landed.record = runner.record /\ Stored(disk', Landed)
      BY <1>1, <2>9, LandedFacts, LandedStored
    <3>2. /\ Suits(oven, clock, disk', Landed)
          /\ Chosen(Landed) = Chosen(runner) /\ ~InBoundary(Landed)
      BY <1>1, <2>9, LandedSuits DEF ProgrammeInv
    <3>3. ~InBoundary(runner)
      BY <1>1, <2>9, <3>2, LandedFacts DEF InBoundary
    <3>4. Tidy(Landed)
      BY <1>1, <3>1, <3>2, <3>3, OrderedTidy DEF Tidy
    <3>5. Suits(oven, clock, disk', runner')
      BY <1>1, <2>3, <2>9, <3>1, <3>2, <3>4, AdvanceSuits
    <3>. QED  BY <2>5, <3>5
  <2>10. CASE UNCHANGED <<disk, begun>> /\ runner' = NewRunner
    BY <2>6, <2>10, NewRests
  <2>11. CASE /\ UNCHANGED disk /\ ~runner.up
              /\ \/ runner' = Loaded /\ UNCHANGED begun
                 \/ Goes(Loaded, runner') /\ Advances(Loaded)
    <3>1. /\ Suits(oven, clock, disk, Loaded) /\ Chosen(Loaded) = {} /\ ~InBoundary(Loaded)
      BY <1>1, <2>11, LoadedSuits DEF ProgrammeInv
    <3>2. Loaded \in Runners /\ Loaded.record = disk /\ Stored(disk, Loaded)
      BY <1>1, <2>11, LoadedFacts, LoadedKept DEF StepsInv
    <3>3. Chosen(runner) = {} /\ Tidy(Loaded)
      <4>1. Chosen(runner) = {}
        BY <1>1, <2>11, ChosenBetween, BetweenSteps, DownIsNew, NewRests DEF NoRecord
      <4>. QED  BY <1>1, <3>1, <3>2, <4>1 DEF Tidy
    <3>4. Suits(oven, clock, disk, runner')
      BY <1>1, <2>3, <2>11, <3>1, <3>2, <3>3, AdvanceSuits
    <3>. QED  BY <2>5, <2>11, <3>4
  <2>. QED  BY <1>2, <1>5, <2>7, <2>8, <2>9, <2>10, <2>11 DEF Happens
<1>. QED  BY <1>4, <1>5

LEMMA InitProgramme == Init => ProgrammeInv
<1> SUFFICES ASSUME Init PROVE ProgrammeInv
  OBVIOUS
<1>1. /\ runner \in Runners /\ runner.record = NoRecord /\ runner.saves = <<>>
      /\ \A t \in Slots : runner.tasks[t].pc = "free"
  <2>1. runner = [NewRunner EXCEPT !.up = TRUE] /\ NewRunner \in Runners /\ runner \in Runners
    BY InitTypeOK, NewRunnerType DEF Init, TypeOK
  <2>2. /\ runner.record = NewRunner.record /\ runner.saves = NewRunner.saves
        /\ runner.tasks = NewRunner.tasks
    BY <2>1 DEF Runners
  <2>. QED  BY <2>1, <2>2 DEF NewRunner, NoTask
<1>2. disk = NoRecord /\ NoRecord.state = "idle"
  BY DEF Init, NoRecord
<1>3. DOMAIN Writes(runner) = {}
  BY <1>1 DEF Writes
<1>4. ~Ran(runner) /\ ~InBoundary(runner) /\ Chosen(runner) = {}
  BY <1>1, <1>2, Places DEF Ran, InBoundary, Chosen, ChosenPcs, TransitionPcs
<1>. QED  BY <1>2, <1>3, <1>4 DEF ProgrammeInv, Suits, Stands, Fits

\* Whom nobody acts on is at a step that has started.
LEMMA StartedStep ==
    ASSUME TypeOK, OrderInv, runner.record.state = "running", ~runner.transitioning,
           ~Alive(Ending \cup {"stepSave"})
    PROVE  runner.up /\ Ran(runner) /\ ~Recovers(runner)
<1>1. Ordered(runner) /\ Slots = Background \cup Calls
  BY Places DEF OrderInv
<1>2. ~\E s \in Background : Acting(runner, s)
  BY <1>1 DEF Acting, Boundary, Saving, Failing, Finishing, Recovering, Alive, Ending
<1>3. ~Aborting(runner) /\ ~Resting(runner)
  BY <1>1 DEF Aborting, Resting, Alive, Ending
<1>4. Steady(runner)
  BY <1>1, <1>2, <1>3 DEF Ordered
<1>5. ~Recovers(runner)
  BY <1>1 DEF Recovers, Alive, Ending
<1>. QED  BY <1>4, <1>5, WhereItIsNot DEF Steady, Ready, InRun

\* Once a step of a run of timed steps counts as started, the programme that runs is the
\* one of that step, never one the boundary should have stopped (_async_transition stops,
\* sets the dials and starts, and the commit after each step tells a restart what the oven
\* was asked for), through retries, crashes and recoveries, as long as no service call
\* raises and no link drops.
THEOREM EveryStepItsProgramme ==
    ASSUME OneCall, NoBriefSteps, NoFaults, AllTimed
    PROVE  Spec => []RunsItsStep
<1>1. TypeOK /\ TypeOK' /\ OrderInv /\ OrderInv' /\ StepsInv /\ [Next]_vars => StepsInv'
  BY StepsKept
<1>2. TypeOK /\ TypeOK' /\ OrderInv /\ OrderInv' /\ DialInv /\ [Next]_vars => DialInv'
  BY NextDials DEF OrderInv
<1>3. TypeOK /\ TypeOK' /\ OrderInv /\ OrderInv' /\ StepsInv /\ ProgrammeInv /\ [Next]_vars
        => ProgrammeInv'
  BY ProgrammeKept
<1>4. TypeOK /\ OrderInv /\ DialInv /\ ProgrammeInv => RunsItsStep
  <2> SUFFICES ASSUME TypeOK, OrderInv, DialInv, ProgrammeInv, oven.program > 0,
                      runner.record.state = "running", ~runner.transitioning,
                      ~Alive(Ending \cup {"stepSave"})
               PROVE  oven.program = runner.record.step_index
    BY DEF RunsItsStep
  <2>1. Chose(oven, runner.record.step_index)
    BY StartedStep DEF ProgrammeInv, Stands
  <2>2. oven.selected = oven.program /\ oven.program # 0
    BY BoundsAssumption DEF DialInv, TypeOK, Oven, Foreign
  <2>. QED  BY <2>1, <2>2 DEF Chose
<1>. QED  BY <1>1, <1>2, <1>3, <1>4, InitSteps, InitDials, InitProgramme, TypeCorrect, OrderKept,
         PTL DEF Spec

===============================================================================
