----------------------------- MODULE PresetRunner -----------------------------
(***************************************************************************)
(* engine.py: the runner that walks a preset's steps on one appliance.     *)
(*                                                                         *)
(* Everything runs on one event loop, so code between two awaits is one    *)
(* step here.  A task is where its coroutine is suspended (pc) and what it *)
(* remembers; a spawned task runs at once up to its first await.  What     *)
(* runs between two awaits is a function from the runner object, r, to the *)
(* runner object after it; each action says which await ended and which    *)
(* function runs next.                                                     *)
(***************************************************************************)
EXTENDS Appliance, FiniteSets

CONSTANTS
    Presets,        \* the presets a run may be asked for: sequences of steps
    Options,        \* the entry options that are switched on
    StartAttempts,  \* START_ATTEMPTS
    MaxTasks,       \* bound: background tasks alive at once
    MaxCalls,       \* bound: service calls (run, abort) in progress at once
    MaxCrashes      \* bound: how often Home Assistant dies

Kinds == {"timed", "preheat", "hold"}

\* brief: a timed step shorter than the end slack of 90 s, that is of 1 minute.
\* high: a setpoint of at least door_min_setpoint.
Steps == [kind : Kinds, setpoint : {"none", "low", "high"}, brief : BOOLEAN]

ASSUME PresetsAssumption ==
    \A p \in Presets : p \in Seq(Steps) /\ Len(p) \in 1 .. MaxSteps
ASSUME OptionsAssumption == Options \subseteq {"abort_on_door_open", "require_home"}
ASSUME CountsAssumption ==
    /\ StartAttempts \in Nat \ {0} /\ MaxTasks \in Nat \ {0}
    /\ MaxCalls \in Nat /\ MaxCrashes \in Nat

VARIABLES
    runner,    \* the PresetRunner object: lost when Home Assistant dies
    disk,      \* the record in Home Assistant's storage
    clock,     \* how the present compares with the deadlines
    begun,     \* history: the steps of this run the oven was seen running
    crashes    \* how often Home Assistant has died

vars == <<oven, runner, disk, clock, begun, crashes>>

States == {"idle", "scheduled", "running", "finished", "failed"}
Active == {"scheduled", "running"}

\* ends is the step whose end time step_ends_at holds, 0 when it holds none.
Records ==
    [ state : States, preset : Presets \cup {<<>>},
      step_index : 0 .. MaxSteps, ends : 0 .. MaxSteps ]
NoRecord == [state |-> "idle", preset |-> <<>>, step_index |-> 0, ends |-> 0]

\* Where a coroutine waits.  In _async_transition, in the order of the code:
TransitionPcs == {"stopPress", "stopWait", "remoteWait",
                  "select", "setpoint", "duration", "start", "runWait"}
FailPcs == {"failPress", "failSave"}
TaskPcs == TransitionPcs \cup FailPcs \cup
           {"free", "stepSave", "finishPress", "finishSave", "powerOff", "recoverWait"}
CallPcs == {"free", "runSave", "runNowSave", "abortPress", "abortSave"}

Background == 1 .. MaxTasks
Calls == (MaxTasks + 1) .. (MaxTasks + MaxCalls)
Slots == Background \cup Calls

\* step, attempt: the transition's arguments; woken: the future it waits for
\* is resolved; after: what follows _async_fail in the coroutine that called
\* it ("unlock": the finally of _async_run_step, "powerOff": _async_max_reached)
Tasks == [ pc : TaskPcs \cup CallPcs, step : 0 .. MaxSteps, attempt : 0 .. StartAttempts,
           woken : BOOLEAN, after : {"return", "unlock", "powerOff"} ]
NoTask == [pc |-> "free", step |-> 0, attempt |-> 0, woken |-> FALSE, after |-> "return"]

Handlers == {"due", "max", "watch"}
StepHandlers == {"done", "temperature", "timeout"} \X (0 .. MaxSteps)
Nobody == 0

\* saves: the writes Store has been asked for, oldest first, with who awaits it.
Runners ==
    [ up : BOOLEAN, record : Records, transitioning : BOOLEAN,
      unsubs : SUBSET Handlers, step_unsubs : SUBSET StepHandlers,
      door_timer : BOOLEAN, tasks : [Slots -> Tasks],
      saves : Seq([record : Records, by : Slots \cup {Nobody}]) ]
NewRunner ==
    [ up |-> FALSE, record |-> NoRecord, transitioning |-> FALSE, unsubs |-> {},
      step_unsubs |-> {}, door_timer |-> FALSE, tasks |-> [s \in Slots |-> NoTask],
      saves |-> <<>> ]

Phases == {"early", "slack", "over"}
Clocks == [start : {"future", "due", "missed"}, step : [1 .. MaxSteps -> Phases], max : BOOLEAN]

Init ==
    /\ OvenInit
    /\ runner = [NewRunner EXCEPT !.up = TRUE]
    /\ disk = NoRecord
    /\ clock = [start |-> "future", step |-> [k \in 1 .. MaxSteps |-> "early"], max |-> FALSE]
    /\ begun = {}
    /\ crashes = 0

-----------------------------------------------------------------------------
(* Helpers.                                                                *)

StepAt(r, k) == r.record.preset[k]
CurrentStep(r) == StepAt(r, r.record.step_index)
HasStep(r) == r.record.state = "running" /\ r.record.preset # <<>>
Free(r) == {s \in Background : r.tasks[s].pc = "free"}
NewTask(r) == CHOOSE s \in Free(r) : TRUE
HasSlot(r) == Free(r) # {}

At(r, s, pc) == [r EXCEPT !.tasks[s].pc = pc]
End(r, s) == [r EXCEPT !.tasks[s] = NoTask]

\* _async_commit: the record is copied now, written when its turn comes.
Commit(r, s, pc) == [At(r, s, pc) EXCEPT !.saves = Append(@, [record |-> r.record, by |-> s])]

\* async_wait: what each wait waits for.
Holds(pc, o) ==
    CASE pc = "stopWait"    -> ~Busy(o)
      [] pc = "remoteWait"  -> RemoteStart(o) # "no"
      [] pc = "runWait"     -> Operation(o) = "running"
      [] pc = "recoverWait" -> Operation(o) \notin {"offline", "unknown"}
      [] OTHER              -> FALSE
Wait(r, s, pc, o) == [At(r, s, pc) EXCEPT !.tasks[s].woken = Holds(pc, o)]

\* A state change resolves the futures whose check it makes true, for good.
Wake(r, o) ==
    [r EXCEPT !.tasks = [s \in Slots |->
        [r.tasks[s] EXCEPT !.woken = @ \/ Holds(r.tasks[s].pc, o)]]]

\* A cancelled coroutine leaves _async_run_step through its finally.  A write
\* it was waiting for still lands.
InTry(task) == task.pc \in TransitionPcs \/ (task.pc \in FailPcs /\ task.after = "unlock")
Cancel(r, others) ==
    [r EXCEPT
      !.tasks = [s \in Slots |-> IF s \in others THEN NoTask ELSE @[s]],
      !.transitioning = @ /\ \A s \in others : ~InTry(r.tasks[s]),
      !.saves = [i \in DOMAIN @ |->
                    IF @[i].by \in others THEN [@[i] EXCEPT !.by = Nobody] ELSE @[i]]]
\* (mutants) cancels nothing; lets a power-off go on
CancelTasksNone(r, current) == r
CancelTasksNotPowerOff(r, current) ==
    Cancel(r, {s \in Background \ {current} : r.tasks[s].pc # "powerOff"})
CancelTasks(r, current) == Cancel(r, Background \ {current})

\* (mutants) the door timer, the step's handlers, the limit are forgotten
ClearStepHandlersNotDoor(r) == [r EXCEPT !.step_unsubs = {}]
ClearStepHandlers(r) == [r EXCEPT !.step_unsubs = {}, !.door_timer = FALSE]
ClearHandlersNotStep(r) == [r EXCEPT !.unsubs = {}]
ClearHandlers(r) == [ClearStepHandlers(r) EXCEPT !.unsubs = {}]
ArmRunGuardsNotMax(r) == [r EXCEPT !.unsubs = @ \cup {"watch"}]
ArmRunGuards(r) == [r EXCEPT !.unsubs = @ \cup {"max", "watch"}]

Failed(r, s) == Commit([r EXCEPT !.record.state = "failed"], s, "failSave")
Fail(r, s, abort, after, o) ==
    LET q == [ClearHandlers(CancelTasks(r, s)) EXCEPT !.tasks[s].after = after]
    IN  IF abort /\ Busy(o) THEN At(q, s, "failPress") ELSE Failed(q, s)

-----------------------------------------------------------------------------
(* One step: _async_run_step and _async_transition.                        *)

NextDial(r, k, pc) ==
    CASE pc = "select" /\ StepAt(r, k).setpoint # "none"                -> "setpoint"
      [] pc \in {"select", "setpoint"} /\ "duration" \in Roles           -> "duration"
      [] OTHER                                                           -> "start"

\* An unreachable appliance drops this call and the rest of them at once.
Issue(r, s, pc, o) == IF Reachable(o) THEN At(r, s, pc) ELSE Wait(r, s, "runWait", o)

Attempt(r, s, n, o) == Issue([r EXCEPT !.tasks[s].attempt = n], s, "select", o)

\* (mutants) one attempt too many; a retry that does not set the dials again
AttemptFailedTooLate(r, s, o) ==
    IF RemoteStart(o) = "no" \/ r.tasks[s].attempt > StartAttempts
    THEN Fail(r, s, TRUE, "unlock", o)
    ELSE Attempt(r, s, r.tasks[s].attempt + 1, o)
AttemptFailedStartsAgain(r, s, o) ==
    IF RemoteStart(o) = "no" \/ r.tasks[s].attempt = StartAttempts
    THEN Fail(r, s, TRUE, "unlock", o)
    ELSE Issue([r EXCEPT !.tasks[s].attempt = @ + 1], s, "start", o)
AttemptFailed(r, s, o) ==
    IF RemoteStart(o) = "no" \/ r.tasks[s].attempt = StartAttempts
    THEN Fail(r, s, TRUE, "unlock", o)
    ELSE Attempt(r, s, r.tasks[s].attempt + 1, o)

CheckRemoteStart(r, s, o) ==
    IF RemoteStart(o) = "no" THEN Wait(r, s, "remoteWait", o) ELSE Attempt(r, s, 1, o)

\* A first step finds the appliance free: _async_begin has just looked.  A run
\* whose record was acknowledged while it was being saved has lost its preset:
\* the assertion ends the coroutine.
RunStep(r, s, k, o) ==
    LET q == [ClearStepHandlers(r) EXCEPT
                !.record.step_index = k, !.transitioning = TRUE,
                !.tasks[s] = [NoTask EXCEPT !.step = k]]
    IN  IF r.record.preset = <<>> THEN End(r, s)
        ELSE IF Busy(o) THEN At(q, s, "stopPress")
        ELSE CheckRemoteStart(q, s, o)

Finished(r, s) ==
    Commit([r EXCEPT !.record.state = "finished", !.record.ends = 0], s, "finishSave")

\* (mutants) the same step again; the last step left out
StepDoneStays(r, s, o) ==
    IF HasStep(r) /\ r.record.step_index < Len(r.record.preset)
    THEN RunStep(r, s, r.record.step_index, o)
    ELSE Finished(ClearHandlers(r), s)
StepDoneSkipsLast(r, s, o) ==
    IF ~HasStep(r) THEN End(r, s)
    ELSE IF r.record.step_index + 1 < Len(r.record.preset)
    THEN RunStep(r, s, r.record.step_index + 1, o)
    ELSE Finished(ClearHandlers(r), s)
StepDone(r, s, o) ==
    IF ~HasStep(r) THEN End(r, s)
    ELSE IF r.record.step_index < Len(r.record.preset)
    THEN RunStep(r, s, r.record.step_index + 1, o)
    ELSE IF Busy(o) THEN At(ClearHandlers(r), s, "finishPress")
    ELSE Finished(ClearHandlers(r), s)

\* _arm_step: a timer for a timed step; the temperature, and a deadline, for a
\* preheat; nothing for a hold.
ArmStep(r, s, k, o) ==
    CASE StepAt(r, k).kind = "timed" ->
            [End(r, s) EXCEPT !.step_unsubs = @ \cup {<<"done", k>>}]
      [] StepAt(r, k).kind = "preheat" /\ o.heated -> StepDone(r, s, o)
      [] StepAt(r, k).kind = "preheat" /\ ~o.heated ->
            [End(r, s) EXCEPT !.step_unsubs = {<<"temperature", k>>, <<"timeout", k>>}]
      [] OTHER -> End(r, s)

Begin(r, s, o, home) ==
    IF ~home \/ Operation(o) = "offline" \/ Busy(o)
    THEN Fail(r, s, FALSE, "return", o)
    ELSE RunStep(ArmRunGuards([r EXCEPT !.record.state = "running",
                                         !.record.step_index = 1]), s, 1, o)

\* _begin, from whichever step calls it.  The clock of the whole run starts.
Begins(r, s) ==
    \E home \in BOOLEAN :
        /\ home \/ "away" \in Env
        /\ runner' = Begin(r, s, oven, home \/ "require_home" \notin Options)
        /\ IF runner'.record.state = "running"
           THEN clock' = [clock EXCEPT !.max = FALSE] /\ begun' = {}
           ELSE UNCHANGED <<clock, begun>>

-----------------------------------------------------------------------------
(* The listeners of the run: _on_appliance_change.                         *)

Guarded(r) ==
    /\ "abort_on_door_open" \in Options
    /\ HasStep(r)
    /\ CurrentStep(r).setpoint = "high"

Listening(r) == "watch" \in r.unsubs /\ r.record.state = "running" /\ ~r.transitioning

CheckDoor(r, o) ==
    IF Listening(r) THEN [r EXCEPT !.door_timer = DoorOpen(o) /\ Guarded(r)] ELSE r

\* (mutant) any time is near enough to the end
InSlackAlways(r) == HasStep(r) /\ CurrentStep(r).kind = "timed" /\ r.record.ends # 0
InSlack(r) ==
    /\ HasStep(r)
    /\ CurrentStep(r).kind = "timed"
    /\ r.record.ends # 0
    /\ clock.step[r.record.ends] # "early"

CheckOperation(r, o) ==
    IF ~Listening(r) \/ Operation(o) # "idle" THEN r
    ELSE IF InSlack(r) THEN StepDone(r, NewTask(r), o)
    ELSE Fail(r, NewTask(r), FALSE, "return", o)

CheckTemperature(r, o) ==
    IF o.heated /\ r.record.state = "running" /\ \E h \in r.step_unsubs : h[1] = "temperature"
    THEN StepDone(r, NewTask(r), o)
    ELSE r

OnOperation ==
    /\ HasSlot(runner)
    /\ OperationEvent
    /\ runner' = CheckOperation(Wake(runner, oven'), oven')
    /\ UNCHANGED <<disk, clock, begun, crashes>>

OnLinkDrop ==
    /\ LinkDrops
    /\ runner' = IF Reachable(oven') THEN Wake(runner, oven')
                 ELSE CheckDoor(Wake(runner, oven'), oven')
    /\ UNCHANGED <<disk, clock, begun, crashes>>

OnDoor ==
    /\ DoorMoves
    /\ runner' = CheckDoor(runner, oven')
    /\ UNCHANGED <<disk, clock, begun, crashes>>

OnRemoteStart ==
    /\ RemoteChanges
    /\ runner' = Wake(runner, oven')
    /\ UNCHANGED <<disk, clock, begun, crashes>>

OnTemperature ==
    /\ HasSlot(runner)
    /\ TemperatureChanges
    /\ runner' = CheckTemperature(runner, oven')
    /\ UNCHANGED <<disk, clock, begun, crashes>>

-----------------------------------------------------------------------------
(* The awaits of a transition.                                             *)

\* A service call under way: it reaches the oven, or raises.
MayRaise == "faults" \in Env \/ ~Reachable(oven)
Pressed(button) == Reachable(oven) /\ HasRoom(oven) /\ oven' = Press(oven, button)
Raised == MayRaise /\ UNCHANGED oven
Is(s, pc) == runner.tasks[s].pc = pc

\* The abort press of a transition is outside its try: what it raises ends
\* the coroutine.
StopPress(s) ==
    /\ Is(s, "stopPress")
    /\ \/ Pressed("abort") /\ runner' = Wait(runner, s, "stopWait", oven')
       \/ Raised /\ runner' = [End(runner, s) EXCEPT !.transitioning = FALSE]
    /\ UNCHANGED <<disk, clock, begun, crashes>>

StopWait(s) ==
    /\ Is(s, "stopWait")
    /\ runner' = IF runner.tasks[s].woken THEN CheckRemoteStart(runner, s, oven)
                 ELSE Fail(runner, s, TRUE, "unlock", oven)
    /\ UNCHANGED <<oven, disk, clock, begun, crashes>>

RemoteWait(s) ==
    /\ Is(s, "remoteWait")
    /\ runner' = IF runner.tasks[s].woken THEN Attempt(runner, s, 1, oven)
                 ELSE Fail(runner, s, TRUE, "unlock", oven)
    /\ UNCHANGED <<oven, disk, clock, begun, crashes>>

Dial(s) ==
    /\ runner.tasks[s].pc \in Dials
    /\ LET pc == runner.tasks[s].pc
           k == runner.tasks[s].step
       IN  \/ /\ Reachable(oven) /\ TakesDials(oven)
              /\ oven' = Turn(oven, pc, k)
              /\ runner' = Issue(runner, s, NextDial(runner, k, pc), oven')
           \/ /\ MayRaise \/ ~TakesDials(oven)
              /\ runner' = AttemptFailed(runner, s, oven)
              /\ UNCHANGED oven
    /\ UNCHANGED <<disk, clock, begun, crashes>>

StartPress(s) ==
    /\ Is(s, "start")
    /\ \/ Pressed("start") /\ runner' = Wait(runner, s, "runWait", oven')
       \/ Raised /\ runner' = AttemptFailed(runner, s, oven)
    /\ UNCHANGED <<disk, clock, begun, crashes>>

StartTimesOut(s) ==
    /\ Is(s, "runWait") /\ ~runner.tasks[s].woken
    /\ runner' = AttemptFailed(runner, s, oven)
    /\ UNCHANGED <<oven, disk, clock, begun, crashes>>

\* The oven runs: note the step and its end, and persist them.
StepStarts(s) ==
    /\ Is(s, "runWait") /\ runner.tasks[s].woken
    /\ LET k == runner.tasks[s].step
           q == [runner EXCEPT !.transitioning = FALSE]
       IN  IF runner.record.state # "running"
           THEN runner' = End(q, s) /\ UNCHANGED <<clock, begun>>
           ELSE /\ runner' = Commit([q EXCEPT
                        !.record.ends = IF StepAt(q, k).kind = "hold" THEN 0 ELSE k],
                        s, "stepSave")
                /\ clock' = [clock EXCEPT
                        !.step[k] = IF StepAt(q, k).brief THEN "slack" ELSE "early"]
                /\ begun' = begun \cup {k}
    /\ UNCHANGED <<oven, disk, crashes>>

-----------------------------------------------------------------------------
(* The awaits of the failing, finishing and recovering coroutines.  A      *)
(* failed abort press is logged and passed over (_async_safe_abort).       *)

SafeAbort == Pressed("abort") \/ Raised

FailPress(s) ==
    /\ Is(s, "failPress")
    /\ SafeAbort
    /\ runner' = Failed(runner, s)
    /\ UNCHANGED <<disk, clock, begun, crashes>>

FinishPress(s) ==
    /\ Is(s, "finishPress")
    /\ SafeAbort
    /\ runner' = Finished(runner, s)
    /\ UNCHANGED <<disk, clock, begun, crashes>>

PowerOff(s) ==
    /\ Is(s, "powerOff")
    /\ Pressed("off") \/ Raised
    /\ runner' = End(runner, s)
    /\ UNCHANGED <<disk, clock, begun, crashes>>

\* The wait's outcome is ignored: what counts is what the oven reports now.
\* (mutant) re-attaches to what runs, without arming the guards of the run and
\* without asking whether the step is at its end
RecoverWaitUnguarded(s) ==
    /\ Is(s, "recoverWait")
    /\ runner' = IF Operation(oven) # "running" THEN Fail(runner, s, FALSE, "return", oven)
                 ELSE ArmStep(runner, s, runner.record.step_index, oven)
    /\ UNCHANGED <<oven, disk, clock, begun, crashes>>

RecoverWait(s) ==
    /\ Is(s, "recoverWait")
    /\ LET q == ArmRunGuards(runner)
       IN  runner' = IF clock.max THEN Fail(runner, s, TRUE, "powerOff", oven)
                     ELSE IF InSlack(runner) THEN StepDone(q, s, oven)
                     ELSE IF Operation(oven) # "running" THEN Fail(q, s, FALSE, "return", oven)
                     ELSE ArmStep(q, s, q.record.step_index, oven)
    /\ UNCHANGED <<oven, disk, clock, begun, crashes>>

-----------------------------------------------------------------------------
(* Writes.  Store writes one record at a time, in the order asked for; the *)
(* coroutine that asked goes on in the same step.                          *)

Landed == [runner EXCEPT !.saves = Tail(@)]

Lands(s, pc) ==
    /\ runner.saves # <<>>
    /\ Head(runner.saves).by = s
    /\ Is(s, pc)
    /\ disk' = Head(runner.saves).record

StepSaved(s) ==
    /\ Lands(s, "stepSave")
    /\ runner' = ArmStep(Landed, s, runner.tasks[s].step, oven)
    /\ UNCHANGED <<oven, clock, begun, crashes>>

FailSaved(s) ==
    /\ Lands(s, "failSave")
    /\ LET after == runner.tasks[s].after
       IN  runner' = IF after = "powerOff" /\ "power" \in Roles /\ Reachable(oven)
                     THEN At(Landed, s, "powerOff")
                     ELSE [End(Landed, s) EXCEPT !.transitioning = @ /\ after # "unlock"]
    /\ UNCHANGED <<oven, clock, begun, crashes>>

\* A run for now begins once its record is saved.
RunNowSaved(s) ==
    /\ Lands(s, "runNowSave")
    /\ HasSlot(runner)
    /\ Begins(End(Landed, s), NewTask(runner))
    /\ UNCHANGED <<oven, crashes>>

\* The last await of its coroutine.
LastSaved(s) ==
    /\ \E pc \in {"finishSave", "runSave", "abortSave"} : Lands(s, pc)
    /\ runner' = End(Landed, s)
    /\ UNCHANGED <<oven, clock, begun, crashes>>

\* Whoever asked for it has been cancelled.
OrphanSaved ==
    /\ runner.saves # <<>> /\ Head(runner.saves).by = Nobody
    /\ disk' = Head(runner.saves).record
    /\ runner' = Landed
    /\ UNCHANGED <<oven, clock, begun, crashes>>

-----------------------------------------------------------------------------
(* Commands: the run and abort services, and the panel.                    *)

\* What is checked up front: nothing active, remote start not refused.
CallRun(c, p, later) ==
    /\ runner.up /\ Is(c, "free")
    /\ runner.record.state \notin Active
    /\ RemoteStart(oven) # "no"
    /\ LET q == [runner EXCEPT
                    !.record = [NoRecord EXCEPT !.state = "scheduled", !.preset = p]]
       IN  runner' = IF later
                     THEN Commit([q EXCEPT !.unsubs = @ \cup {"due"}], c, "runSave")
                     ELSE Commit(q, c, "runNowSave")
    /\ clock' = [clock EXCEPT !.start = IF later THEN "future" ELSE "due"]
    /\ UNCHANGED <<oven, disk, begun, crashes>>

\* (mutant) an abort that is not saved
AbortedUnsaved(r, c) == End([r EXCEPT !.record.state = "idle"], c)
Aborted(r, c) == Commit([r EXCEPT !.record.state = "idle"], c, "abortSave")

\* (mutant) the schedule's timer stays armed
CallAbortKeepsTimers(c) ==
    /\ runner.up /\ Is(c, "free") /\ runner.record.state = "scheduled"
    /\ runner' = Aborted(CancelTasks(runner, Nobody), c)
    /\ UNCHANGED <<oven, disk, clock, begun, crashes>>

CallAbort(c) ==
    /\ runner.up /\ Is(c, "free")
    /\ LET was == runner.record.state
           q == [ClearHandlers(CancelTasks(runner, Nobody)) EXCEPT !.transitioning = FALSE]
       IN  runner' = IF was = "running" /\ Busy(oven) THEN At(q, c, "abortPress")
                     ELSE IF was \in Active THEN Aborted(q, c)
                     ELSE IF was = "idle" THEN q
                     ELSE Commit([q EXCEPT !.record = NoRecord], c, "abortSave")
    /\ UNCHANGED <<oven, disk, clock, begun, crashes>>

AbortPress(c) ==
    /\ Is(c, "abortPress")
    /\ SafeAbort
    /\ runner' = Aborted(runner, c)
    /\ UNCHANGED <<disk, clock, begun, crashes>>

-----------------------------------------------------------------------------
(* Timers.  A timer fires once its deadline has passed.                    *)

StartComes ==
    /\ HasSlot(runner)
    /\ "due" \in runner.unsubs /\ clock.start # "future"
    /\ Begins([runner EXCEPT !.unsubs = @ \ {"due"}], NewTask(runner))
    /\ UNCHANGED <<oven, disk, crashes>>

StepTimer ==
    /\ HasSlot(runner)
    /\ \E h \in runner.step_unsubs :
          /\ h[1] = "done" /\ clock.step[h[2]] = "over"
          /\ runner' = StepDone([runner EXCEPT !.step_unsubs = @ \ {h}], NewTask(runner), oven)
    /\ UNCHANGED <<oven, disk, clock, begun, crashes>>

PreheatTimeout ==
    /\ HasSlot(runner)
    /\ \E h \in runner.step_unsubs : h[1] = "timeout" /\ clock.step[h[2]] = "over"
    /\ runner' = Fail(runner, NewTask(runner), TRUE, "return", oven)
    /\ UNCHANGED <<oven, disk, clock, begun, crashes>>

MaxReached ==
    /\ HasSlot(runner)
    /\ "max" \in runner.unsubs /\ clock.max
    /\ runner' = Fail(runner, NewTask(runner), TRUE, "powerOff", oven)
    /\ UNCHANGED <<oven, disk, clock, begun, crashes>>

DoorGraceOver ==
    /\ HasSlot(runner)
    /\ runner.door_timer
    /\ runner' = Fail([runner EXCEPT !.door_timer = FALSE], NewTask(runner), TRUE, "return", oven)
    /\ UNCHANGED <<oven, disk, clock, begun, crashes>>

\* A deadline passes.  A write takes less time than a step, and than the
\* _IMMEDIATE seconds a later start is away; a start is missed only while Home
\* Assistant is down.
StartPasses ==
    /\ runner.saves = <<>>
    /\ "scheduled" \in {runner.record.state, IF runner.up THEN "idle" ELSE disk.state}
    /\ \/ clock.start = "future" /\ clock' = [clock EXCEPT !.start = "due"]
       \/ ~runner.up /\ clock.start = "due" /\ clock' = [clock EXCEPT !.start = "missed"]
    /\ UNCHANGED <<oven, runner, disk, begun, crashes>>

StepPasses ==
    /\ runner.saves = <<>>
    /\ \E k \in {runner.record.ends, disk.ends} \ {0} :
          \/ clock.step[k] = "early" /\ clock' = [clock EXCEPT !.step[k] = "slack"]
          \/ clock.step[k] = "slack" /\ clock' = [clock EXCEPT !.step[k] = "over"]
    /\ UNCHANGED <<oven, runner, disk, begun, crashes>>

MaxPasses ==
    /\ "running" \in {runner.record.state, IF runner.up THEN "idle" ELSE disk.state}
    /\ ~clock.max
    /\ clock' = [clock EXCEPT !.max = TRUE]
    /\ UNCHANGED <<oven, runner, disk, begun, crashes>>

-----------------------------------------------------------------------------
(* Home Assistant dies and comes back: async_setup.                        *)

Crash ==
    /\ runner.up /\ crashes < MaxCrashes
    /\ runner' = NewRunner
    /\ crashes' = crashes + 1
    /\ UNCHANGED <<oven, disk, clock, begun>>

\* The new runner, with the record as it was saved.
Loaded == [runner EXCEPT !.up = TRUE, !.record = disk]

SetupInactive ==
    /\ HasSlot(runner) /\ ~runner.up /\ disk.state \notin Active
    /\ runner' = Loaded
    /\ UNCHANGED <<oven, disk, clock, begun, crashes>>

SetupRunning ==
    /\ HasSlot(runner) /\ ~runner.up /\ disk.state = "running"
    /\ runner' = Wait(Loaded, NewTask(runner), "recoverWait", oven)
    /\ UNCHANGED <<oven, disk, clock, begun, crashes>>

\* (mutant) a schedule still in the future is not armed again
SetupScheduledUnarmed ==
    /\ HasSlot(runner) /\ ~runner.up /\ disk.state = "scheduled"
    /\ clock.start = "future" /\ runner' = Loaded
    /\ UNCHANGED <<oven, disk, clock, begun, crashes>>

\* _recover_scheduled: in time, just due, or missed.
SetupScheduled ==
    /\ HasSlot(runner) /\ ~runner.up /\ disk.state = "scheduled"
    /\ CASE clock.start = "future" ->
              runner' = [Loaded EXCEPT !.unsubs = {"due"}] /\ UNCHANGED <<clock, begun>>
         [] clock.start = "due" -> Begins(Loaded, NewTask(runner))
         [] clock.start = "missed" ->
              /\ runner' = Fail(Loaded, NewTask(runner), FALSE, "return", oven)
              /\ UNCHANGED <<clock, begun>>
    /\ UNCHANGED <<oven, disk, crashes>>

Setup == SetupInactive \/ SetupRunning \/ SetupScheduled

-----------------------------------------------------------------------------
Observe == OnOperation \/ OnLinkDrop \/ OnDoor \/ OnRemoteStart \/ OnTemperature

Resume(s) ==
    \/ StopPress(s) \/ StopWait(s) \/ RemoteWait(s) \/ Dial(s) \/ StartPress(s)
    \/ StartTimesOut(s) \/ StepStarts(s) \/ FailPress(s) \/ FinishPress(s)
    \/ PowerOff(s) \/ RecoverWait(s)

Save ==
    \/ \E s \in Slots : StepSaved(s) \/ FailSaved(s) \/ RunNowSaved(s) \/ LastSaved(s)
    \/ OrphanSaved

Command ==
    \E c \in Calls :
        \/ \E p \in Presets, later \in BOOLEAN : CallRun(c, p, later)
        \/ CallAbort(c) \/ AbortPress(c)

Timer == StartComes \/ StepTimer \/ PreheatTimeout \/ MaxReached \/ DoorGraceOver

TimePasses == StartPasses \/ StepPasses \/ MaxPasses

Next ==
    \/ Observe \/ (\E s \in Background : Resume(s)) \/ Save
    \/ Command \/ Timer \/ TimePasses \/ Crash \/ Setup

Spec == Init /\ [][Next]_vars

\* The event loop runs what is ready, timers fire, writes land, the oven acts
\* on what it accepted; nobody is obliged to move a door or call a service.
Fairness ==
    /\ \A s \in Background : WF_vars(Resume(s))
    /\ \A c \in Calls : WF_vars(AbortPress(c))
    /\ WF_vars(Save)
    /\ WF_vars(OnOperation /\ ActOnCommand)
    /\ WF_vars(StartComes) /\ WF_vars(StepTimer) /\ WF_vars(PreheatTimeout)
    /\ WF_vars(MaxReached) /\ WF_vars(DoorGraceOver)
    /\ WF_vars(StartPasses) /\ WF_vars(StepPasses) /\ WF_vars(MaxPasses)
    /\ WF_vars(Setup)

FairSpec == Spec /\ Fairness

-----------------------------------------------------------------------------
TypeOK ==
    /\ oven \in Oven
    /\ runner \in Runners
    /\ disk \in Records
    /\ clock \in Clocks
    /\ begun \in SUBSET (0 .. MaxSteps)
    /\ crashes \in 0 .. MaxCrashes

Alive(pcs) == \E s \in Slots : runner.tasks[s].pc \in pcs

\* Ending: the tasks that end a run, or arm its limit again after a restart.
Ending == {"failPress", "finishPress", "abortPress", "recoverWait"}

\* max_total_minutes bounds the run "regardless of step state" (engine.py): as
\* long as a run is running its limit is armed or a task that ends it is under
\* way, however calls overlap and tasks are cancelled.
BoundedRun ==
    runner.record.state = "running" => "max" \in runner.unsubs \/ Alive(Ending)

\* A scheduled run is not forgotten, across crashes too: its timer is armed or
\* the call that made it is about to begin it.
ScheduleAttended ==
    runner.record.state = "scheduled" => "due" \in runner.unsubs \/ Alive({"runNowSave"})

\* A transition on its way to pressing start is the only one, and is for the
\* step the run is at: _cancel_tasks leaves no task behind that starts the oven
\* for a run that failed, finished or was aborted.
OneTransition ==
    \A s \in Slots : runner.tasks[s].pc \in TransitionPcs =>
        /\ runner.record.state = "running" /\ runner.transitioning
        /\ runner.tasks[s].step = runner.record.step_index
        /\ \A t \in Slots \ {s} : runner.tasks[t].pc \notin TransitionPcs

\* The commit after each step: a step the disk knows to be running is never
\* started again, wherever Home Assistant died.
SavedStepNotRestarted ==
    \A s \in Slots : runner.tasks[s].pc \in TransitionPcs =>
        /\ disk.state \in Active
        /\ disk.state = "running" => disk.step_index < runner.tasks[s].step

\* A preset that reports finished has had the oven running every one of its
\* steps (while no abort press raises).
FinishedRanEveryStep ==
    runner.record.state = "finished" => begun = 1 .. Len(runner.record.preset)

\* _clear_handlers: once a run is over none of its timers and listeners is left
\* to act on the next run.
QuietWhenOver ==
    runner.record.state \notin Active =>
        runner.unsubs = {} /\ runner.step_unsubs = {} /\ ~runner.door_timer

\* _check_door: the grace timer runs only while the door of a hot step is
\* reported open, so a door closed in time, a lost link or the next step stops it.
DoorTimerSound == runner.door_timer => Guarded(runner) /\ DoorOpen(oven)

\* The dead-man's switch: a preset's programme never runs on the oven unless
\* its own timer was set for it, through retries, raised and dropped calls.
OwnTimerSet ==
    oven.program > 0 /\ "duration" \in Roles =>
        oven.selected = oven.program /\ "duration" \in oven.dials

\* "Each step boundary is abort, wait until stopped, ..., start" (README): once a
\* step counts as started, the programme that runs is the one of that step, never
\* one the boundary should have stopped, through crashes and recovery too (while
\* the link does not drop in the middle of a boundary, and of timed steps: see
\* the README).
RunsItsStep ==
    /\ runner.record.state = "running" /\ ~runner.transitioning
    /\ runner.record.ends = runner.record.step_index
    /\ ~Alive(Ending \cup {"stepSave"})
    /\ oven.program > 0
    => oven.program = runner.record.step_index

\* Tasks do not pile up: MaxTasks slots always suffice.
NoTaskPileUp == HasSlot(runner)

\* A run that was stopped stays stopped until somebody runs a preset again.
AbortSticks ==
    [][runner.up /\ runner.record.state = "idle" => runner'.record.state # "running"]_vars

\* A timed step that is left for the next one, or for the end, has run, and its
\* duration has passed but for the end slack.
TimedStepRunsOut ==
    [][ /\ HasStep(runner) /\ CurrentStep(runner).kind = "timed"
        /\ \/ runner'.record.state = "finished"
           \/ HasStep(runner') /\ runner'.record.step_index # runner.record.step_index
        => LET k == runner.record.step_index IN k \in begun /\ clock.step[k] # "early" ]_vars

\* Every run ends, by its steps or by max_total_minutes, however the oven, its
\* link and the calls behave.
RunEnds == (runner.record.state = "running") ~> (runner.record.state # "running")

\* Every scheduled run is begun, refused, missed or aborted in the end.
ScheduleResolves == (runner.record.state = "scheduled") ~> (runner.record.state # "scheduled")

\* The runner's states, its writes and its restarts are those of RunLifecycle.
Lifecycle ==
    INSTANCE RunLifecycle WITH
        state <- IF runner.up THEN runner.record.state ELSE "down",
        queue <- [i \in DOMAIN runner.saves |-> runner.saves[i].record.state],
        saved <- disk.state

FollowsLifecycle == Lifecycle!LifecycleSpec

-----------------------------------------------------------------------------
(* What the documentation says and the code does not keep.                 *)

\* "If the door stays open longer than the grace period while the setpoint is
\* at least 150 C, the preset aborts" (README): while a hot step runs, an open
\* door has its timer.
OpenDoorTimed ==
    Listening(runner) /\ Guarded(runner) /\ DoorOpen(oven) /\ ~Alive({"stepSave"})
        => runner.door_timer

=============================================================================
