------------------------------- MODULE RunTimes -------------------------------
(***************************************************************************)
(* The times of a run: models.py's planning and what engine.py computes    *)
(* with a clock.  PresetRunner says in which order things happen; here the *)
(* clock is a number, writes take no time, a transition is one stretch of  *)
(* it (its end, not its awaits, matters), and what is asked is whether the *)
(* plan, the step's end, the limit, the oven's own timer and the options,  *)
(* which may change at any time, fit together.                             *)
(***************************************************************************)
EXTENDS Integers, Sequences

CONSTANTS
    Presets,        \* the presets a run may be asked for
    PreheatMinutes, \* the values people give the options preheat_minutes
    MaxTotals,      \*   and max_total_minutes
    DefaultPreheat, \* DEFAULT_PREHEAT_MINUTES
    DefaultMaxTotal,\* DEFAULT_MAX_TOTAL_MINUTES
    Uppers,         \* the maximum the duration entity has
    Immediate,      \* _IMMEDIATE
    EndSlack,       \* _END_SLACK
    MissedGrace,    \* MISSED_START_GRACE
    ShortestHold,   \* the least that is set on the oven for a hold
    StopTimeout,    \* STOP_TIMEOUT and the wait for remote start
    StartTimeout,   \* START_TIMEOUT
    StartAttempts,  \* START_ATTEMPTS
    RecoveryTimeout,\* RECOVERY_TIMEOUT
    OvenDelay,      \* how long the oven may take to act on a start
    Leads,          \* how far ahead people ask for a start or a finish
    Horizon,        \* bound: the last time that is looked at
    MaxRuns,        \* bound: how many runs are asked for
    MaxChanges,     \* bound: how often options are changed
    MaxDowns        \* bound: how often Home Assistant goes down

\* minutes: a timed step's duration, a preheat's timeout.
Steps == [kind : {"timed", "preheat", "hold"}, minutes : Nat]

ASSUME TimedPresets == \A p \in Presets : p \in Seq(Steps) /\ p # <<>>
ASSUME OptionValues ==
    /\ DefaultPreheat \in PreheatMinutes /\ PreheatMinutes \subseteq Nat
    /\ DefaultMaxTotal \in MaxTotals /\ MaxTotals \subseteq Nat \ {0}
ASSUME UppersAssumption == Uppers \subseteq Nat \ {0}
ASSUME DelaysAssumption ==
    /\ {Immediate, EndSlack, MissedGrace, ShortestHold, StopTimeout, StartTimeout,
        StartAttempts, RecoveryTimeout, OvenDelay, Horizon, MaxRuns, MaxChanges,
        MaxDowns} \subseteq Nat
    /\ Leads \subseteq Int
    /\ Immediate <= MissedGrace
    /\ StartAttempts > 0
    \* both attempts fit into the slack: 2 * 30 s and 90 s
    /\ StartAttempts * StartTimeout <= EndSlack

VARIABLES
    now,
    options,   \* the entry's options, read live
    runner,    \* the PresetRunner object
    disk,      \* its record as it was saved
    oven,      \* the oven, and what its operation entity last said
    history,   \* what the properties compare with
    runs,      \* how many runs were asked for
    changes,   \* how often the options were changed
    downs      \* how often Home Assistant went down

vars == <<now, options, runner, disk, oven, history, runs, changes, downs>>

None == -1
Active == {"scheduled", "running"}

NoRecord ==
    [ state |-> "idle", preset |-> <<>>, step_index |-> 0, start_at |-> None,
      ready_at |-> None, started_at |-> None, step_started_at |-> None,
      step_ends_at |-> None, last_error |-> "none" ]

(***************************************************************************)
(* phase: "steady" outside a transition; "stopping" while the oven is being*)
(* stopped and remote start waited for, "starting" from the first attempt, *)
(* "recovering" while the entities are waited for after a restart.         *)
(* deadline: when what the phase waits for times out.  due, limit, timer:  *)
(* the armed timers of the schedule, of the run, of the step.              *)
(***************************************************************************)
NewRunner ==
    [ up |-> FALSE, record |-> NoRecord, phase |-> "steady", deadline |-> None,
      seconds |-> 0, attempt |-> 0, due |-> None, limit |-> None, timer |-> None ]

(***************************************************************************)
(* of: the programme that runs, by the transition that started it; until:  *)
(* when the oven's own timer stops it; pressed: by when the oven acts on a *)
(* start it has accepted; dialled, duration: its dials; seen: what the     *)
(* operation entity says; upper: the duration entity's maximum; ran_out    *)
(* (history): the programme the oven's own timer stopped last.             *)
(***************************************************************************)
NoProgramme == 0
NewOven ==
    [ of |-> NoProgramme, until |-> None, pressed |-> None, dialled |-> NoProgramme,
      duration |-> 0, seen |-> "idle", upper |-> 0, ran_out |-> NoProgramme ]

\* began: when the latest run began; limits: the values max_total had since;
\* planned: preheat_minutes when it was asked for; transitions: how many there
\* were, of all runs; lost: the steps of the latest run that the record has come
\* to without their being started, and that have not been since.
NoHistory ==
    [began |-> None, limits |-> {}, planned |-> 0, transitions |-> 0, lost |-> {}]

Init ==
    /\ now = 0
    /\ options = [preheat_minutes |-> DefaultPreheat, max_total |-> DefaultMaxTotal]
    /\ runner = [NewRunner EXCEPT !.up = TRUE]
    /\ disk = NoRecord
    /\ \E u \in Uppers : oven = [NewOven EXCEPT !.upper = u]
    /\ history = NoHistory /\ runs = 0 /\ changes = 0 /\ downs = 0

-----------------------------------------------------------------------------
(* models.py.                                                              *)

\* What a step is planned with: a hold is ready when it begins.
PlannedStep(step, preheat) ==
    CASE step.kind = "timed"   -> step.minutes
      [] step.kind = "preheat" -> preheat
      [] step.kind = "hold"    -> 0

\* What the first k numbers add up to, for each k.
Sums(terms) ==
    LET sum[k \in 0 .. Len(terms)] == IF k = 0 THEN 0 ELSE sum[k - 1] + terms[k]
    IN  sum
Total(terms) == Sums(terms)[Len(terms)]

Planned(steps, preheat) ==
    Total([i \in DOMAIN steps |-> PlannedStep(steps[i], preheat)])

\* (mutant) plans with the preheat's timeout, not its estimate
StartForReadyByTimeout(preset, ready_at, preheat) ==
    ready_at - Total([i \in DOMAIN preset |-> preset[i].minutes])
StartForReady(preset, ready_at, preheat) == ready_at - Planned(preset, preheat)

Earlier(a, b) == IF a <= b THEN a ELSE b
Later(a, b) == IF a >= b THEN a ELSE b

-----------------------------------------------------------------------------
(* The runner, as functions from the object to the object.                 *)

CurrentStep(r) == r.record.preset[r.record.step_index]
Rest(r) == SubSeq(r.record.preset, r.record.step_index + 1, Len(r.record.preset))

EstimatedFinish(r) ==
    CASE r.record.state = "scheduled" ->
            r.record.start_at + Planned(r.record.preset, options.preheat_minutes)
      [] r.record.state = "running" /\ CurrentStep(r).kind = "preheat" ->
            (IF r.record.step_started_at = None THEN now ELSE r.record.step_started_at)
              + options.preheat_minutes + Planned(Rest(r), options.preheat_minutes)
      [] r.record.state = "running" /\ CurrentStep(r).kind # "preheat" ->
            (IF r.record.step_ends_at = None THEN now ELSE r.record.step_ends_at)
              + Planned(Rest(r), options.preheat_minutes)

\* What is set on the oven itself.
\* (mutant) a hold is given all of max_total, not what is left of it
ApplianceDurationWhole(r, step) ==
    Earlier(IF step.kind = "hold" THEN options.max_total ELSE step.minutes, oven.upper)
ApplianceDuration(r, step) ==
    LET left == r.record.started_at + options.max_total - now
    IN  Earlier(IF step.kind = "hold" THEN Later(ShortestHold, left) ELSE step.minutes,
                oven.upper)

\* _clear_handlers, and the tasks that are cancelled with it.
Cleared(r) ==
    [r EXCEPT !.phase = "steady", !.deadline = None, !.seconds = 0, !.attempt = 0,
              !.due = None, !.limit = None, !.timer = None]

Ended(r, state, error) ==
    [Cleared(r) EXCEPT !.record.state = state, !.record.last_error = error]

\* A press of abort is acted on now or lost, whether or not it raises; it is not
\* made when the oven does not report that it is busy.
Stopped(o) == [o EXCEPT !.of = NoProgramme, !.until = None, !.pressed = None,
                        !.dialled = NoProgramme, !.duration = 0]
AbortPressed(o) == IF o.seen = "running" THEN {o, Stopped(o)} ELSE {o}
\* At the limit the oven is switched off as well, whatever it reports.
SwitchedOff(o) == {o, Stopped(o)}

Save == disk' = runner'.record

\* _async_fail, with what may have become of the oven by then.
Fails(r, error, ovens) ==
    /\ runner' = Ended(r, "failed", error)
    /\ oven' \in ovens
    /\ Save
    /\ UNCHANGED history

\* _async_run_step up to the wait of its transition.  If the press of abort
\* raises, nothing catches it: the task is over, and the record stays running at
\* a step that is not, with the times of the step before and no timer but the
\* limit.
RunStep(r, k, o, h) ==
    /\ oven' \in AbortPressed(o)
    /\ UNCHANGED disk
    /\ \/ /\ runner' = [r EXCEPT !.record.step_index = k, !.timer = None,
                                  !.phase = "stopping", !.deadline = now + StopTimeout]
          /\ history' = [h EXCEPT !.transitions = @ + 1]
       \/ /\ o.seen = "running"
          /\ runner' = [r EXCEPT !.record.step_index = k, !.timer = None]
          /\ history' = [h EXCEPT !.transitions = @ + 1, !.lost = @ \cup {k}]

\* (mutant) the last step is left out
StepDoneSkipsLast(r, o) ==
    IF r.record.step_index + 1 < Len(r.record.preset)
    THEN RunStep(r, r.record.step_index + 1, o, history)
    ELSE /\ runner' = [Ended(r, "finished", r.record.last_error)
                        EXCEPT !.record.step_ends_at = None]
         /\ oven' \in AbortPressed(o)
         /\ Save
         /\ UNCHANGED history
StepDone(r, o) ==
    IF r.record.step_index < Len(r.record.preset)
    THEN RunStep(r, r.record.step_index + 1, o, history)
    ELSE /\ runner' = [Ended(r, "finished", r.record.last_error)
                        EXCEPT !.record.step_ends_at = None]
         /\ oven' \in AbortPressed(o)
         /\ Save
         /\ UNCHANGED history

\* _async_begin: refused when the oven is busy, offline, or nobody is home.  An
\* oven that has not said anything yet may be either offline or unknown.
Begin ==
    \/ /\ oven.seen # "running"
       /\ RunStep([runner EXCEPT !.record.state = "running", !.record.started_at = now,
                                 !.due = None, !.limit = now + options.max_total], 1, oven,
                  [history EXCEPT !.began = now, !.limits = {options.max_total}, !.lost = {}])
    \/ Fails(runner, "refused", {oven})

-----------------------------------------------------------------------------
(* Commands.                                                               *)

\* async_run's last lines: what a schedule starts from, and when.
Accepted(preset, start, ready) ==
    [runner EXCEPT !.record = [NoRecord EXCEPT !.state = "scheduled", !.preset = preset,
                                               !.start_at = start, !.ready_at = ready]]
Accept(preset, start, ready) ==
    /\ start >= now - Immediate
    /\ runner' = [Accepted(preset, start, ready)
                   EXCEPT !.due = IF start > now + Immediate THEN start ELSE now]
    /\ history' = [history EXCEPT !.planned = options.preheat_minutes]
    /\ Save /\ UNCHANGED oven

Run ==
    /\ runner.up /\ runner.record.state \notin Active
    /\ runs < MaxRuns /\ runs' = runs + 1
    /\ \E p \in Presets, lead \in Leads :
          \/ Accept(p, now + lead, None)
          \/ Accept(p, StartForReady(p, now + lead, options.preheat_minutes), now + lead)
    /\ UNCHANGED <<now, options, changes, downs>>

\* A finished or failed run is acknowledged.
Abort ==
    /\ runner.up /\ runner.record.state # "idle"
    /\ runner' = IF runner.record.state \in Active
                 THEN [Cleared(runner) EXCEPT !.record.state = "idle"]
                 ELSE [Cleared(runner) EXCEPT !.record = NoRecord]
    /\ oven' \in IF runner.record.state = "running" THEN AbortPressed(oven) ELSE {oven}
    /\ Save
    /\ UNCHANGED <<now, options, history, runs, changes, downs>>

\* Somebody saves the options form.
ChangeOptions ==
    /\ changes < MaxChanges /\ changes' = changes + 1
    /\ options' \in [preheat_minutes : PreheatMinutes, max_total : MaxTotals] \ {options}
    /\ history' = [history EXCEPT !.limits = @ \cup {options'.max_total}]
    /\ UNCHANGED <<now, runner, disk, oven, runs, downs>>

-----------------------------------------------------------------------------
(* A transition.                                                           *)

\* One attempt at the dials and at start.  An oven that is free accepts it; a
\* call that is dropped, or to an oven that is not free, changes nothing.
Pressed(seconds) ==
    \/ /\ oven.of = NoProgramme /\ oven.pressed = None
       /\ oven' = [oven EXCEPT !.pressed = now + OvenDelay,
                               !.dialled = history.transitions, !.duration = seconds]
    \/ UNCHANGED oven

\* The duration is computed once, before the first attempt.
FirstAttempt ==
    /\ runner.phase = "stopping" /\ oven.seen # "running"
    /\ LET seconds == ApplianceDuration(runner, CurrentStep(runner))
       IN  /\ Pressed(seconds)
           /\ runner' = [runner EXCEPT !.phase = "starting", !.attempt = 1,
                                       !.seconds = seconds, !.deadline = now + StartTimeout]
    /\ UNCHANGED <<now, options, disk, history, runs, changes, downs>>

\* The wait for the start times out, or a call raises before that.
\* (mutant) one attempt too many
NextAttemptMore ==
    /\ runner.phase = "starting" /\ runner.attempt <= StartAttempts
    /\ oven.seen # "running"
    /\ Pressed(runner.seconds)
    /\ runner' = [runner EXCEPT !.attempt = @ + 1, !.deadline = now + StartTimeout]
    /\ UNCHANGED <<now, options, disk, history, runs, changes, downs>>
NextAttempt ==
    /\ runner.phase = "starting" /\ runner.attempt < StartAttempts
    /\ oven.seen # "running"
    /\ Pressed(runner.seconds)
    /\ runner' = [runner EXCEPT !.attempt = @ + 1, !.deadline = now + StartTimeout]
    /\ UNCHANGED <<now, options, disk, history, runs, changes, downs>>

\* Stop failed, no remote start, or the last attempt failed.
TransitionFails ==
    /\ runner.phase \in {"stopping", "starting"}
    /\ Fails(runner, "not started", AbortPressed(oven))
    /\ UNCHANGED <<now, options, runs, changes, downs>>

\* _arm_step: nothing for a hold.
ArmStep(r) == [r EXCEPT !.phase = "steady", !.deadline = None, !.timer = r.record.step_ends_at]

\* (mutant) the end is rounded up to the slack
StepStartsRounded ==
    /\ runner.phase = "starting" /\ oven.seen = "running"
    /\ LET step == CurrentStep(runner)
       IN  runner' = ArmStep([runner EXCEPT
              !.seconds = 0, !.attempt = 0, !.record.step_started_at = now,
              !.record.step_ends_at =
                  IF step.kind = "hold" THEN None ELSE now + step.minutes + EndSlack])
    /\ history' = [history EXCEPT !.lost = @ \ {runner.record.step_index}]
    /\ Save
    /\ UNCHANGED <<now, options, oven, runs, changes, downs>>

StepStarts ==
    /\ runner.phase = "starting" /\ oven.seen = "running"
    /\ LET step == CurrentStep(runner)
       IN  runner' = ArmStep([runner EXCEPT
              !.seconds = 0, !.attempt = 0, !.record.step_started_at = now,
              !.record.step_ends_at = IF step.kind = "hold" THEN None ELSE now + step.minutes])
    /\ history' = [history EXCEPT !.lost = @ \ {runner.record.step_index}]
    /\ Save
    /\ UNCHANGED <<now, options, oven, runs, changes, downs>>

-----------------------------------------------------------------------------
(* The ends of things.                                                     *)

Steady == runner.up /\ runner.phase = "steady" /\ runner.record.state = "running"

Due ==
    /\ runner.due # None /\ now >= runner.due
    /\ Begin
    /\ UNCHANGED <<now, options, runs, changes, downs>>

StepTimer ==
    /\ runner.timer # None /\ now >= runner.timer
    /\ IF CurrentStep(runner).kind = "timed" THEN StepDone(runner, oven)
       ELSE Fails(runner, "preheat_timeout", AbortPressed(oven))
    /\ UNCHANGED <<now, options, runs, changes, downs>>

\* _arm_step's temperature listener, which comes and goes with the timeout.
Heated ==
    /\ Steady /\ runner.timer # None
    /\ CurrentStep(runner).kind = "preheat" /\ oven.seen # "offline"
    /\ StepDone(runner, oven)
    /\ UNCHANGED <<now, options, runs, changes, downs>>

LimitReached ==
    /\ runner.limit # None /\ now >= runner.limit
    /\ Fails(runner, "max_duration", SwitchedOff(oven))
    /\ UNCHANGED <<now, options, runs, changes, downs>>

\* (mutant) no slack
NearEndExact(r) == CurrentStep(r).kind = "timed" /\ now >= r.record.step_ends_at
NearEnd(r) == CurrentStep(r).kind = "timed" /\ now >= r.record.step_ends_at - EndSlack

\* The operation entity changes, for one of the reasons there are: it follows
\* the oven, or the link drops.  _check_operation.
Seen ==
    /\ \E op \in {IF oven.of = NoProgramme THEN "idle" ELSE "running", "offline"} \ {oven.seen} :
         LET o == [oven EXCEPT !.seen = op]
         IN  IF ~Steady \/ op # "idle" THEN oven' = o /\ UNCHANGED <<runner, disk, history>>
             ELSE IF NearEnd(runner) THEN StepDone(runner, o)
             ELSE Fails(runner, "appliance_stopped", {o})
    /\ UNCHANGED <<now, options, runs, changes, downs>>

-----------------------------------------------------------------------------
(* Home Assistant goes down and comes back.                                *)

Down ==
    /\ runner.up /\ downs < MaxDowns /\ downs' = downs + 1
    /\ runner' = NewRunner
    /\ oven' = [oven EXCEPT !.seen = "offline"]
    /\ UNCHANGED <<now, options, disk, history, runs, changes>>

Loaded == [runner EXCEPT !.up = TRUE, !.record = disk]

\* (mutant) the schedule is begun however late
RecoverScheduledLate ==
    /\ runner' = [Loaded EXCEPT !.due = Later(disk.start_at, now)]
    /\ UNCHANGED <<oven, disk, history>>
RecoverScheduled ==
    IF now > disk.start_at + MissedGrace
    THEN Fails(Loaded, "missed_start", {oven})
    ELSE /\ runner' = [Loaded EXCEPT !.due = Later(disk.start_at, now)]
         /\ UNCHANGED <<oven, disk, history>>

Up ==
    /\ ~runner.up
    /\ CASE disk.state = "scheduled" -> RecoverScheduled
         [] disk.state = "running" ->
              /\ runner' = [Loaded EXCEPT !.phase = "recovering",
                                          !.deadline = now + RecoveryTimeout]
              /\ UNCHANGED <<oven, disk, history>>
         [] OTHER -> runner' = Loaded /\ UNCHANGED <<oven, disk, history>>
    /\ UNCHANGED <<now, options, runs, changes, downs>>

\* (mutants) the limit is counted from the restart, the end of the step too
RecoverRunningAfresh ==
    /\ runner.phase = "recovering" /\ (oven.seen # "offline" \/ now >= runner.deadline)
    /\ LET r == [runner EXCEPT !.phase = "steady", !.deadline = None,
                               !.limit = now + options.max_total]
       IN  IF NearEnd(r) THEN StepDone(r, oven)
           ELSE IF oven.seen # "running" THEN Fails(r, "interrupted", {oven})
           ELSE runner' = ArmStep(r) /\ UNCHANGED <<oven, disk, history>>
    /\ UNCHANGED <<now, options, runs, changes, downs>>
RecoverRunningStepAfresh ==
    /\ runner.phase = "recovering" /\ (oven.seen # "offline" \/ now >= runner.deadline)
    /\ LET r == [runner EXCEPT !.phase = "steady", !.deadline = None,
                               !.limit = runner.record.started_at + options.max_total]
       IN  IF oven.seen # "running" THEN Fails(r, "interrupted", {oven})
           ELSE /\ runner' = [ArmStep(r) EXCEPT !.timer = now + CurrentStep(r).minutes]
                /\ UNCHANGED <<oven, disk, history>>
    /\ UNCHANGED <<now, options, runs, changes, downs>>

\* (mutant) goes by what the oven says even when the step is at its end
RecoverRunningByOven ==
    /\ runner.phase = "recovering" /\ (oven.seen # "offline" \/ now >= runner.deadline)
    /\ LET limit == runner.record.started_at + options.max_total
           r == [runner EXCEPT !.phase = "steady", !.deadline = None, !.limit = limit]
       IN  IF now >= limit THEN Fails(runner, "max_duration", SwitchedOff(oven))
           ELSE IF oven.seen # "running" THEN Fails(r, "interrupted", {oven})
           ELSE runner' = ArmStep(r) /\ UNCHANGED <<oven, disk, history>>
    /\ UNCHANGED <<now, options, runs, changes, downs>>

\* What the wait is for has come, or has not come in time.
RecoverRunning ==
    /\ runner.phase = "recovering" /\ (oven.seen # "offline" \/ now >= runner.deadline)
    /\ LET limit == runner.record.started_at + options.max_total
           r == [runner EXCEPT !.phase = "steady", !.deadline = None, !.limit = limit]
       IN  IF now >= limit THEN Fails(runner, "max_duration", SwitchedOff(oven))
           ELSE IF NearEnd(r) THEN StepDone(r, oven)
           ELSE IF oven.seen # "running" THEN Fails(r, "interrupted", {oven})
           ELSE runner' = ArmStep(r) /\ UNCHANGED <<oven, disk, history>>
    /\ UNCHANGED <<now, options, runs, changes, downs>>

-----------------------------------------------------------------------------
(* The oven, and time.                                                     *)

OvenActs ==
    /\ oven.pressed # None
    /\ \/ oven' = [oven EXCEPT !.of = oven.dialled, !.until = now + oven.duration,
                               !.pressed = None, !.dialled = NoProgramme, !.duration = 0]
       \/ oven' = [oven EXCEPT !.pressed = None, !.dialled = NoProgramme, !.duration = 0]
    /\ UNCHANGED <<now, options, runner, disk, history, runs, changes, downs>>

\* Its own timer stops it, at its time, or somebody does, before.
OvenStops ==
    /\ oven.of # NoProgramme
    /\ oven' = [Stopped(oven) EXCEPT
                  !.ran_out = IF now = oven.until THEN oven.of ELSE NoProgramme]
    /\ UNCHANGED <<now, options, runner, disk, history, runs, changes, downs>>

\* A deadline is not passed by before it is acted on; nobody waits outside a run.
Ahead(deadline) == deadline = None \/ now < deadline
Tick ==
    /\ now < Horizon /\ now' = now + 1
    /\ (IF runner.up THEN runner.record ELSE disk).state \in Active
    /\ \A d \in {runner.due, runner.limit, runner.timer, runner.deadline,
                 oven.until, oven.pressed} : Ahead(d)
    /\ UNCHANGED <<options, runner, disk, oven, history, runs, changes, downs>>

Next ==
    \/ Run \/ Abort \/ ChangeOptions
    \/ FirstAttempt \/ NextAttempt \/ TransitionFails \/ StepStarts
    \/ Due \/ StepTimer \/ Heated \/ LimitReached \/ Seen
    \/ Down \/ Up \/ RecoverRunning
    \/ OvenActs \/ OvenStops \/ Tick

Spec == Init /\ [][Next]_vars

-----------------------------------------------------------------------------
Times == {None} \cup Nat

Records ==
    [ state : {"idle", "scheduled", "running", "finished", "failed"},
      preset : Presets \cup {<<>>}, step_index : Nat, start_at : Int, ready_at : Int,
      started_at : Times, step_started_at : Times, step_ends_at : Times,
      last_error : {"none", "refused", "not started", "preheat_timeout", "max_duration",
                    "appliance_stopped", "missed_start", "interrupted"} ]

Runners ==
    [ up : BOOLEAN, record : Records,
      phase : {"steady", "stopping", "starting", "recovering"}, deadline : Times,
      seconds : Nat, attempt : 0 .. StartAttempts, due : Times, limit : Times,
      timer : Times ]

Ovens ==
    [ of : Nat, until : Times, pressed : Times, dialled : Nat, duration : Nat,
      seen : {"idle", "running", "offline"}, upper : Uppers, ran_out : Nat ]

Histories ==
    [ began : Times, limits : SUBSET MaxTotals, planned : PreheatMinutes \cup {0},
      transitions : Nat, lost : SUBSET Nat ]

TimesTypeOK ==
    /\ now \in Nat
    /\ options \in [preheat_minutes : PreheatMinutes, max_total : MaxTotals]
    /\ runner \in Runners /\ disk \in Records
    /\ oven \in Ovens /\ history \in Histories
    /\ runs \in Nat /\ changes \in Nat /\ downs \in Nat

\* The record as it is, or as the next start of Home Assistant finds it.
Record == IF runner.up THEN runner.record ELSE disk
\* The record's step has been started: not so during its transition, nor after
\* one whose press of abort raised.
StepRuns == Steady /\ runner.record.step_index \notin history.lost
\* What runs on the oven was started by the latest transition, of the present step.
RunsThisStep == oven.of # NoProgramme /\ oven.of = history.transitions
Uncapped(step) == step.minutes <= oven.upper

\* "max_total_minutes aborts and powers down regardless of step state"
\* (engine.py): whatever restarts and changes of the options there were, the
\* limit of a run counts from its start, is one of the values the option had
\* during the run, and is not outlasted.
LimitKept ==
    runner.up /\ runner.record.state = "running" /\ runner.phase # "recovering" =>
        \E m \in history.limits : runner.limit = history.began + m /\ now <= runner.limit

\* The two timers of a step agree: the oven's own, set before it ran, and the
\* runner's, counted from when it was seen to run.  The oven's is the first, by
\* no more than the slack within which its stop counts as the step's end.
OwnEndInSlack ==
    Steady /\ RunsThisStep /\ CurrentStep(runner).kind = "timed"
        /\ Uncapped(CurrentStep(runner)) =>
        runner.record.step_ends_at - EndSlack <= oven.until
            /\ oven.until <= runner.record.step_ends_at

\* So no run fails because its timed step ran as long as it should, however late
\* the news of it, and after a restart too.
NoFalseStop ==
    [][ /\ Steady /\ CurrentStep(runner).kind = "timed" /\ Uncapped(CurrentStep(runner))
        /\ runner'.record.last_error = "appliance_stopped"
        => oven.ran_out # history.transitions ]_vars

\* A hold has no end, so its dead-man's switch is the limit: even if Home
\* Assistant dies, and whatever the option was changed to, the oven stops by
\* itself not long after the longest limit the run had: the shortest hold, the
\* attempts and the oven's own delay after it.
HoldStopsByItself ==
    RunsThisStep /\ Record.state = "running" /\ Record.preset[Record.step_index].kind = "hold" =>
        \E m \in history.limits :
            oven.until <= history.began + m + ShortestHold
                             + StartAttempts * StartTimeout + OvenDelay

\* The end of a step is fixed when it starts: from then on the timer, the record
\* and the disk agree on it, and a restart neither lengthens nor shortens a step.
StepEndKept ==
    StepRuns /\ CurrentStep(runner).kind # "hold" =>
        /\ runner.timer = disk.step_ends_at
        /\ runner.timer = runner.record.step_started_at + CurrentStep(runner).minutes

\* "A start missed by more than 15 minutes is not run late" (README), nor is
\* one begun before its time, whether the timer, the call or a restart begins it.
BegunInTime ==
    [][ runner'.record.state = "running" /\ runner'.record.started_at # Record.started_at =>
          LET start == runner'.record.start_at
          IN  start - Immediate <= now /\ now <= start + MissedGrace ]_vars

\* "ready_at works backwards from the sum of the step durations" (README): the
\* planned finish of a schedule is the time asked for, until somebody changes
\* the estimate it was planned with.
EstimateIsReady ==
    Record.state = "scheduled" /\ Record.ready_at # None
        /\ options.preheat_minutes = history.planned =>
        EstimatedFinish([record |-> Record]) = Record.ready_at

\* The estimated finish of a running preset leaves time for the steps that are
\* still to come: while a step runs that is not a preheat it is never already
\* past, after a restart neither.  (It may be in a transition, and where one was
\* lost: the end that is there is the step's before.)
EstimateAhead ==
    StepRuns /\ CurrentStep(runner).kind # "preheat" =>
        now + Planned(Rest(runner), options.preheat_minutes) <= EstimatedFinish(runner)

\* A preset is not finished before its timed steps have had their time, less the
\* slack for each, whatever was seen late and wherever Home Assistant was down in
\* between: all of them but those whose transition a press of abort that raised
\* has ended.  Not said of a preset with a step as short as the slack, which may
\* end while its record is written: here a write takes no time.
LeastTimes(steps, lost) ==
    [i \in DOMAIN steps |->
        IF steps[i].kind = "timed" /\ i \notin lost
        THEN Later(0, steps[i].minutes - EndSlack) ELSE 0]
NoneBrief(steps) ==
    \A i \in DOMAIN steps : steps[i].kind = "timed" => steps[i].minutes > EndSlack
RunsItsTime ==
    [][ runner'.record.state = "finished" /\ runner.record.state = "running"
          /\ NoneBrief(runner.record.preset) =>
          now >= runner.record.started_at
                   + Total(LeastTimes(runner.record.preset, history.lost)) ]_vars

=============================================================================
