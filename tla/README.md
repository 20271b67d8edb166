# Appliance Presets: a TLA+ verification project

`appliance_presets` is a Home Assistant integration that runs a *preset*, a
sequence of up to twenty steps (preheat to 220 °C, bake 12 minutes, keep warm), on
a Home Connect appliance that can only run one programme at a time. Each step
is a programme of its own, so between two steps the runner has to stop the
oven, set its dials and start it again, over a cloud or LAN link, while people
open its door, press its buttons, withdraw permission for remote start and
restart Home Assistant.

This directory models that runner, the oven it drives and the restart it has to
survive, the times it computes, the notifier that tells people of its end, the
library the presets are kept in, and the config entry with its entities and
options; checks the models with TLC; and proves theorems about the runner, its
times, the notifier, the library and the entry with TLAPS. The plan for the rest is [below](#plan).

- [The system](#the-system)
- [The models](#the-models)
- [The runs](#the-runs)
- [Fairness](#fairness)
- [What the code does not keep](#what-the-code-does-not-keep)
- [What is proved](#what-is-proved)
- [What is assumed, and what is left out](#what-is-assumed-and-what-is-left-out)
- [Plan](#plan)

To check it: `tlc -config bake.cfg MCPresetRunner.tla`, likewise for the other
`.cfg` files (`news`, `alarms` and `own_finish` are on `MCAlarmNotifier`, `times`
on `MCRunTimes`, `entries` on `MCEntries`, `library` on `PresetLibrary`), and
`tlapm` on each module named in
[What is proved](#what-is-proved).

## The system

Paths are relative to `src/custom_components/appliance_presets/`.

| Part | State it keeps | Operations | What makes it correct |
|---|---|---|---|
| **Runner**, `engine.py` | the run record (state, preset, step index, step end), `_transitioning`, the run's and the step's unsubscribe handles, the door timer, its tasks | `async_run`, `async_abort`, setup and recovery, `async_shutdown`; begin, step transition, step end, finish, fail; listeners for operation, door, temperature; timers for start, step end, preheat deadline, door grace, max limit | one transition at a time and only for the step the run is at; every step run, none twice after a restart; every run bounded; nothing of a finished run acts on the next; aborts final; failures leave the oven stopped |
| **Appliance view**, `appliance.py` | none: reads Home Assistant's states | normalised operation, remote start, door, temperature; select, setpoint, duration, start, abort, power off; `async_wait` | a press or dial that does not arrive is never taken for one that did |
| **Role resolution**, `roles.py` | none | device's entities to roles by unique id, then entity id | no entity under two roles; required roles found |
| **Presets**, `models.py` | none | schema, duration and planned start/finish of a preset | planned end = sum of what will be run, within the max limit |
| **Preset library**, `store.py` | dictionary of presets; its file; listeners | load, find, save, delete | the file catches up with the dictionary; a run keeps its own copy |
| **Notifier**, `notifier.py` | when each kind of news was last sent | on state change, on preset event | each piece of news once, none for a step's end, none to people away |
| **Entry setup**, `__init__.py` | runtime data of the entry | setup, unload, reload | nothing of an unloaded entry acts; a run can be seen and aborted wherever it is picked up |
| **WebSocket API**, `websocket.py` | none | list, save, delete | forwards to the library |
| **Sensor and services**, `sensor.py` | none | run, abort, state and attributes | forwards to the runner |
| **Options flow**, `config_flow.py` | entry options | forms | options as people left them: hidden ones kept, cleared ones gone |
| **Panel**, `frontend/` | editor state | lists, edits, runs presets | presentation |

How they interact:

```
  panel, automations ── run / abort ──► sensor ──► RUNNER ── select, dials, start, abort, off ──► oven
        │                                          ▲  │ ▲                                          │
        └─ save / delete ─► websocket ─► LIBRARY ──┘  │ └── state changes (operation, door, ... ) ◄┘
                                                      ├── record ─► Home Assistant's storage
                                                      └── finished / failed events ─► NOTIFIER ─► phones
```

The runner is one object on one event loop. Its code is interleaved at every
`await`: a background task in the middle of a transition, a service call
waiting for a press or for a write, a timer, a state change. All share the
record, the flag `_transitioning` and the handles, and cancel each other's
tasks. What makes it hard:

- **interleaving**: a guard fires between two awaits of a transition; an abort
  arrives during a write; two calls overlap; the end of a one-minute step is
  seen by two paths;
- **unreliable delivery**: presses raise, or are silently dropped while the
  link is down; the oven acts late, refuses dials while busy, ignores a start it
  is not permitted;
- **timeouts and retries**: an attempt times out, its start arrives late, the
  next attempt sets dials on a running oven;
- **crash and recovery**: Home Assistant dies at any point and comes back with
  the last record *written*, to an oven that ran on by itself and to entities
  that are not available yet;
- **liveness**: hold steps have no end of their own, and events ignored during
  a transition never come again; the limit of the run is what is left;
- **times**: the plan, the end of a step, the limit, the oven's own timer and the
  slack for its stop are computed at different moments, some from options that
  may have changed since, and are expected to agree;
- **stale decisions**: which entity is the door, whether the appliance has
  programmes at all, what a form has shown, are found out once and used later,
  while people rename, disable and reload.

`PROJECT.json` lists every such hazard at its line with the properties that
cover it, or the reason none does yet.

## The models

| Module | What it is |
|---|---|
| `Appliance` | `appliance.py` as the runner uses it, and the external oven with its link and the people around it |
| `PresetRunner` | `engine.py` with Home Assistant's loop, timers, storage and restarts; composes with `Appliance` by extending it. The properties are at its end |
| `RunLifecycle` | the abstract specification: states of a run, what is queued for saving, what a restart returns to |
| `MCPresetRunner` | the presets for TLC |
| `AlarmNotifier` | `notifier.py`, beside the whole runner: every step of `PresetRunner` is a step of it, with what the notifier does of it |
| `MCAlarmNotifier` | the notifier with the presets for TLC |
| `RunTimes` | the run once more, on a clock: `models.py`'s planning, every time `engine.py` computes, the options as they change, and an oven with a timer of its own. Transitions are coarse here and times are numbers; in `PresetRunner` it is the other way round |
| `MCRunTimes` | two presets and the times for TLC |
| `Entries` | `__init__.py`, `roles.py`, `config_flow.py` and the sensor, for one device: its entities, its entry, what the runner remembers of the appliance, the options form |
| `MCEntries` | an oven with four entities for TLC |
| `EntriesProofs` | proof of every property the run `entries` checks |
| `PresetLibrary` | `store.py` with the services, the WebSocket calls and the listeners that use it |
| `PresetLibraryProofs` | proof of every property the run `library` checks |
| `PresetRunnerProofs` | proof that the runner keeps its types and that every run is bounded |
| `PresetRunnerOrder` | proof that the runner's tasks, timers and writes do not get in each other's way, and that it implements `RunLifecycle` |
| `PresetRunnerSteps` | proof of what the runner does to the oven: the door's timer, the oven's own timer, the steps it was seen running, whose programme runs |
| `AlarmNotifierProofs` | proof of the notifier's types, that alarms are told once, that the end of a preset is told and told once, and that the notifier leaves the runner alone |
| `RunTimesProofs` | proof of every property the run `times` checks |
| `LeastNumber` | a lemma the proofs share: a set of numbers has a least |

### How state corresponds to the code

- `oven` is everything outside: the programme under way (numbered by the step
  that asked for it, 0 for none, `Foreign` for somebody else's), paused or not,
  the link, the door, the remote-start permission, whether the cavity is at the
  setpoint, the dials and the presses the oven has accepted and not acted on.
  `Operation`, `Busy`, `RemoteStart`, `DoorOpen` are what `appliance.py` makes
  of it. `Reachable` is its check for `unavailable`, at which a service call
  returns without doing anything.
- `runner` is the `PresetRunner` object, one record, so that code between two
  awaits can be written as a function from object to object (`RunStep`,
  `StepDone`, `Fail`, `ArmStep`, ...) in the order and with the names of the
  source. `record` is `RunRecord`, `unsubs` is `_unsubs` (start timer, limit,
  listeners), `step_unsubs` is `_step_unsubs`, `door_timer` is `_door_timer`,
  `transitioning` is `_transitioning`. It is lost in a crash.
- `runner.tasks` holds coroutines. A task is the `await` it is suspended at
  (`pc`) and what it remembers across it: the step, the attempt, whether the
  future of its `async_wait` is resolved, and what its caller does after
  `_async_fail`. The slots `Background` are the tasks `_cancel_tasks` knows;
  the slots `Calls` are service calls, which it does not reach. A spawned task
  runs at once to its first await, as `eager_start` makes it.
- `runner.saves` is the storage queue and `disk` what is written.
  `_async_commit` copies the record when it is called; the copy is written when
  its turn comes, and the awaiting coroutine goes on then (`StepSaved`,
  `FailSaved`, `RunNowSaved`, `LastSaved`). If that coroutine was cancelled the
  write still lands (`OrphanSaved`).
- `clock` is time as the code sees it: whether the scheduled start is ahead,
  due or missed by more than the grace; for each step's end whether it is early,
  within the 90 s end slack, or over; whether the run's limit has passed.
- `begun` is a history variable: the steps of this run seen running.

### How actions correspond

One action per await that can end: `StopPress`, `StopWait`, `RemoteWait`,
`Dial`, `StartPress`, `StartTimesOut`/`StepStarts` for `_async_transition`,
`FailPress`, `FinishPress`, `PowerOff`, `RecoverWait` for the others; one per
write; one per service call; one per timer; one per kind of state change, each
composed of what happens to the oven (from `Appliance`) and what the listeners
do with it at once (`CheckOperation`, `CheckDoor`, `CheckTemperature`, after
`Wake` has resolved the waiting futures). A waiting transition whose condition
came and went still continues, because a resolved future stays resolved; a
recovery re-reads the operation instead. Both are as in the code.

### The notifier

`AlarmNotifier` extends `PresetRunner`, so the runner's state it reads is the
real one. The appliance's news are entities: `present` is what is true at the
oven, `reported` the entity's state, which follows in its own time and is
`unavailable` while the link is down. `Reports` is one call of
`_on_state_changed`, `FiresFinished` and `FiresFailed` are the runner's steps
that fire an event, which the bus delivers at once; every other step of the
runner leaves the notifier alone (`Unheard`). `sent` is `_sent` without the keys
older than two minutes, `home` the people an app can be found for. What a
programme's news can do relative to the operation is left open: the
programme-finished sensor may turn on before the operation is reported or after,
or not at all when somebody stopped the oven.

Two history variables count what people got: `finish`, what was sent of an end
since the run, or a programme somebody else started, began, and `told`, how often
each alarm was sent since it arose. `finish` starts over where the record begins to
run (`RunBegins`: `RunNowSaved`, `StartComes`, and a start found due at setup), and not
where the oven starts its first programme: a start that the oven accepts late, after
its run was aborted, ends in a message about that programme, and a run begun
meanwhile must not be charged with it. With one attempt per start no programme starts
late; the run therefore has both attempts of the code.

### The library

`_presets` is a dictionary, which in Python has an order, and `find` by name
returns the first that fits. So `PresetLibrary` has it as a sequence with no id
twice. An edit and its snapshot are one step (`Ask`), as there is no `await`
between them; the write of the snapshot, the listeners and the answer are
another (`Written`), in the order asked for. `shown` is the library the status
sensors last took their list from.

### The times

`RunTimes` has one number, `now`, and the record with its times as they are in
`RunRecord`. A transition of the runner is a `phase` with a `deadline` and takes
any time up to it; writes take none, so `disk` is the record after each step
that saves it. `Tick` does not pass a deadline (`Ahead`): a timer fires when it is
due, or something else comes first at the same moment. `oven` has a timer of its
own (`until`), set from the duration the attempt dialled, and starts up to
`OvenDelay` after it accepted the press, so also during the next attempt. `seen`
is what the operation entity says, which follows in its own time, or `offline`.
`options` change whenever somebody saves the form (`ChangeOptions`), and each
operator reads them where the code does: `ApplianceDuration` before the first
attempt, the limit when it is armed, `EstimatedFinish` whenever it is asked.
`history` remembers when the run began, every value `max_total` has had since, the
estimate the run was planned with, the number of the transition, by which
the programmes on the oven are told apart, and the steps that were `lost`.

A step is lost where the press of abort between two steps raises (`engine.py:423`,
the second disjunct of `RunStep`). Nothing catches it: the record stays running at
a step that is not, with the times of the step before it, no timer but the limit, and
the disk still at the step before. From there the model goes where the code does: the
oven's stop is judged by the old end, and either fails the run or passes the lost step over
as done; a restart goes back to the step on disk; else the limit ends the run.
Three properties are about steps that have been started and say so: `StepEndKept`
and `EstimateAhead` by `StepRuns`, `RunsItsTime` by leaving out of its sum what was
lost. `RunsItsTime` also leaves out presets with a step as short as the slack
(`NoneBrief`), which may end while its record is written, as a write takes no time
here. `LimitKept` is said of all of them: it is what ends such a run.

### The entry

`registry` is the entity registry's part for one device: an entity is
unregistered, disabled or enabled, and has a name, of which only the role it
suggests matters. An entity id is the entity with its name, so that a rename
makes the remembered one stale. `Resolve` is `resolve_roles`; the tables of
`roles.py`, that say which key or name stands for which role, are the constants
`Key` and `Names`. `runner` is what of the runner object depends on them:
`programmable`, `_appliance`, and the ids its listeners were subscribed with.
`Appliance` is the property that resolves lazily; every action that uses it
also remembers what it found (`Looked`). The course of the run is reduced to
idle, scheduled and running, and what `PresetRunner` makes of it is left open.
`form` is somebody's open options form. `chosen` is a history variable: the
options as people last left them.

Operators marked `(mutant)` are plausible mistakes in the operator they stand
before. They are used nowhere in the specification; each property is
demonstrated to fail when one of them replaces the real definition.

## The runs

| Run | Question | Properties |
|---|---|---|
| `bake` | Preheat and bake while the door moves, the link drops, the temperature falls back, calls raise: do guards, step ends and transitions leave each other's tasks, timers and listeners in order? | `TypeOK`, `OneTransition`, `QuietWhenOver`, `DoorTimerSound`, `OwnTimerSet`, `NoTaskPileUp` |
| `restart` | Two timed steps, up to two crashes, also during recovery, while people start, pause and stop the oven themselves: what is saved, re-armed, resumed or refused? | `BoundedRun`, `ScheduleAttended`, `SavedStepNotRestarted`, `FinishedRanEveryStep`, `RunsItsStep`, `AbortSticks`, `TimedStepRunsOut`, `FollowsLifecycle` |
| `ends` | Does every run and every schedule end, with a hold step, an oven that may stay offline and one crash? | `RunEnds`, `ScheduleResolves` |
| `news` | The end of a preset of two steps is seen as its programme's and as its own, in either order, with a write in between, over a link that drops, and people come and go: do they hear of it, and once? | `NotifierTypeOK`, `OneMessagePerPreset`, `FinishTold` |
| `alarms` | A timer and two problems arise and clear over a dropping link and two restarts: is any sent again? | `AlarmToldOnce` |
| `library` | Four edits for two ovens by two callers whose writes overlap, and a restart anywhere: do file and sensors catch up, and are the ovens kept apart? | `LibraryTypeOK`, `FileCatchesUp`, `SensorsCatchUp`, `AppliancesApart` |
| `times` | A run with a preheat or a hold on a clock, over every delay of its transitions, presses of abort that raise, late news, one change of the options, one restart, and an oven that may cap durations: do the plan, the ends, the limit and the oven's timer fit together? | `TimesTypeOK`, `LimitKept`, `OwnEndInSlack`, `HoldStopsByItself`, `StepEndKept`, `EstimateIsReady`, `EstimateAhead`, `NoFalseStop`, `BegunInTime`, `RunsItsTime` |
| `entries` | Entities are registered, renamed, disabled and enabled, the entry is reloaded, removed and added, Home Assistant restarts, and a form stays open, around a run: does what was found out earlier still fit when it is used? | `EntriesTypeOK`, `RunStaysReachable`, `WatchedStay`, `OptionsAsChosen`, `AcceptedOnLive` |

The properties that took most thought:

- `BoundedRun`. `engine.py` promises a limit "regardless of step state". The
  limit is a timer in memory. It is armed in `_begin`, disarmed by every path
  that ends a run, and armed again after a restart only when recovery has read
  the oven. In between, a running record has no limit. The invariant says who is
  responsible for it then: one of four tasks.
- `SavedStepNotRestarted` relates three things: where a transition is, what the
  disk says, and that a crash may take away everything but the disk.
- `OwnTimerSet`. The duration dial is the dead-man's switch: the oven stops by
  itself if Home Assistant dies. Choosing a programme resets the dials, so a
  retry has to set them all again, and a start that arrives late must not meet
  half-set dials. The oven's refusal of dials while a press is pending is part
  of why this holds.
- `FollowsLifecycle` is refinement. `RunLifecycle` has three variables and ten
  actions; the runner's tasks, timers and calls implement it, including that
  states are written in the order they were entered, whatever is cancelled.
- `OneMessagePerPreset` and `FinishTold` pull in opposite directions: a
  notifier that sends more breaks the one, one that sends less the other. Both
  hold by three mechanisms together (the guard on `running`, the key shared by
  the programme's end and the preset's, and not remembering what nobody was home
  for), and each of the three mutants takes one away.
- `RunsItsStep` relates the record to what is really on the oven. It is what
  the wait for a stop, the check for `running` and the recovery are for together.
- `OwnEndInSlack` is the arithmetic behind `_END_SLACK`. The oven counts from its
  own start, the runner from when it sees the oven run, and the difference may be
  both attempts of a transition. The run shows that it stays within the slack if
  `START_ATTEMPTS * START_TIMEOUT <= _END_SLACK`, which is an assumption of the
  module and holds of the values in the code (2 * 30 s, 90 s). `NoFalseStop` is what
  it is for: no run fails because its oven did what it was told.
- `HoldStopsByItself` is the dead-man's switch of a step without an end. It bounds
  the oven's timer by the run's limit, not by the moment the step began, which
  is why `_appliance_duration` subtracts. The minute it gives at least, and the
  delays of a start, are the excess it allows.
- `LimitKept` counts the limit from the run's beginning over restarts. With
  options that change it cannot say which value of `max_total_minutes` holds: the
  armed timer keeps the old one, a restart takes the new one.
- `WatchedStay` asks whether a run is deaf. It holds because the appliance is
  resolved again only when something is missing, which for this purpose is the
  opposite of a shortcoming: the mutant that always resolves breaks it. It
  needs the condition that the run lacked nothing when it began; TLC finds the
  run that becomes deaf without it.
- `OptionsAsChosen` is about three things that are easy to confuse: an option
  that was hidden, one that was cleared, and one that was left alone.
- `FileCatchesUp` includes the order. A restart then changes neither a preset
  nor which of two of one name is found.

### Bounds, and why they are enough

| Bound | Value | Why |
|---|---|---|
| `MaxSteps` | 2 | a first step (begun from `_begin`), a step after another, and a last step: the three cases of `_async_step_done` and `_async_run_step`. With two steps a stale timer or end belongs to a different step than the current one |
| `StartAttempts` | 2 | the value in the code, also in `news`: only a second attempt leaves a first one behind that the oven may still accept, which is when a programme may start after its run is over |
| `MaxCommands` | 1 | the oven is behind by one press, which is enough for a start to arrive after its attempt timed out and for an abort to arrive after its run is over |
| `MaxTasks` | 3 | with one call at a time never all used: `NoTaskPileUp` checks it in `bake`, and `SlotsSuffice` proves it for any `MaxTasks >= 3`. Spawning actions wait for a free slot, so this shows that the bound hides nothing there |
| `MaxCalls` | 1; 0 in `alarms` | one call already interleaves with every background task. Two calls that overlap are covered by the proof of `RunBounded`, which has any number of calls and slots; with two, tasks do pile up: a finishing task that an overtaken run left behind stays as long as its press takes. `alarms` is about no run |
| `MaxCrashes` | 2 in `restart`, 1 in `ends`, else 0 | two, so that the second can hit the recovery from the first |
| `Presets` | one preset per run | a run keeps its own copy and reads no other, so a second preset differs only by what it leaves on the oven for the next run; the theorems have any number. Together the runs have timed, preheat and hold steps, hot and not, and one-minute steps |
| `Env` | per run | the world's freedom is split over the runs, so that each one has what its question is about: door, link, temperature and raising calls in `bake`; other people and unknown starts (`away`, `unknown`) in `restart`; permission and link in `ends`; the link in `news` and `alarms` |
| `People` | 1 | `home` matters to the notifier only by being empty or not |
| `Timers`, `Problems` | 1 and 2 in `alarms`, none in `news` | two problems have keys of their own; the end of a preset does not meet them |
| `Names`, `Devices`, `Callers` | 2 each | two presets share a name or an id, or differ; one call's write is behind the other's |
| `MaxEdits`, `MaxRestarts` | 4, 1 | a preset made, renamed, its name used again, and deleted; what a restart loads does not depend on an earlier one |
| `Presets` in `times` | a preheat before a timed step, a timed step before a hold | every pair of kinds `EstimatedFinish` and `ApplianceDuration` tell apart |
| the times in `times` | a unit is 30 s, minutes shortened; slack 2, each timeout 1, `MaxTotals` 4 and 7, steps of 2 and 3 | the order of the deadlines is that of the real values where it matters (attempts within the slack, steps longer than the slack, a limit that may cut a step off, one that may not), with every deadline inside `Horizon` |
| `Uppers` | 2, 9 | an oven that caps a step of 3 and one that caps none |
| `Leads`, `Horizon` | -1, 0, 5; 9 | a start asked for in the past, now and ahead, by its start or its finish |
| `MaxRuns`, `MaxChanges`, `MaxDowns` | 1 each | a second run begins from the same state but for `history`; one change and one restart fall anywhere in the run and in either order |
| `Entities`, `Key`, `Names` | four: an operation sensor that may be renamed, a start button, another one known by its name only, a sensor whose name may mean operation or door | a role by unique id, by name, by both, by none; a rename that moves an entity from one role to another |
| options in `entries` | one that is always filled, one that may be cleared, one of notifications | the three ways the form treats an option |

Deadlock is checked in every run but `library` and `times`, where nothing happens
any more when the edits, or the time, are used up. No symmetry is used: task slots are chosen
deterministically, and steps are ordered.

## Fairness

`ends` uses `FairSpec`, weak fairness on what somebody is obliged to do: the
event loop resumes a coroutine whose await is over, a wait times out, a timer
whose deadline passed fires, storage writes what it was given, the oven acts on
a press it accepted, deadlines pass, a dead Home Assistant is started again.
Nothing is assumed of people (door, pause, permission, service calls), of the
link (it may drop and stay down for ever), of the oven's own end of a programme,
or of the temperature. Under that fairness a run may never see its step end, so
`RunEnds` rests on the max limit; the mutant without it violates it.

Weak fairness is right for `Resume(s)`: a task stays ready until it runs, or is
cancelled by a step that has its own effect.

## What the code does not keep

Four runs expect TLC to find a violation. Each checks one property that says
what the documentation says; the counterexample is a legal execution of the
code. The quotes and lines are in `PROJECT.json` under `findings`.

| Run | What the documentation says | What happens |
|---|---|---|
| `abort_overtaken` | an abort stops the preset | `async_run` for now awaits the write of its record, then calls `_begin` without looking again. An abort during that write puts the record back to idle and cancels nothing (the call is not a background task), then the run begins |
| `step_skipped` | what goes wrong leaves the runner failed with a reason | the abort press between two steps is outside the `try`; when it raises, the task ends, the record stays running at the new step with the end time of the old one. The oven's own stop is then taken for the end of a step that never ran. `RunTimes` has this path as well; what its properties say of such steps is under [The times](#the-times) |
| `door_left_open` | a door left open longer than the grace period over a hot step aborts | the door is looked at only when it moves, and not during a transition. A door that is open already when the run is called (so in the trace), or is opened in a transition, is never timed |
| `own_finish` | the preset reports its own finish | the state is finished before the record is written, the event is fired after. A programme-finished sensor that turns on in between is no longer held back, its message goes out, and the preset's own is dropped as the same news |

Two of them are also checked by a passing run, where the cause is absent: in
`restart`, with one call at a time and no raising press, `AbortSticks` and
`FinishedRanEveryStep` hold.

Other things the models show, of which no run is kept:

- **A failed run may leave the oven running.** `_async_fail` presses abort only
  when the oven reports that it is busy. With the link down at the limit nothing
  is pressed, the run fails, and the link returns with the oven running, against
  "anything that goes wrong leaves the appliance aborted" (`engine.py`). What stops
  it then is its own timer: `OwnTimerSet`, `HoldStopsByItself`.
- **Steps of one minute** are within the 90 s slack from their start. If such an
  oven stops while the step's record is being saved, `_async_step_done` goes on to
  the next step, the saving task is not cancelled, then arms the timer of the step
  it saved, and that timer ends the next step early. `TimedStepRunsOut` and
  `QuietWhenOver` therefore hold for longer steps only. Of the theorems, those of
  `PresetRunnerProofs` hold for both, those of `PresetRunnerOrder` and
  `PresetRunnerSteps`, and those of the notifier that rest on them, say `NoBriefSteps`.
- **A dropped link counts as a stop.** The wait for the oven to stop between two
  steps ends when it no longer reports a busy operation, and `offline` is not one.
  If the link drops with the abort press, the old programme still runs when it
  returns, and is taken for the next step's. `RunsItsStep` is checked where the
  link does not drop in the middle of a boundary.
- **A restart after a preheat** can take the next step's programme for the
  preheat. If Home Assistant dies between the next step's start and the writing of
  its record, the disk still says that the preheat runs, the oven is busy, and
  recovery resumes the preheat, which has no end by which it could see that it is
  over (a timed step has: it is within the slack). `RunsItsStep` is checked with
  timed steps, where it holds through two crashes.
- **A capped step fails.** `_appliance_duration` cuts a duration to the oven's
  maximum, the step's end is not cut. An oven that is given less than the step
  by more than the slack stops, and the run fails as `appliance_stopped`.
  `OwnEndInSlack` and `NoFalseStop` leave such steps out (`Uncapped`).
- **A lowered limit waits for a restart.** `__init__.py` says options are read
  live; the limit's timer was armed with the old value.
- **Options of an overtaken form.** What the form showed is computed again when it
  is sent. If the appliance became programmable in the meantime, the preset's
  options are taken for cleared and dropped; if it ceased to be, a cleared one
  comes back. It takes a reload of the entry with a form open.
- **A run that lacked a control** when it began goes on resolving its roles, and
  when the control is back compares events with entities it does not listen to.
- **A service call in progress outlives an unload.** `async_shutdown` clears the
  handlers, and background tasks are cancelled with the entry; a run for now
  that awaits its write is neither, and begins on a runner nobody owns.

And one that is not against any sentence of the documentation. A new preset gets the slug of its name as its id
(`models.py`), and saving replaces by id (`store.py`), without asking whose id
it is. Two ovens therefore cannot both have a preset of one name: making the
second silently takes the first oven's away. Nor can a name be used again that a
preset had before it was renamed. `AppliancesApart` leaves out this case and
holds in every other.

## What is proved

For all values of the constants that satisfy the named assumptions
(`RolesAssumption`, `EnvAssumption`, `BoundsAssumption` in `Appliance`;
`PresetsAssumption`, `OptionsAssumption`, `CountsAssumption` in
`PresetRunner`; `NotifierAssumption` in `AlarmNotifier`; `LibraryAssumption` in
`PresetLibrary`; `EntitiesAssumption` in `Entries`; `TimedPresets`, `OptionValues`,
`UppersAssumption`, `DelaysAssumption` in `RunTimes`), so for any
number of steps, presets, task slots, edits, crashes, entities, people and
instants. Only the theorems about order among the runner's tasks need more, and
say so: `OneCall` (one service call in progress at a time) and `NoBriefSteps` (no
timed step within the end slack of its start); the three about the steps that were
run need `NoFaults` (no service call raises and the oven is never unavailable; its
operation may still be unknown, and people may use the oven as they like); and the
one about the programme needs `AllTimed` (every step is a timed one). The two about the notifier's messages say what they need
below.
What goes wrong without them is in
[What the code does not keep](#what-the-code-does-not-keep). The runs of the
properties satisfy them.

The runner:

- **`TypeCorrect`** (`PresetRunnerProofs`): `Spec => []TypeOK`. `TypeOK` is
  inductive as it stands. The module has a lemma for each function of the runner
  object, saying what it needs to return a member of `Runners`; then one for
  each action. The content lies in the index facts: that `StepDone` never goes
  past the end of the preset, that `Attempt` never exceeds `StartAttempts`, that
  a record only says `running` with a preset step that exists where one is read,
  and that queues stay sequences when writes are orphaned by a cancellation.
- **`RunBounded`** (`PresetRunnerProofs`): `Spec => []BoundedRun`, the safety
  half of "every run ends". `BoundedRun`, as `Bounded(runner)`, is inductive
  together with `TypeOK`. The argument: a function of the runner either *moves*
  task `s` (`MovesOnly(r, q, s)`: the state of the run and its handles are kept or
  gain the limit, and no other task that ends the run is lost), or *ends the
  run*, or *begins* it with the limit armed. A task that is itself one that ends
  the run (`Ending`) may be moved only if the limit is armed (`Spare`) or by an
  action that ends the run. `_cancel_tasks` is the delicate case: it cancels
  tasks in `Ending`, and every caller of it ends the run in the same step or
  becomes such a task. This covers overlapping calls, crashes during recovery
  and one-minute steps, which no single TLC run has all together.
- **`OrderKept`** (`PresetRunnerOrder`): the invariant under the theorems that
  follow. `Ordered(runner)` says that the runner object is in one of eight
  situations: a step's boundary, saving that a step runs, failing, finishing,
  recovering, being aborted, a run with nobody acting on it, and no run. Each one
  fixes which slots hold which awaits, what is armed, and what is in the storage
  queue; the one coroutine that may always be beside is the one that switches the
  oven off. `Stored` says how memory, the queue and the disk relate: the
  youngest write asked for (the disk, when none is) has the state of the record,
  or is what a running run goes on from, its schedule or a step that is not past
  its own and, in a boundary, before it. `Fresh` and `Written` are what the length
  of a write is good for: a step is saved before it is near its end, a schedule
  before it is due. The proof goes function by function:
  each takes a situation to a situation (`...Ordered`) and moves the record on as
  a run may (`Goes`); an action that begins a run `Starts` it; `Course` is what
  every step then satisfies.
  From it: **`NoOtherStart`** (`OneTransition`), **`NothingLeftArmed`**
  (`QuietWhenOver`), **`ScheduleNotForgotten`** (`ScheduleAttended`),
  **`NoStepTwice`** (`SavedStepNotRestarted`), **`SlotsSuffice`** (`NoTaskPileUp`, if
  `MaxTasks >= 3`), **`StoppedStays`** (`AbortSticks`), and
  **`FollowsItsLifecycle`** (`FollowsLifecycle`): initial states of the runner map to
  initial states of `RunLifecycle`, and each step to one of its actions or
  to none.
- **`DoorTimerStops`** (`PresetRunnerSteps`): `DoorTimerSound`. `DoorInv` adds to
  it that the door's timer runs only in a run and outside a boundary. The relation
  `Tame` collects what most functions do: they start no door timer and put no new
  task on the way to a start; each function is shown tame once.
- **`OwnTimerAlwaysSet`** (`PresetRunnerSteps`): `OwnTimerSet`. It speaks of the
  running programme only, but is decided before: `DialInv` says that whenever a
  programme runs, a start is on its way to the oven, or a task is about to press
  start (`UnderWay`), the duration dial is already set if anything is selected. That
  nobody else turns dials in that time is `OneTransition`.
- **`FinishedRanAll`** and **`TimedStepsRunOut`** (`PresetRunnerSteps`):
  `FinishedRanEveryStep` and `TimedStepRunsOut`. A run that finishes may have been
  through any number of crashes, each of which throws it back to the youngest
  record written; so the invariant `StepsInv` says what was seen running three times
  over: of the record on disk and of every one on its way there (`Kept`, `Told`), and
  of the one in memory, by what the run is doing (`Progress`: all steps up to this
  one while it runs, all before it in a boundary, all and the last one over while it
  finishes). It also says that the record's end is that of its step and that what is
  armed belongs to that step. `Walks` is what a step of the loop may do to it: stay,
  stop, leave a step that is `Done` for the next or for the end, or arm it;
  `Happens` says that every step of the specification walks, starts a step, dies or
  loads what the disk holds. `TimedStepRunsOut` is then read off `Walks`.
- **`EveryStepItsProgramme`** (`PresetRunnerSteps`): `RunsItsStep`. `DialInv` says
  that what runs is what was last chosen, so it remains to show that the last choice
  is the run's step (`Chose`). `ProgrammeInv` says so of a step that has started
  (`Stands`), of a transition that is past its choice, and of every record on disk
  or on its way there, or else the step of that record is near its end (`Fits`,
  `Suits`): the oven may already have been told the next step when Home Assistant
  dies. That is why recovery is right: it goes on with a step only if it is not near
  its end, and then the step is the one chosen. While it waits nobody else acts on
  the run (`WhileRecovering`). A boundary that dies before it turns a dial leaves
  what was chosen before, of a step that is over. Without `AllTimed` a step that is
  over need not be near its end by the clock, and the argument, like the property,
  breaks at the restart after a preheat. Of `NoFaults` the property needs that no
  link drops in a boundary; that no call raises comes with `StepsInv`, which the
  proof rests on (with raising calls, in the instance of `restart`, TLC finds the
  property to hold as well).

The notifier (`AlarmNotifierProofs`): **`NotifierRunsTheRunner`**, that
`NotifierSpec` implies `Spec`, by which everything proved of the runner holds
beside it; **`NotifierTypeCorrect`** (`NotifierTypeOK`); **`AlarmsToldOnce`**
(`AlarmToldOnce`), by the invariant `Heard`: an alarm that was sent and has not
cleared is not reported off. The other two are what the two keys and the two minutes
are for:

- **`FinishAlwaysTold`**: `FinishTold`, for one call at a time and timed steps that are
  not brief, over crashes, raising calls, dropped links and anything people do at the
  oven. When `EVENT_FINISHED` is fired the message goes out then, unless its key is
  remembered; so it is enough that the key, when it is remembered, was remembered by
  this run. `NearInv` says so: while an end is remembered (`EndSent`) a running run is on
  its way to its first step or has it still early (`Near`), and a task that saves that
  the preset has finished implies that something was sent since the run began. A run
  that is near cannot finish (`NearNotFinished`); by the time it has left a step, the
  two minutes are over. That is why untimed steps are left out: a preheat of a warm oven
  is done at once, and TLC finds the second of two such presets within two minutes
  untold, as the code's own rule has it. `FiresAlone` says that nothing else happens in the step that fires the event.
- **`FinishToldOnce`**: `OneMessagePerPreset`, for presets of any number of timed steps,
  one call at a time, retried and late starts, aborts, schedules, an operation that may be
  unknown at any time, any people to tell and any sensors. `OnceInv` is inductive relative to what is proved of the runner:
  a running run has sent nothing of its end, since the guard on `running` holds its
  programmes' news back; a finished one has sent nothing, or one message that is still
  remembered, or one message and nothing is left that could cause another (`Quiet`).
  The last case is where the work is: that two minutes after the message no
  programme runs, none is on its way, and the record has been saved. `PendInv` says
  that while a start is on its way to the oven no programme runs and the run, if there
  is one, has neither started its step nor come to its end (an aborted run may have
  left it, too); `LastInv`, with `EveryStepItsProgramme`, that a programme that still runs when
  the run ends has run its time; `SealInv` that a finished record, in memory, in
  the queue and on disk, carries no end by which time could pass for a step. Together
  they are `LeftAloneInv`.

  The hypotheses beyond those of `FinishAlwaysTold`, and what TLC finds without them:
  `NoFaults`: an abort that is dropped because the link is down leaves the oven
  running, a run of another preset takes that programme for its own first step, and
  the message about the old end is followed by the new one's. It takes two presets;
  with one, in `news`, where link and retries are both present, the property holds.
  `"user" \notin Env`: a programme somebody starts between two steps is taken for the
  step's, as the runner only sees that the oven runs; if the operation is unknown when the
  time of that step is over, the programme is not aborted, and ends with a message of
  its own minutes after the preset's. With people
  at the oven and no unknown operation the property holds, for one preset and
  for two. `MaxCrashes = 0`: what was sent is forgotten in a restart, and a last step
  that is resumed sends its end again. `AllTimed` comes with `EveryStepItsProgramme`;
  in the instance of `news` the property holds with a preheat or a hold as well.

The library (`PresetLibraryProofs`): **`LibraryTypeCorrect`**, **`FileFollows`**,
**`SensorsFollow`** (`LibraryTypeOK`, `FileCatchesUp`, `SensorsCatchUp`). None of the
last two is inductive: they say nothing while a write is under way. The invariant
`LibraryInv` adds what holds then (`Caught`): the youngest snapshot still to be
written is memory as it is, and a dead Home Assistant has none to write.
**`AppliancesStayApart`** (`AppliancesApart`): two libraries whose presets of an
appliance correspond in order find the same for it (`FindsTheSame`); an edit of
another's preset leaves them where they are or, deleting, moves them up by one
(`From`).

The entry (`EntriesProofs`): **`EntriesTypeCorrect`**, **`Reachable`**,
**`RunHearsItsOwn`**, **`RunAcceptedOnLive`**, **`OptionsFollowPeople`**
(`EntriesTypeOK`, `RunStaysReachable`, `WatchedStay`, `AcceptedOnLive`,
`OptionsAsChosen`). The invariant
`EntriesInv` adds two facts to the types. `Sensed`: an entry with a run has a
registered sensor, and a loaded entry is programmable exactly if it has one;
that the sensor stays registered over reloads is why it is inductive.
`Attached`: what a run that lacked nothing listens to is what the runner
remembers.

The times (`RunTimesProofs`): a theorem for each of the ten properties of `times`.
The invariant `TimesInv` has three parts. `RunInv`: what the record in memory and
the one on disk say of when the run began and of its steps' ends, and which
phases there are. `StepInv`: the timers, when a step may be left, and what the
attempts of a transition have left of the step. Both also say what a transition that
was lost leaves (`Stranded`): the end of an earlier step, the one on disk, and no timer.
It is left, like any other, with the steps before it having had their time,
and for itself `LeastTimes` asks for none. `OvenInv`: what the oven's timer,
its pending start and its programme have to do with the transition they are
from. The arithmetic is that of `DelaysAssumption`: the attempts fit into the slack.

Induction over numbers is out of the prover's reach. Where it is needed (the first
of some entities, the first preset of a name, sums over steps) the proofs take a least
number instead (`HasLeast` of `LeastNumber`): it takes the least interval `0 .. n`,
by the library's theorem that the strict subset order on finite sets is
well-founded. That two sums agree is shown by the least index at which they do not.

Model-checked only: liveness under fairness (`RunEnds`, `ScheduleResolves`), which is
beyond the prover and stays with TLC. Every other property of a passing run is
stated by a theorem.

## What is assumed, and what is left out

Assumed of the environment, in the model:

- Writes land in the order asked for, each takes less time than a step and than
  the time from a scheduling call to its start, and a cancelled coroutine's
  write still lands. A crash loses the writes still queued.
- A service call on an unavailable entity returns without effect and without an
  error; one on a reachable entity takes effect at the oven or raises.
- An oven refuses dials while a programme is under way or a press is pending,
  ignores a start it may not accept, and puts the other dials back to defaults
  when a programme is chosen.
- `paused` stands for every busy operation but running, `idle` for off, ready,
  finished and error: the runner does not tell them apart in what it does, only
  in the reason it gives.
- A write, an entity's report of a finish, a press and the oven's own end of a
  step take less than the two minutes of the notifier's memory, a step takes
  more than two minutes to get near its end (with the slack of 90 s, a timed step
  that is not brief is one of four minutes or more), and nobody starts a programme by
  hand in the time it takes to save that a preset has finished (`Settled`,
  `StepNears`, `OvenNews`). Without the first, a late second signal of the same
  end is, by the code's own rule, news again.
- `news` has no crash: a restart between the two signals of one end forgets that
  the first was sent, by design of `_sent`.
- A storage that fails is not modelled: Home Assistant logs it and goes on.
- In `PresetRunner` a time is only compared with the deadlines it is used with.
  `RunTimes` has the arithmetic, and in exchange takes a write as instant, a press
  of abort as acted on at once or lost, whether or not it raises, and a transition as one wait for the
  stop and one for each start. An oven accepts a start when it is free and no
  other is pending. A preheat may be reached at any time.
- In `RunTimes` a deadline is acted on before time goes on. A busy event loop
  would add its delay to every bound.
- In `Entries` a reload unloads and sets up at once; setup does not fail.

Left out: an entry unloaded under the runner is not an action of `PresetRunner`,
since for its tasks and timers it is a crash after which nothing is lost, which
`Crash` after the queued writes is; what a crash does not show is a service call
that outlives it. `_validate_steps` and the schema of a preset reject input
before any state changes. Reasons, texts, events' payloads
and log lines are not modelled; neither is the panel. The tables by which
`notifier.py` classifies an entity are the constants `Timers` and `Problems`;
what a phone does with a message is outside.

## Plan

In order of importance, and so that each module can be proved about (no
recursive operators, parameters as constants with named assumptions).

1. **Who owns the programme.** `RunsItsStep` says that the run's step is the run's
   programme. Still to state: an abort call never stops a run accepted after it,
   which needs the calls in `PresetRunner` to be numbered.
2. **A call over an unload.** Two runners at once, the one a call still works on
   and the one of the reloaded entry, and their writes to one file.
3. **A run against the library.** `PresetRunner` takes a copy of its preset;
   the composition with `PresetLibrary` would show that an edit during a run, or
   between scheduling and start, does not reach it, and what a restart reads.
4. **Notifier, further.** That the end of every run that finishes is fired and
   told, as liveness, with the task that saves the record under cancellation.
5. **`Normalisation`**: the operation tables and the spelling tables of roles as
   operators, checked over every operation and over small devices.

Theorems to follow: with the numbered calls of item 1, that an abort stops no later run;
and `OneMessagePerPreset` over a link that drops, for one preset, where `news` finds it
to hold: it needs an invariant about the programmes that earlier runs left behind.
