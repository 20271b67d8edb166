\* Home Assistant dies up to twice, and people use the oven themselves.
SPECIFICATION Spec
CONSTANTS
    Roles = {"remote_start", "duration", "door", "power"}
    Env = {"user", "pause", "unknown", "away"}
    Presets <- TwoTimed
    Options = {"abort_on_door_open", "require_home"}
    MaxSteps = 2
    MaxCommands = 1
    StartAttempts = 2
    MaxTasks = 3
    MaxCalls = 1
    MaxCrashes = 2
INVARIANTS
    BoundedRun
    ScheduleAttended
    SavedStepNotRestarted
    FinishedRanEveryStep
    RunsItsStep
PROPERTIES
    AbortSticks
    TimedStepRunsOut
    FollowsLifecycle
