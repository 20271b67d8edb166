\* The abort press between two steps raises.
SPECIFICATION Spec
CONSTANTS
    Roles = {"remote_start", "duration", "door", "power"}
    Env = {"faults"}
    Presets <- TwoTimed
    Options = {"abort_on_door_open", "require_home"}
    MaxSteps = 2
    MaxCommands = 1
    StartAttempts = 2
    MaxTasks = 3
    MaxCalls = 1
    MaxCrashes = 0
INVARIANTS
    FinishedRanEveryStep
