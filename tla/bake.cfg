\* One call at a time, no crash: the oven, its door, its link, failing calls.
SPECIFICATION Spec
CONSTANTS
    Roles = {"remote_start", "duration", "door", "power"}
    Env = {"offline", "door", "temperature", "faults"}
    Presets <- PreheatAndBake
    Options = {"abort_on_door_open", "require_home"}
    MaxSteps = 2
    MaxCommands = 1
    StartAttempts = 2
    MaxTasks = 3
    MaxCalls = 1
    MaxCrashes = 0
INVARIANTS
    TypeOK
    OneTransition
    QuietWhenOver
    DoorTimerSound
    OwnTimerSet
    NoTaskPileUp
