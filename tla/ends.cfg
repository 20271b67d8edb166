\* Liveness: the oven may never come back, and Home Assistant dies once.
SPECIFICATION FairSpec
CONSTANTS
    Roles = {"remote_start", "duration", "door", "power"}
    Env = {"offline", "remote"}
    Presets <- RoastAndHold
    Options = {"abort_on_door_open", "require_home"}
    MaxSteps = 2
    MaxCommands = 1
    StartAttempts = 2
    MaxTasks = 3
    MaxCalls = 1
    MaxCrashes = 1
PROPERTIES
    RunEnds
    ScheduleResolves
