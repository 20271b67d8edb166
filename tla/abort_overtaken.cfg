\* An abort while the record of a run for now is being saved.
SPECIFICATION Spec
CONSTANTS
    Roles = {"remote_start", "duration", "door", "power"}
    Env = {}
    Presets <- OneTimed
    Options = {"abort_on_door_open", "require_home"}
    MaxSteps = 2
    MaxCommands = 1
    StartAttempts = 2
    MaxTasks = 3
    MaxCalls = 2
    MaxCrashes = 0
PROPERTIES
    AbortSticks
