\* The door is opened before the run is called, and stays open.
SPECIFICATION Spec
CONSTANTS
    Roles = {"remote_start", "duration", "door", "power"}
    Env = {"door"}
    Presets <- OneTimed
    Options = {"abort_on_door_open", "require_home"}
    MaxSteps = 2
    MaxCommands = 1
    StartAttempts = 2
    MaxTasks = 3
    MaxCalls = 1
    MaxCrashes = 0
INVARIANTS
    OpenDoorTimed
