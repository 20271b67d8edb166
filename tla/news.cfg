\* The end of a preset, seen as its programme's and as its own.
SPECIFICATION NotifierSpec
CONSTANTS
    Roles = {"duration"}
    Env = {"offline"}
    Presets <- TwoTimed
    Options = {}
    MaxSteps = 2
    MaxCommands = 1
    StartAttempts = 2
    MaxTasks = 3
    MaxCalls = 1
    MaxCrashes = 0
    Timers = {}
    Problems = {}
    NotifyOn = {"alarm_clock", "finished", "problem"}
    People = {"anna"}
INVARIANTS
    NotifierTypeOK
    OneMessagePerPreset
PROPERTIES
    FinishTold
