\* The oven's own timer ends the last step.
SPECIFICATION NotifierSpec
CONSTANTS
    Roles = {"duration"}
    Env = {}
    Presets <- OneTimed
    Options = {}
    MaxSteps = 1
    MaxCommands = 1
    StartAttempts = 1
    MaxTasks = 3
    MaxCalls = 1
    MaxCrashes = 0
    Timers = {}
    Problems = {}
    NotifyOn = {"alarm_clock", "finished", "problem"}
    People = {"anna"}
PROPERTIES
    PresetReportsItsOwn
