\* Alarms that come and go over dropped links and restarts, beside no run.
SPECIFICATION NotifierSpec
CONSTANTS
    Roles = {"duration"}
    Env = {"offline"}
    Presets <- OneTimed
    Options = {}
    MaxSteps = 1
    MaxCommands = 1
    StartAttempts = 1
    MaxTasks = 3
    MaxCalls = 0
    MaxCrashes = 2
    Timers = {"alarm_clock_elapsed"}
    Problems = {"temperature_alarm", "door_alarm"}
    NotifyOn = {"alarm_clock", "finished", "problem"}
    People = {"anna"}
INVARIANTS
    AlarmToldOnce
