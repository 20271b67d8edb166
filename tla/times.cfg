\* Two presets, options that change during a run, and a restart.
SPECIFICATION Spec
CONSTANTS
    Presets <- BakeOrKeep
    PreheatMinutes = {1, 2}
    MaxTotals = {4, 7}
    DefaultPreheat = 1
    DefaultMaxTotal = 7
    Uppers = {2, 9}
    Immediate = 0
    EndSlack = 2
    MissedGrace = 1
    ShortestHold = 1
    StopTimeout = 1
    StartTimeout = 1
    StartAttempts = 2
    RecoveryTimeout = 1
    OvenDelay = 1
    Leads <- LateNowAhead
    Horizon = 9
    MaxRuns = 1
    MaxChanges = 1
    MaxDowns = 1
INVARIANTS
    TimesTypeOK
    LimitKept
    OwnEndInSlack
    HoldStopsByItself
    StepEndKept
    EstimateIsReady
    EstimateAhead
PROPERTIES
    NoFalseStop
    BegunInTime
    RunsItsTime
\* Time and runs are bounded.
CHECK_DEADLOCK FALSE
