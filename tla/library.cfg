\* Overlapping edits of presets with two names for two ovens, and a restart.
SPECIFICATION LibrarySpec
CONSTANTS
    Names = {"pizza", "bread"}
    Devices = {"upper", "lower"}
    Callers = {"panel", "script"}
    MaxEdits = 4
    MaxRestarts = 1
INVARIANTS
    LibraryTypeOK
    FileCatchesUp
    SensorsCatchUp
PROPERTIES
    AppliancesApart
\* The calls of a behaviour are bounded.
CHECK_DEADLOCK FALSE
