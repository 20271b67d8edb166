\* One oven whose entities come, go and are renamed while runs and forms are open.
SPECIFICATION Spec
CONSTANTS
    Roles = {"operation", "start", "door"}
    Required = {"operation", "start"}
    Watched = {"operation", "door"}
    Entities = {1, 2, 3, 4}
    Key <- OvenKeys
    Names <- OvenNames
    PresetOptions = {"preheat_minutes"}
    PeopleOptions = {"person_entities"}
    NotifyOptions = {"notify_persons"}
INVARIANTS
    EntriesTypeOK
    RunStaysReachable
    WatchedStay
    OptionsAsChosen
PROPERTIES
    AcceptedOnLive
