-------------------------------- MODULE Entries --------------------------------
(***************************************************************************)
(* The integration around the runner, for one device: its config entry     *)
(* (__init__.py), the entities that fill its roles (roles.py) and what the *)
(* runner remembers of them, its status sensor (sensor.py, websocket.py),  *)
(* and its options form (config_flow.py).  People rename, disable and      *)
(* enable entities, reload the entry and leave forms open meanwhile.       *)
(*                                                                         *)
(* An entity is known in the code by its entity_id, which people change.   *)
(* Here an id is the entity with its name, and of a name only the role it  *)
(* suggests matters.  The course of a run is PresetRunner's.               *)
(***************************************************************************)
EXTENDS Integers, FiniteSets

CONSTANTS
    Roles,      \* the roles of an appliance
    Required,   \* REQUIRED_ROLES
    Watched,    \* the roles whose changes a run listens to
    Entities,   \* numbers, in the order of the entity registry
    Key,        \* for each entity the role of its unique id, or NoRole
    Names,      \* for each entity the roles its name may suggest, or NoRole
    PresetOptions, \* options of a preset, which the form always fills
    PeopleOptions, \* options of a preset that may be cleared
    NotifyOptions  \* options of notifications, which may be cleared

NoRole == "none"

ASSUME EntitiesAssumption ==
    /\ Entities \subseteq Nat /\ IsFiniteSet(Entities)
    /\ Required \subseteq Roles /\ Watched \subseteq Roles /\ NoRole \notin Roles
    /\ Key \in [Entities -> Roles \cup {NoRole}]
    /\ Names \in [Entities -> (SUBSET (Roles \cup {NoRole})) \ {{}}]

VARIABLES
    registry,  \* each entity's status and name
    entry,     \* the config entry: its state, its options, is its sensor registered
    runner,    \* the entry's runner: programmable, _appliance, its listeners
    run,       \* the state of the run, as its record has it
    form       \* the options form somebody has open, and what they chose so far

vars == <<registry, entry, runner, run, form>>

NoId == <<>>
NoAppliance == [r \in Roles |-> NoId]
\* watched: the roles whose listeners _arm_run_guards has subscribed.
NoRunner == [programmable |-> FALSE, appliance |-> NoAppliance, watched |-> NoAppliance]
NoEntry == [state |-> "absent", options |-> {}, sensor |-> FALSE]
\* chosen: the options as people last left them; overtaken: a form was sent when
\* the entry would have shown another.
NoForm == [open |-> FALSE, shown |-> {}, chosen |-> {}, overtaken |-> FALSE]

Init ==
    /\ registry \in [Entities -> [status : {"unregistered"}, name : Roles \cup {NoRole}]]
    /\ \A e \in Entities : registry[e].name \in Names[e]
    /\ entry = NoEntry /\ runner = NoRunner /\ run = "idle" /\ form = NoForm

Loaded == entry.state = "loaded"

-----------------------------------------------------------------------------
(* roles.py.  A disabled entity does not exist.                            *)

Enabled == {e \in Entities : registry[e].status = "enabled"}
Id(e) == <<e, registry[e].name>>
\* setdefault: the first in the registry.
First(es) == IF es = {} THEN NoId ELSE Id(CHOOSE e \in es : \A f \in es : e <= f)

ByKey(role) == {e \in Enabled : Key[e] = role}
BySuffix(role) == {e \in Enabled : Key[e] = NoRole /\ registry[e].name = role}

Resolve == [r \in Roles |-> First(IF ByKey(r) # {} THEN ByKey(r) ELSE BySuffix(r))]

Missing(appliance) == {r \in Required : appliance[r] = NoId}

\* PresetRunner.appliance: what was resolved before serves until it is found
\* wanting.
\* (mutant) it is resolved each time
ApplianceAlways == Resolve
Appliance == IF Missing(runner.appliance) # {} THEN Resolve ELSE runner.appliance

Looked == [runner EXCEPT !.appliance = Appliance]

-----------------------------------------------------------------------------
(* The entity registry.                                                    *)

Changes(e, status, name) ==
    /\ registry' = [registry EXCEPT ![e] = [status |-> status, name |-> name]]
    /\ UNCHANGED <<entry, runner, run, form>>

Register(e) == registry[e].status = "unregistered" /\ Changes(e, "enabled", registry[e].name)
Disable(e) == registry[e].status = "enabled" /\ Changes(e, "disabled", registry[e].name)
Enable(e) == registry[e].status = "disabled" /\ Changes(e, "enabled", registry[e].name)
Rename(e) ==
    /\ registry[e].status # "unregistered"
    /\ \E name \in Names[e] \ {registry[e].name} : Changes(e, registry[e].status, name)

-----------------------------------------------------------------------------
(* The config entry.  Unloading keeps the record of the run.               *)

\* An appliance can be added once.
AddEntry ==
    /\ entry.state = "absent"
    /\ entry' = [NoEntry EXCEPT !.state = "unloaded"]
    /\ UNCHANGED <<registry, runner, run, form>>

\* (mutant) programmable goes by the controls alone
SetUpByControls ==
    /\ entry.state = "unloaded"
    /\ LET programmable == Missing(Resolve) = {}
       IN  /\ runner' = [NoRunner EXCEPT
                 !.programmable = programmable,
                 !.appliance = IF programmable THEN Resolve ELSE NoAppliance]
           /\ entry' = [entry EXCEPT !.state = "loaded", !.sensor = @ \/ programmable]
    /\ UNCHANGED <<registry, run, form>>
\* The sensor shows what the runner makes of the appliance as soon as it is added.
SetUp ==
    /\ entry.state = "unloaded"
    /\ LET programmable == Missing(Resolve) = {} \/ entry.sensor
       IN  /\ runner' = [NoRunner EXCEPT
                 !.programmable = programmable,
                 !.appliance = IF programmable THEN Resolve ELSE NoAppliance]
           /\ entry' = [entry EXCEPT !.state = "loaded", !.sensor = @ \/ programmable]
    /\ UNCHANGED <<registry, run, form>>

\* (mutant) the listeners of the run are not removed
UnloadListening ==
    /\ Loaded
    /\ entry' = [entry EXCEPT !.state = "unloaded"]
    /\ UNCHANGED <<registry, runner, run, form>>
Unload ==
    /\ Loaded
    /\ entry' = [entry EXCEPT !.state = "unloaded"]
    /\ runner' = NoRunner
    /\ UNCHANGED <<registry, run, form>>

\* Home Assistant restarts, and with it the browser's form is void.
Restart ==
    /\ entry.state # "absent"
    /\ entry' = [entry EXCEPT !.state = "unloaded"]
    /\ runner' = NoRunner
    /\ form' = [form EXCEPT !.open = FALSE, !.shown = {}]
    /\ UNCHANGED <<registry, run>>

Remove ==
    /\ entry.state # "absent"
    /\ entry' = NoEntry /\ runner' = NoRunner /\ run' = "idle" /\ form' = NoForm
    /\ UNCHANGED registry

-----------------------------------------------------------------------------
(* What reads the roles: the sensor, which a change of the run, of the     *)
(* library or of the options makes write its state, and the panel's list   *)
(* of appliances; both only where there are programmes.  And the run.      *)

Look ==
    /\ Loaded /\ runner.programmable
    /\ runner' = Looked
    /\ UNCHANGED <<registry, entry, run, form>>

\* (mutant) the roles are not resolved afresh
CallRunCached ==
    /\ Loaded /\ runner.programmable /\ run = "idle"
    /\ runner' = Looked
    /\ run' = IF Missing(runner'.appliance) = {} THEN "scheduled" ELSE run
    /\ UNCHANGED <<registry, entry, form>>
CallRun ==
    /\ Loaded /\ runner.programmable /\ run = "idle"
    /\ runner' = [runner EXCEPT !.appliance = Resolve]
    /\ run' = IF Missing(runner'.appliance) = {} THEN "scheduled" ELSE run
    /\ UNCHANGED <<registry, entry, form>>

\* _async_begin, and _async_recover_running: a run listens to its appliance.
ArmRunGuards ==
    /\ Loaded
    /\ run = "scheduled" \/ (run = "running" /\ runner.watched = NoAppliance)
    /\ runner' = [Looked EXCEPT !.watched = Appliance]
    /\ run' = "running"
    /\ UNCHANGED <<registry, entry, form>>

\* Refused, aborted, failed or finished.
RunEnds ==
    /\ Loaded /\ run # "idle"
    /\ run' = "idle"
    /\ runner' = [Looked EXCEPT !.watched = NoAppliance]
    /\ UNCHANGED <<registry, entry, form>>

-----------------------------------------------------------------------------
(* The options form.                                                       *)

AllOptions == PresetOptions \cup PeopleOptions \cup NotifyOptions

\* An entry that is not loaded has no runner to ask.
Shown == IF Loaded /\ ~runner.programmable THEN NotifyOptions ELSE AllOptions

OpenForm ==
    /\ entry.state # "absent" /\ ~form.open
    /\ form' = [form EXCEPT !.open = TRUE, !.shown = Shown]
    /\ UNCHANGED <<registry, entry, runner, run>>

\* (mutant) what was cleared is filled in again
KeptAll == entry.options
Kept == entry.options \ Shown

\* The input has been checked against the form as it was shown; what else is
\* kept goes by the form that would be shown now.
SubmitForm ==
    /\ form.open
    /\ \E filled \in SUBSET (form.shown \ PresetOptions) :
         LET input == filled \cup (form.shown \cap PresetOptions)
         IN  /\ entry' = [entry EXCEPT !.options = Kept \cup input]
             /\ form' = IF form.overtaken \/ form.shown # Shown
                        THEN [NoForm EXCEPT !.overtaken = TRUE]
                        ELSE [NoForm EXCEPT !.chosen = (form.chosen \ form.shown) \cup input]
    /\ runner' = IF Loaded /\ runner.programmable THEN Looked ELSE runner
    /\ UNCHANGED <<registry, run>>

-----------------------------------------------------------------------------
Next ==
    \/ \E e \in Entities : Register(e) \/ Disable(e) \/ Enable(e) \/ Rename(e)
    \/ AddEntry \/ SetUp \/ Unload \/ Restart \/ Remove
    \/ Look \/ CallRun \/ ArmRunGuards \/ RunEnds
    \/ OpenForm \/ SubmitForm

Spec == Init /\ [][Next]_vars

-----------------------------------------------------------------------------
Ids == {NoId} \cup (Entities \X (Roles \cup {NoRole}))

\* The types; and of an entry that is not loaded nothing watches or remembers
\* the appliance.
EntriesTypeOK ==
    /\ ~Loaded => runner = NoRunner
    /\ registry \in [Entities -> [ status : {"unregistered", "disabled", "enabled"},
                                   name : Roles \cup {NoRole} ]]
    /\ \A e \in Entities : registry[e].name \in Names[e]
    /\ entry \in [ state : {"absent", "unloaded", "loaded"},
                   options : SUBSET AllOptions, sensor : BOOLEAN ]
    /\ runner \in [ programmable : BOOLEAN, appliance : [Roles -> Ids],
                    watched : [Roles -> Ids] ]
    /\ run \in {"idle", "scheduled", "running"}
    /\ form \in [ open : BOOLEAN, shown : SUBSET AllOptions,
                  chosen : SUBSET AllOptions, overtaken : BOOLEAN ]

\* "An appliance that already has a preset sensor keeps it, even if its controls
\* are missing right now" (__init__.py).  So a run that outlives a reload can
\* still be seen and aborted.
RunStaysReachable == Loaded /\ run # "idle" => runner.programmable

\* A run goes on with the entities it listens to: whatever is renamed, disabled
\* or registered meanwhile, the changes it is told of are those of the entities
\* it takes for its door and its operation, unless it began lacking a control.
WatchedStay ==
    run = "running" /\ runner.watched # NoAppliance /\ Missing(runner.watched) = {} =>
        \A r \in Watched : Appliance[r] = runner.watched[r]

\* A run is accepted only on controls that are there, each the one whose unique
\* id says so if there is one, whatever the sensor or the panel saw before.
AcceptedOnLive ==
    [][ run = "idle" /\ run' = "scheduled" =>
          \A r \in Required : \E e \in Enabled :
             /\ runner'.appliance[r] = Id(e)
             /\ Key[e] = r \/ ByKey(r) = {} ]_vars

\* "Only keep options the form did not show" (config_flow.py): the options are
\* as people left them, what was hidden is kept, what was cleared stays cleared,
\* unless a form is sent when the entry would show another.
OptionsAsChosen == ~form.overtaken => entry.options = form.chosen

=============================================================================
