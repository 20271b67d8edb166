------------------------------ MODULE Appliance ------------------------------
(***************************************************************************)
(* One Home Connect appliance as the preset runner sees it: the role-based *)
(* view of appliance.py (what the runner reads and the buttons and dials   *)
(* it drives) and, external to the repository, the oven behind it.         *)
(*                                                                         *)
(* Programmes are numbered by the preset step that asked for them: 0 means *)
(* no programme is under way, Foreign is a programme somebody started on   *)
(* the oven itself.                                                        *)
(***************************************************************************)
EXTENDS Integers, Sequences

CONSTANTS
    Roles,        \* the optional roles that have an entity on this appliance
    Env,          \* what the world outside the runner may do in this instance
    MaxSteps,     \* bound: the longest preset
    MaxCommands   \* bound: button presses the oven has not acted on yet

OptionalRoles == {"remote_start", "duration", "door", "power"}

WorldEvents == {"user", "pause", "offline", "unknown", "door", "remote",
                "temperature", "faults", "away"}

ASSUME RolesAssumption == Roles \subseteq OptionalRoles
ASSUME EnvAssumption == Env \subseteq WorldEvents
ASSUME BoundsAssumption == MaxSteps \in Nat \ {0} /\ MaxCommands \in Nat \ {0}

VARIABLE oven

Foreign == -1
Links == {"up", "offline", "unknown"}
Doors == {"open", "closed", "unknown"}
Dials == {"select", "setpoint", "duration"}
Buttons == {"start", "abort", "off"}

(***************************************************************************)
(* link: what became of the connection ("offline": every entity of the     *)
(* device is unavailable; "unknown": the operation entity reports nothing) *)
(* selected, dials: the programme chosen and which of its dials were set.  *)
(* commands: presses the oven has accepted and not acted on, oldest first. *)
(***************************************************************************)
Oven ==
    [ program  : (0 .. MaxSteps) \cup {Foreign},
      paused   : BOOLEAN,
      link     : Links,
      door     : Doors,
      remote   : BOOLEAN,
      heated   : BOOLEAN,
      selected : 0 .. MaxSteps,
      dials    : SUBSET Dials,
      commands : Seq(Buttons) ]

OvenInit ==
    oven = [ program |-> 0, paused |-> FALSE, link |-> "up", door |-> "closed",
             remote |-> TRUE, heated |-> FALSE, selected |-> 0, dials |-> {},
             commands |-> <<>> ]

-----------------------------------------------------------------------------
(* What the runner reads.                                                  *)

\* "paused" stands for every busy operation other than running, "idle" for
\* off, ready, finished and error.
Operation(o) ==
    IF o.link # "up" THEN o.link
    ELSE IF o.program = 0 THEN "idle"
    ELSE IF o.paused THEN "paused"
    ELSE "running"

Busy(o) == Operation(o) \in {"running", "paused"}

\* An unknown or unavailable permission is a no; an appliance without the
\* role is never asked.
RemoteStart(o) ==
    IF "remote_start" \notin Roles THEN "unverified"
    ELSE IF o.remote THEN "yes" ELSE "no"

DoorOpen(o) == "door" \in Roles /\ o.door = "open"

\* A service call on an unavailable entity is dropped without an error.
Reachable(o) == o.link # "offline"

-----------------------------------------------------------------------------
(* What a service call that reaches the oven does.  Choosing a programme   *)
(* puts the other dials back to that programme's defaults.                 *)

Turn(o, dial, step) ==
    IF dial = "select"
    THEN [o EXCEPT !.selected = step, !.dials = {"select"}]
    ELSE [o EXCEPT !.dials = @ \cup {dial}]

\* A start that is not permitted is ignored.
Press(o, button) ==
    IF button = "start" /\ RemoteStart(o) = "no" THEN o
    ELSE [o EXCEPT !.commands = Append(@, button)]

\* An oven with a programme under way, or about to act on a press, refuses
\* every dial.
TakesDials(o) == o.program = 0 /\ o.commands = <<>>

HasRoom(o) == Len(o.commands) < MaxCommands

-----------------------------------------------------------------------------
(* The oven and the people around it.  Each action says how oven changes;  *)
(* PresetRunner adds what the runner's listeners make of it.               *)

\* The oven acts on the oldest press.  A start is refused while a programme
\* is under way or with nothing selected.
ActOnCommand ==
    /\ oven.commands # <<>>
    /\ LET rest == [oven EXCEPT !.commands = Tail(@)]
       IN  IF Head(oven.commands) = "start"
           THEN oven' = [rest EXCEPT !.program = IF @ = 0 THEN oven.selected ELSE @]
           ELSE oven' = [rest EXCEPT !.program = 0, !.paused = FALSE]

\* Its own timer ran out, or somebody pressed stop on the oven.
ProgrammeEnds ==
    /\ oven.program # 0
    /\ oven' = [oven EXCEPT !.program = 0, !.paused = FALSE]

UserStarts ==
    /\ "user" \in Env
    /\ oven.program = 0
    /\ oven' = [oven EXCEPT !.program = Foreign, !.selected = 0, !.dials = {}]

PauseToggles ==
    /\ "pause" \in Env
    /\ oven.program # 0
    /\ oven' = [oven EXCEPT !.paused = ~@]

\* ready, finished and off all count as idle, so an idle oven may report again.
IdleReport == oven.program = 0 /\ oven.link = "up" /\ oven' = oven

LinkDrops ==
    \E how \in Env \cap {"offline", "unknown"} :
        /\ oven.link = "up"
        /\ oven' = IF how = "unknown"
                   THEN [oven EXCEPT !.link = how]
                   ELSE [oven EXCEPT !.link = how, !.door = "unknown",
                                     !.remote = FALSE, !.heated = FALSE]

LinkReturns ==
    /\ oven.link # "up"
    /\ oven' = [oven EXCEPT !.link = "up"]

DoorMoves ==
    /\ "door" \in Env \cap Roles
    /\ Reachable(oven)
    /\ \E d \in {"open", "closed"} : d # oven.door /\ oven' = [oven EXCEPT !.door = d]

\* Many models clear the permission after each programme; a user re-arms it.
\* After a dropped link the entity has to report afresh.
RemoteChanges ==
    /\ "remote_start" \in Roles
    /\ Reachable(oven)
    /\ oven.remote => "remote" \in Env
    /\ oven' = [oven EXCEPT !.remote = ~@]

\* The cavity reached, or fell below, the setpoint less the tolerance.
TemperatureChanges ==
    /\ "temperature" \in Env
    /\ Reachable(oven)
    /\ oven' = [oven EXCEPT !.heated = ~@]

OperationEvent ==
    \/ ActOnCommand \/ ProgrammeEnds \/ UserStarts \/ PauseToggles
    \/ IdleReport \/ LinkReturns

=============================================================================
