---------------------------- MODULE EntriesProofs ----------------------------
(***************************************************************************)
(* The entry's types, that a run stays reachable, that it goes on with the *)
(* entities it listens to and is accepted only on live controls, and that  *)
(* the options are as people chose them, for any roles, entities, keys,    *)
(* names and options.                                                      *)
(***************************************************************************)
EXTENDS Entries, LeastNumber, TLAPS

\* An entry has its sensor while it has a run, and is programmable if it has one.
Sensed ==
    /\ run # "idle" => entry.sensor /\ entry.state # "absent"
    /\ Loaded => (runner.programmable <=> entry.sensor)

\* What a run that lacked nothing listens to is what the runner remembers.
Attached ==
    run = "running" /\ runner.watched # NoAppliance /\ Missing(runner.watched) = {} =>
        runner.appliance = runner.watched

EntriesInv == EntriesTypeOK /\ Sensed /\ Attached

-----------------------------------------------------------------------------
(* Resolution.                                                             *)

\* The first of some entities is one of them.
LEMMA FirstIn ==
    ASSUME NEW es \in SUBSET Entities, es # {}
    PROVE  \E e \in es : First(es) = Id(e)
<1>1. es \subseteq Nat
  BY EntitiesAssumption
<1>2. \E x \in es : \A f \in es : x <= f
  BY <1>1, HasLeast
<1>. QED  BY <1>2 DEF First

LEMMA FirstType ==
    ASSUME EntriesTypeOK, NEW es \in SUBSET Entities
    PROVE  First(es) \in Ids
<1>1. CASE es = {}
  BY <1>1 DEF First, Ids
<1>2. CASE es # {}
  <2>1. PICK e \in es : First(es) = Id(e)
    BY <1>2, FirstIn
  <2>2. registry[e].name \in Roles \cup {NoRole}
    BY DEF EntriesTypeOK
  <2>. QED  BY <2>1, <2>2 DEF Id, Ids
<1>. QED  BY <1>1, <1>2

LEMMA ResolveType ==
    ASSUME EntriesTypeOK
    PROVE  Resolve \in [Roles -> Ids]
<1>1. \A r \in Roles : ByKey(r) \in SUBSET Entities /\ BySuffix(r) \in SUBSET Entities
  BY DEF ByKey, BySuffix, Enabled
<1>2. \A r \in Roles : First(IF ByKey(r) # {} THEN ByKey(r) ELSE BySuffix(r)) \in Ids
  BY <1>1, FirstType
<1>. QED  BY <1>2 DEF Resolve

LEMMA ApplianceType ==
    ASSUME EntriesTypeOK
    PROVE  Appliance \in [Roles -> Ids]
BY ResolveType DEF Appliance, EntriesTypeOK

\* A role that is found is filled by an enabled entity, by its unique id if one has it.
LEMMA ResolveLive ==
    ASSUME NEW r \in Roles, Resolve[r] # NoId
    PROVE  \E e \in Enabled : Resolve[r] = Id(e) /\ (Key[e] = r \/ ByKey(r) = {})
<1> DEFINE es == IF ByKey(r) # {} THEN ByKey(r) ELSE BySuffix(r)
<1>1. Resolve[r] = First(es)
  BY DEF Resolve
<1>2. es # {}
  BY <1>1 DEF First
<1>3. es \in SUBSET Entities /\ es \subseteq Enabled
  BY DEF ByKey, BySuffix, Enabled
<1>4. PICK e \in es : First(es) = Id(e)
  BY <1>2, <1>3, FirstIn
<1>5. Key[e] = r \/ ByKey(r) = {}
  BY <1>4 DEF ByKey
<1>. QED  BY <1>1, <1>3, <1>4, <1>5

LEMMA NoApplianceType == NoAppliance \in [Roles -> Ids]
BY DEF NoAppliance, Ids

-----------------------------------------------------------------------------
(* The steps, one lemma for each that changes more than one variable.      *)

LEMMA LookedType ==
    ASSUME EntriesInv
    PROVE  /\ Looked \in [ programmable : BOOLEAN, appliance : [Roles -> Ids],
                            watched : [Roles -> Ids] ]
           /\ Looked.programmable = runner.programmable
           /\ Looked.watched = runner.watched
           /\ Looked.appliance = Appliance
BY ApplianceType DEF Looked, EntriesInv, EntriesTypeOK

\* The registry may change under a runner: it keeps what it remembers.
LEMMA ChangesKeeps ==
    ASSUME EntriesInv, NEW e \in Entities, NEW name \in Names[e],
           NEW status \in {"disabled", "enabled"}, Changes(e, status, name)
    PROVE  EntriesInv'
<1>1. name \in Roles \cup {NoRole}
  BY EntitiesAssumption
<1>2. EntriesTypeOK'
  BY <1>1 DEF EntriesInv, EntriesTypeOK, Changes, Loaded
<1>. QED  BY <1>2 DEF EntriesInv, Sensed, Attached, Changes, Loaded, Missing

LEMMA RegistryKeeps ==
    ASSUME EntriesInv, NEW e \in Entities, Register(e) \/ Disable(e) \/ Enable(e) \/ Rename(e)
    PROVE  EntriesInv'
<1>1. registry[e].name \in Names[e] /\ registry[e].status \in {"unregistered", "disabled", "enabled"}
  BY DEF EntriesInv, EntriesTypeOK
<1>2. CASE Register(e)
  BY <1>1, <1>2, ChangesKeeps DEF Register
<1>3. CASE Disable(e)
  BY <1>1, <1>3, ChangesKeeps DEF Disable
<1>4. CASE Enable(e)
  BY <1>1, <1>4, ChangesKeeps DEF Enable
<1>5. CASE Rename(e)
  <2>1. PICK name \in Names[e] : Changes(e, registry[e].status, name)
    BY <1>5 DEF Rename
  <2>. QED  BY <1>1, <1>5, <2>1, ChangesKeeps DEF Rename
<1>. QED  BY <1>2, <1>3, <1>4, <1>5

\* NoRunner is what a runner is before its setup, and after its unload.
LEMMA NoRunnerType ==
    /\ NoRunner \in [ programmable : BOOLEAN, appliance : [Roles -> Ids],
                      watched : [Roles -> Ids] ]
    /\ NoRunner.watched = NoAppliance
BY NoApplianceType DEF NoRunner

LEMMA SetUpKeeps ==
    ASSUME EntriesInv, SetUp
    PROVE  EntriesInv'
<1> DEFINE able == Missing(Resolve) = {} \/ entry.sensor
<1>1. /\ runner' = [NoRunner EXCEPT !.programmable = able,
                       !.appliance = IF able THEN Resolve ELSE NoAppliance]
      /\ entry' = [entry EXCEPT !.state = "loaded", !.sensor = @ \/ able]
      /\ UNCHANGED <<registry, run, form>>
  BY DEF SetUp
<1>2. Resolve \in [Roles -> Ids] /\ NoAppliance \in [Roles -> Ids]
  BY ResolveType, NoApplianceType DEF EntriesInv
<1>3. entry.sensor \in BOOLEAN /\ able \in BOOLEAN
  BY DEF EntriesInv, EntriesTypeOK
<1>. HIDE DEF able
<1>4. /\ runner'.programmable = able /\ runner'.watched = NoAppliance
      /\ runner' \in [ programmable : BOOLEAN, appliance : [Roles -> Ids],
                       watched : [Roles -> Ids] ]
  BY <1>1, <1>2, <1>3 DEF NoRunner
<1>5. /\ entry' \in [ state : {"absent", "unloaded", "loaded"},
                      options : SUBSET AllOptions, sensor : BOOLEAN ]
      /\ entry'.state = "loaded" /\ entry'.sensor = (entry.sensor \/ able)
  BY <1>1, <1>3 DEF EntriesInv, EntriesTypeOK
<1>6. able <=> entry'.sensor
  BY <1>5 DEF able
<1>7. EntriesTypeOK'
  BY <1>1, <1>4, <1>5 DEF EntriesInv, EntriesTypeOK, Loaded
<1>8. Sensed'
  <2>1. run # "idle" => entry'.sensor
    BY <1>5 DEF EntriesInv, Sensed
  <2>. QED  BY <1>1, <1>4, <1>5, <1>6, <2>1 DEF Sensed, Loaded
<1>. QED  BY <1>4, <1>7, <1>8 DEF EntriesInv, Attached

\* Nothing of the runner outlives its entry; the record of the run does.
LEMMA GoneKeeps ==
    ASSUME EntriesInv, Unload \/ Restart
    PROVE  EntriesInv'
<1>1. /\ runner' = NoRunner /\ entry' = [entry EXCEPT !.state = "unloaded"]
      /\ UNCHANGED <<registry, run>>
      /\ form' \in {form, [form EXCEPT !.open = FALSE, !.shown = {}]}
      /\ entry.state # "absent"
  BY DEF Unload, Restart, Loaded
<1>2. /\ entry' \in [ state : {"absent", "unloaded", "loaded"},
                      options : SUBSET AllOptions, sensor : BOOLEAN ]
      /\ entry'.state = "unloaded" /\ entry'.sensor = entry.sensor
  BY <1>1 DEF EntriesInv, EntriesTypeOK
<1>3. EntriesTypeOK'
  BY <1>1, <1>2, NoRunnerType DEF EntriesInv, EntriesTypeOK, Loaded
<1>4. Sensed'
  BY <1>1, <1>2 DEF EntriesInv, Sensed, Loaded
<1>5. Attached'
  BY <1>1, NoRunnerType DEF Attached
<1>. QED  BY <1>3, <1>4, <1>5 DEF EntriesInv

LEMMA RemoveKeeps ==
    ASSUME EntriesInv, Remove
    PROVE  EntriesInv'
<1>1. EntriesTypeOK'
  BY NoRunnerType DEF EntriesInv, EntriesTypeOK, Remove, Loaded, NoEntry, NoForm
<1>. QED  BY <1>1 DEF EntriesInv, Sensed, Attached, Remove, Loaded, NoEntry

LEMMA AddEntryKeeps ==
    ASSUME EntriesInv, AddEntry
    PROVE  EntriesInv'
<1>1. EntriesTypeOK'
  BY DEF EntriesInv, EntriesTypeOK, AddEntry, Loaded, NoEntry
<1>. QED  BY <1>1 DEF EntriesInv, Sensed, Attached, AddEntry, Loaded, NoEntry, Missing

\* Looking again changes nothing for a run that lacked nothing.
LEMMA LookKeeps ==
    ASSUME EntriesInv, runner' \in {runner, Looked}, UNCHANGED run
    PROVE  Attached'
<1>1. Missing(runner.appliance) = {} => Looked.appliance = runner.appliance
  BY LookedType DEF Appliance
<1>. QED  BY <1>1, LookedType DEF EntriesInv, Attached, Missing

LEMMA LookStep ==
    ASSUME EntriesInv, Look
    PROVE  EntriesInv'
<1>1. EntriesTypeOK'
  BY LookedType DEF EntriesInv, EntriesTypeOK, Look, Loaded
<1>2. Sensed'
  BY LookedType DEF EntriesInv, Sensed, Look, Loaded
<1>. QED  BY <1>1, <1>2, LookKeeps DEF EntriesInv, Look

LEMMA CallRunKeeps ==
    ASSUME EntriesInv, CallRun
    PROVE  EntriesInv'
<1>1. /\ runner' \in [ programmable : BOOLEAN, appliance : [Roles -> Ids],
                       watched : [Roles -> Ids] ]
      /\ runner'.programmable = runner.programmable
      /\ run' \in {"idle", "scheduled"} /\ UNCHANGED <<registry, entry, form>>
      /\ Loaded /\ runner.programmable
  BY ResolveType DEF EntriesInv, EntriesTypeOK, CallRun
<1>2. EntriesTypeOK'
  BY <1>1 DEF EntriesInv, EntriesTypeOK, Loaded
<1>3. Sensed'
  BY <1>1 DEF EntriesInv, Sensed, Loaded
<1>. QED  BY <1>1, <1>2, <1>3 DEF EntriesInv, Attached

\* A run listens to what the runner remembers from then on.
LEMMA ArmRunGuardsKeeps ==
    ASSUME EntriesInv, ArmRunGuards
    PROVE  EntriesInv'
<1>1. /\ runner' \in [ programmable : BOOLEAN, appliance : [Roles -> Ids],
                       watched : [Roles -> Ids] ]
      /\ runner'.programmable = runner.programmable
      /\ runner'.appliance = runner'.watched
      /\ run' = "running" /\ UNCHANGED <<registry, entry, form>>
      /\ Loaded /\ run # "idle"
  BY LookedType, ApplianceType DEF EntriesInv, ArmRunGuards
<1>2. EntriesTypeOK'
  BY <1>1 DEF EntriesInv, EntriesTypeOK, Loaded
<1>3. Sensed'
  BY <1>1 DEF EntriesInv, Sensed, Loaded
<1>. QED  BY <1>1, <1>2, <1>3 DEF EntriesInv, Attached

LEMMA RunEndsKeeps ==
    ASSUME EntriesInv, RunEnds
    PROVE  EntriesInv'
<1>1. /\ runner' \in [ programmable : BOOLEAN, appliance : [Roles -> Ids],
                       watched : [Roles -> Ids] ]
      /\ runner'.programmable = runner.programmable
      /\ run' = "idle" /\ UNCHANGED <<registry, entry, form>> /\ Loaded
  BY LookedType, NoApplianceType DEF EntriesInv, RunEnds
<1>2. EntriesTypeOK'
  BY <1>1 DEF EntriesInv, EntriesTypeOK, Loaded
<1>3. Sensed'
  BY <1>1 DEF EntriesInv, Sensed, Loaded
<1>. QED  BY <1>1, <1>2, <1>3 DEF EntriesInv, Attached

LEMMA OpenFormKeeps ==
    ASSUME EntriesInv, OpenForm
    PROVE  EntriesInv'
<1>1. Shown \subseteq AllOptions
  BY DEF Shown, AllOptions
<1>2. EntriesTypeOK'
  BY <1>1 DEF EntriesInv, EntriesTypeOK, OpenForm, Loaded
<1>. QED  BY <1>2 DEF EntriesInv, Sensed, Attached, OpenForm, Loaded, Missing

LEMMA SubmitFormKeeps ==
    ASSUME EntriesInv, SubmitForm
    PROVE  EntriesInv'
<1>1. PICK filled \in SUBSET (form.shown \ PresetOptions) :
        LET input == filled \cup (form.shown \cap PresetOptions)
        IN  /\ entry' = [entry EXCEPT !.options = Kept \cup input]
            /\ form' = IF form.overtaken \/ form.shown # Shown
                       THEN [NoForm EXCEPT !.overtaken = TRUE]
                       ELSE [NoForm EXCEPT !.chosen = (form.chosen \ form.shown) \cup input]
  BY DEF SubmitForm
<1> DEFINE input == filled \cup (form.shown \cap PresetOptions)
<1>2. input \subseteq AllOptions /\ Kept \subseteq AllOptions /\ form.chosen \subseteq AllOptions
  BY DEF EntriesInv, EntriesTypeOK, Kept
<1>3. /\ entry' \in [ state : {"absent", "unloaded", "loaded"},
                      options : SUBSET AllOptions, sensor : BOOLEAN ]
      /\ entry'.state = entry.state /\ entry'.sensor = entry.sensor
  BY <1>1, <1>2 DEF EntriesInv, EntriesTypeOK
<1>4. form' \in [ open : BOOLEAN, shown : SUBSET AllOptions,
                  chosen : SUBSET AllOptions, overtaken : BOOLEAN ]
  BY <1>1, <1>2 DEF NoForm
<1>5. /\ runner' \in {runner, Looked} /\ (~Loaded => runner' = runner)
      /\ UNCHANGED <<registry, run>>
  BY DEF SubmitForm
<1>6. EntriesTypeOK'
  BY <1>3, <1>4, <1>5, LookedType DEF EntriesInv, EntriesTypeOK, Loaded
<1>7. Sensed'
  BY <1>3, <1>5, LookedType DEF EntriesInv, Sensed, Loaded
<1>. QED  BY <1>5, <1>6, <1>7, LookKeeps DEF EntriesInv

LEMMA EntriesStep == EntriesInv /\ [Next]_vars => EntriesInv'
<1> SUFFICES ASSUME EntriesInv, [Next]_vars
             PROVE  EntriesInv'
  OBVIOUS
<1>1. CASE \E e \in Entities : Register(e) \/ Disable(e) \/ Enable(e) \/ Rename(e)
  BY <1>1, RegistryKeeps
<1>2. CASE AddEntry \/ SetUp \/ Unload \/ Restart \/ Remove
  BY <1>2, AddEntryKeeps, SetUpKeeps, GoneKeeps, RemoveKeeps
<1>3. CASE Look \/ CallRun \/ ArmRunGuards \/ RunEnds
  BY <1>3, LookStep, CallRunKeeps, ArmRunGuardsKeeps, RunEndsKeeps
<1>4. CASE OpenForm \/ SubmitForm
  BY <1>4, OpenFormKeeps, SubmitFormKeeps
<1>5. CASE UNCHANGED vars
  BY <1>5 DEF EntriesInv, EntriesTypeOK, Sensed, Attached, Loaded, Missing, vars
<1>. QED  BY <1>1, <1>2, <1>3, <1>4, <1>5 DEF Next

LEMMA EntriesStart == Init => EntriesInv
<1> SUFFICES ASSUME Init PROVE EntriesInv
  OBVIOUS
<1>1. EntriesTypeOK
  BY NoRunnerType DEF Init, EntriesTypeOK, Loaded, NoEntry, NoForm
<1>. QED  BY <1>1 DEF EntriesInv, Sensed, Attached, Init, Loaded, NoEntry

LEMMA EntriesAlways == Spec => []EntriesInv
BY EntriesStart, EntriesStep, PTL DEF Spec

-----------------------------------------------------------------------------
\* The entry, its runner, its form and the registry keep their types, and an
\* entry that is not loaded has no runner that watches or remembers anything.
THEOREM EntriesTypeCorrect == Spec => []EntriesTypeOK
<1>1. EntriesInv => EntriesTypeOK
  BY DEF EntriesInv
<1>. QED  BY <1>1, EntriesAlways, PTL

\* An entry with a scheduled or running preset is set up with its sensor, through
\* which it can be aborted, whatever its controls are at that moment.
THEOREM Reachable == Spec => []RunStaysReachable
<1>1. EntriesInv => RunStaysReachable
  BY DEF EntriesInv, Sensed, RunStaysReachable
<1>. QED  BY <1>1, EntriesAlways, PTL

\* A run that lacked nothing when it began, or was recovered, is told of the
\* changes of the very entities it takes for its door and its operation.
THEOREM RunHearsItsOwn == Spec => []WatchedStay
<1>1. EntriesInv => WatchedStay
  <2>1. EntitiesAssumption => Watched \subseteq Roles
    BY DEF EntitiesAssumption
  <2>. QED  BY <2>1, EntitiesAssumption DEF EntriesInv, Attached, WatchedStay, Appliance, Missing
<1>. QED  BY <1>1, EntriesAlways, PTL

\* A run is accepted only on controls that are there and enabled at that moment,
\* each by its unique id if any entity has it.
THEOREM RunAcceptedOnLive == Spec => AcceptedOnLive
<1> DEFINE live == \A r \in Required : \E e \in Enabled :
                     /\ runner'.appliance[r] = Id(e)
                     /\ Key[e] = r \/ ByKey(r) = {}
<1>1. EntriesInv /\ [Next]_vars => (run = "idle" /\ run' = "scheduled" => live)
  <2> SUFFICES ASSUME EntriesInv, [Next]_vars, run = "idle", run' = "scheduled"
               PROVE  live
    OBVIOUS
  <2>1. CallRun
    BY DEF Next, vars, Register, Disable, Enable, Rename, Changes, AddEntry, SetUp, Unload,
           Restart, Remove, Look, ArmRunGuards, RunEnds, OpenForm, SubmitForm
  <2>2. runner'.appliance = Resolve /\ Missing(Resolve) = {}
    BY <2>1 DEF CallRun, EntriesInv, EntriesTypeOK
  <2>3. \A r \in Required : r \in Roles /\ Resolve[r] # NoId
    BY <2>2, EntitiesAssumption DEF Missing
  <2>. QED  BY <2>2, <2>3, ResolveLive
<1>. QED  BY <1>1, EntriesAlways, PTL DEF Spec, AcceptedOnLive

-----------------------------------------------------------------------------
(* The options.                                                            *)

\* Without an entry there is nothing chosen and no form to send; with one, its
\* options are the chosen ones until a form is overtaken.
Filled ==
    /\ entry.state = "absent" => entry = NoEntry /\ form = NoForm
    /\ ~form.overtaken => entry.options = form.chosen

\* Sending a form that is not overtaken: what is kept and what was chosen before
\* are the same options less the same shown ones.
LEMMA SubmitFormFills ==
    ASSUME EntriesInv, Filled, SubmitForm
    PROVE  Filled'
<1>1. PICK filled \in SUBSET (form.shown \ PresetOptions) :
        LET input == filled \cup (form.shown \cap PresetOptions)
        IN  /\ entry' = [entry EXCEPT !.options = Kept \cup input]
            /\ form' = IF form.overtaken \/ form.shown # Shown
                       THEN [NoForm EXCEPT !.overtaken = TRUE]
                       ELSE [NoForm EXCEPT !.chosen = (form.chosen \ form.shown) \cup input]
  BY DEF SubmitForm
<1> DEFINE input == filled \cup (form.shown \cap PresetOptions)
<1>2. form.open /\ entry.state # "absent"
  BY DEF SubmitForm, Filled, NoForm
<1>3. entry'.options = (entry.options \ Shown) \cup input /\ entry'.state = entry.state
  BY <1>1 DEF Kept, EntriesInv, EntriesTypeOK
<1>4. CASE form.overtaken \/ form.shown # Shown
  <2>1. form'.overtaken
    BY <1>1, <1>4 DEF NoForm
  <2>. QED  BY <1>2, <1>3, <2>1 DEF Filled
<1>5. CASE ~form.overtaken /\ form.shown = Shown
  <2>1. form'.chosen = (form.chosen \ Shown) \cup input
    BY <1>1, <1>5 DEF NoForm
  <2>. QED  BY <1>2, <1>3, <1>5, <2>1 DEF Filled
<1>. QED  BY <1>4, <1>5

LEMMA FilledStep == EntriesInv /\ Filled /\ [Next]_vars => Filled'
<1> SUFFICES ASSUME EntriesInv, Filled, [Next]_vars
             PROVE  Filled'
  OBVIOUS
<1>1. CASE UNCHANGED <<entry, form>>
  BY <1>1 DEF Filled
<1>2. CASE AddEntry \/ Remove
  BY <1>2 DEF AddEntry, Remove, Filled, NoEntry, NoForm
<1>3. CASE SetUp \/ Unload
  BY <1>3 DEF SetUp, Unload, Loaded, Filled, EntriesInv, EntriesTypeOK
<1>4. CASE Restart
  BY <1>4 DEF Restart, Filled, EntriesInv, EntriesTypeOK
<1>5. CASE OpenForm
  BY <1>5 DEF OpenForm, Filled, EntriesInv, EntriesTypeOK
<1>6. CASE SubmitForm
  BY <1>6, SubmitFormFills
<1>. QED  BY <1>1, <1>2, <1>3, <1>4, <1>5, <1>6
          DEF Next, vars, Register, Disable, Enable, Rename, Changes, Look, CallRun,
              ArmRunGuards, RunEnds

\* The options are as people left them in the form, kept where it did not show
\* them and cleared where they cleared them, until a form is overtaken.
THEOREM OptionsFollowPeople == Spec => []OptionsAsChosen
<1>1. Init => Filled
  BY DEF Init, Filled, NoEntry, NoForm
<1>2. Filled => OptionsAsChosen
  BY DEF Filled, OptionsAsChosen
<1>. QED  BY <1>1, <1>2, FilledStep, EntriesAlways, PTL DEF Spec

=============================================================================
