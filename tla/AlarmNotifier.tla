----------------------------- MODULE AlarmNotifier -----------------------------
(***************************************************************************)
(* notifier.py: notify when home, beside the runner whose state it reads.  *)
(*                                                                         *)
(* The appliance's news are binary sensors: one for a programme that       *)
(* finished, the others for kitchen timers and problems.  present is what  *)
(* is true at the appliance, reported what the entity says of it.  Each    *)
(* change of an entity is one call of the notifier, and so is the runner's *)
(* event when a run has finished or failed.                                *)
(***************************************************************************)
EXTENDS PresetRunner

CONSTANTS
    Timers,      \* the appliance's kitchen-timer sensors
    Problems,    \* its alarm and fault sensors
    NotifyOn,    \* the kinds of news chosen in the options
    People       \* the people chosen there, each with a phone

NewsKinds == {"alarm_clock", "finished", "problem"}

ProgramFinished == "program_finished"

\* A sensor is about one kind of news.
ASSUME NotifierAssumption ==
    /\ NotifyOn \subseteq NewsKinds
    /\ Timers \cap Problems = {} /\ ProgramFinished \notin Timers \cup Problems

VARIABLES
    present,     \* the news that are true at the appliance
    reported,    \* the state of each sensor's entity
    home,        \* who of People is home
    sent,        \* the keys of _sent younger than two minutes
    finish,      \* history: what was sent of a finish, from the begin of a run or
                 \* of a user's programme on
    told         \* history: how often each alarm was sent since it arose

news == <<present, reported, home, sent, finish, told>>

Alarms == Timers \cup Problems
Sensors == Alarms \cup {ProgramFinished}

\* classify: what a sensor is about.
KindOf(e) ==
    CASE e \in Timers   -> "alarm_clock"
      [] e \in Problems -> "problem"
      [] OTHER          -> "finished"

\* What makes two pieces of news the same: the kind, and for a problem which.
KeyOf(e) == <<KindOf(e), IF e \in Problems THEN e ELSE "">>
\* (mutant) a preset's finish is another piece of news than its programme's
PresetFinishedKeyOwn == <<"finished", "preset">>
PresetFinishedKey == <<"finished", "">>
PresetFailedKey == <<"problem", "preset">>
Keys == {<<"alarm_clock", "">>, <<"finished", "">>} \cup
        {<<"problem", which>> : which \in Problems \cup {"preset"}}

NotifierInit ==
    /\ Init
    /\ present = {}
    /\ reported = [e \in Sensors |-> "off"]
    /\ home \in SUBSET People
    /\ sent = {}
    /\ finish = <<>>
    /\ told = [e \in Alarms |-> 0]

-----------------------------------------------------------------------------
(* _send, and the two callbacks.                                           *)

Sends(key) == key[1] \in NotifyOn /\ key \notin sent /\ home # {}
\* (mutant) what nobody was home for counts as sent
RememberUnsent(key) == IF key[1] \in NotifyOn THEN sent \cup {key} ELSE sent
Remember(key) == IF Sends(key) THEN sent \cup {key} ELSE sent

\* Only off -> on is news.
\* (mutant) so is a sensor that comes back on
IsNewsOnReturn(old, new) == old # "on" /\ new = "on"
IsNews(old, new) == old = "off" /\ new = "on"

\* While a preset runs, its programmes' ends are not news.
\* (mutant) they are
StepNewsNever(e) == FALSE
StepNews(e) == e = ProgramFinished /\ runner.record.state = "running"

OnStateChanged(e, new) ==
    /\ reported' = [reported EXCEPT ![e] = new]
    /\ IF IsNews(reported[e], new) /\ ~StepNews(e)
       THEN /\ sent' = Remember(KeyOf(e))
            /\ finish' = IF Sends(KeyOf(e)) /\ e = ProgramFinished
                         THEN Append(finish, "programme") ELSE finish
            /\ told' = IF Sends(KeyOf(e)) /\ e \in Alarms
                       THEN [told EXCEPT ![e] = IF @ = 0 THEN 1 ELSE 2] ELSE told
       ELSE UNCHANGED <<sent, finish, told>>

OnFinishedEvent ==
    /\ sent' = Remember(PresetFinishedKey)
    /\ finish' = IF Sends(PresetFinishedKey) THEN Append(finish, "preset") ELSE finish
    /\ UNCHANGED <<present, reported, home, told>>

OnFailedEvent ==
    /\ sent' = Remember(PresetFailedKey)
    /\ UNCHANGED <<present, reported, home, finish, told>>

-----------------------------------------------------------------------------
(* What happens at the appliance, to its entities, to people and to time.  *)

\* The programme's own timer runs out, which the operation reports next.
FinishesFirst ==
    /\ oven.program # 0
    /\ present' = present \cup {ProgramFinished}
    /\ UNCHANGED <<vars, reported, home, sent, finish, told>>

AlarmArises(e) ==
    /\ e \notin present
    /\ present' = present \cup {e}
    /\ told' = [told EXCEPT ![e] = 0]
    /\ UNCHANGED <<vars, reported, home, sent, finish>>

AlarmClears(e) ==
    /\ e \in present
    /\ present' = present \ {e}
    /\ UNCHANGED <<vars, reported, home, sent, finish, told>>

Actual(e) ==
    IF ~Reachable(oven) THEN "unavailable" ELSE IF e \in present THEN "on" ELSE "off"

Reports(e) ==
    /\ runner.up /\ reported[e] # Actual(e)
    /\ OnStateChanged(e, Actual(e))
    /\ UNCHANGED <<vars, present, home>>

Moves(p) ==
    /\ home' = IF p \in home THEN home \ {p} ELSE home \cup {p}
    /\ UNCHANGED <<vars, present, reported, sent, finish, told>>

\* A write, a report, a press and the end of a step by the oven's own timer
\* all take less than two minutes.
Settled ==
    /\ runner.saves = <<>> /\ oven.commands = <<>>
    /\ reported[ProgramFinished] = Actual(ProgramFinished)
    /\ oven.program > 0 => clock.step[oven.program] # "over"

TwoMinutesPass(key) ==
    /\ key \in sent /\ Settled
    /\ sent' = sent \ {key}
    /\ UNCHANGED <<vars, present, reported, home, finish, told>>

-----------------------------------------------------------------------------
(* The runner's steps, and what the notifier sees of them.                 *)

FiresFinished == \E s \in Slots : Is(s, "finishSave") /\ LastSaved(s)
FiresFailed == \E s \in Slots : FailSaved(s)

\* A programme that starts takes the news of the last one's finish away.  Nobody
\* starts one in the time it takes to save that a run has finished.
OvenNews ==
    /\ OnOperation
    /\ LET starts == oven.program = 0 /\ oven'.program # 0
           ends   == oven.program # 0 /\ oven'.program = 0 /\ oven'.commands = oven.commands
       IN  /\ starts => ~Alive({"finishSave"})
           /\ finish' = IF starts /\ oven'.program = Foreign THEN <<>> ELSE finish
           /\ present' \in IF starts THEN {present \ {ProgramFinished}}
                           ELSE IF ends THEN {present, present \cup {ProgramFinished}}
                           ELSE {present}
    /\ UNCHANGED <<reported, home, sent, told>>

\* A step takes more than two minutes to get near its end: the steps that are not
\* brief are of four minutes or more here.
StepNears ==
    /\ StepPasses
    /\ sent' = IF \E k \in 1 .. MaxSteps : clock.step[k] = "early" /\ clock'.step[k] # "early"
               THEN {} ELSE sent
    /\ UNCHANGED <<present, reported, home, finish, told>>

\* _sent is lost; the entities are unavailable until they report again.
Forgets ==
    /\ Crash
    /\ sent' = {}
    /\ reported' = [e \in Sensors |-> "unavailable"]
    /\ UNCHANGED <<present, home, finish, told>>

\* A run begins, or is refused: what is sent of a finish from its begin on is
\* about that run.
RunBegins ==
    /\ (\E s \in Slots : RunNowSaved(s)) \/ StartComes \/ SetupScheduled
    /\ finish' = IF runner'.record.state = "running" THEN <<>> ELSE finish
    /\ UNCHANGED <<present, reported, home, sent, told>>

\* Every other step of the runner.
OtherSave ==
    \/ \E s \in Slots : StepSaved(s) \/ (LastSaved(s) /\ ~Is(s, "finishSave"))
    \/ OrphanSaved

Unheard ==
    /\ \/ OnLinkDrop \/ OnDoor \/ OnRemoteStart \/ OnTemperature
       \/ (\E s \in Background : Resume(s)) \/ OtherSave
       \/ Command \/ StepTimer \/ PreheatTimeout \/ MaxReached \/ DoorGraceOver
       \/ StartPasses \/ MaxPasses \/ SetupInactive \/ SetupRunning
    /\ UNCHANGED news

NotifierNext ==
    \/ FiresFinished /\ OnFinishedEvent
    \/ FiresFailed /\ OnFailedEvent
    \/ OvenNews \/ StepNears \/ Forgets \/ RunBegins \/ Unheard
    \/ FinishesFirst
    \/ \E e \in Alarms : AlarmArises(e) \/ AlarmClears(e)
    \/ \E e \in Sensors : Reports(e)
    \/ \E p \in People : Moves(p)
    \/ \E key \in Keys : TwoMinutesPass(key)

notifierVars == <<vars, news>>
NotifierSpec == NotifierInit /\ [][NotifierNext]_notifierVars

-----------------------------------------------------------------------------
NotifierTypeOK ==
    /\ TypeOK
    /\ present \subseteq Sensors
    /\ reported \in [Sensors -> {"off", "on", "unavailable"}]
    /\ home \subseteq People
    /\ sent \subseteq Keys
    /\ finish \in Seq({"programme", "preset"})
    /\ told \in [Alarms -> 0 .. 2]

\* "The same news within two minutes is sent once" (README): the programme of
\* each step finishes, and the end of a preset is seen twice, as its programme's
\* and as its own, in either order and with a write in between; of a preset that
\* finished people hear once.
OneMessagePerPreset == runner.record.state = "finished" => Len(finish) <= 1

\* Whenever a preset finishes and somebody chosen is home, the end of it has
\* been sent by then, however often people left and came while it ended.
FinishTold ==
    [][ FiresFinished /\ home # {} /\ "finished" \in NotifyOn => finish' # <<>> ]_notifierVars

\* "A restart or a reconnect does not resend old alarms" (README): an alarm is
\* sent at most once from when it arises, over dropped links and restarts.
AlarmToldOnce == \A e \in Alarms : told[e] <= 1

-----------------------------------------------------------------------------
(* What the documentation says and the code does not keep.                 *)

\* "The preset reports its own finish" (README): what people hear of a preset
\* that finishes is the preset's message, not its programme's.
PresetReportsItsOwn ==
    [][ FiresFinished /\ home # {} => finish' # <<"programme">> ]_notifierVars

=============================================================================
