-------------------------- MODULE AlarmNotifierProofs --------------------------
(***************************************************************************)
(* What holds of the notifier for every runner beside it, any sensors and  *)
(* any people: its types, that no alarm is sent twice, that the end of a   *)
(* preset is told (FinishAlwaysTold) and told once (FinishToldOnce).  Its  *)
(* steps are the runner's with something added, so what is proved of the   *)
(* runner holds beside the notifier too (NotifierRunsTheRunner).           *)
(***************************************************************************)
EXTENDS AlarmNotifier, PresetRunnerSteps

-----------------------------------------------------------------------------
(* The runner beside the notifier.                                         *)

\* What the notifier does alone leaves the runner as it is.
LEMMA NotifierAlone ==
    ASSUME \/ FinishesFirst
           \/ \E e \in Alarms : AlarmArises(e) \/ AlarmClears(e)
           \/ \E e \in Sensors : Reports(e)
           \/ \E p \in People : Moves(p)
           \/ \E key \in Keys : TwoMinutesPass(key)
    PROVE  UNCHANGED vars
  BY DEF FinishesFirst, AlarmArises, AlarmClears, Reports, Moves, TwoMinutesPass

\* Every other step is one of the runner's.
LEMMA NotifierBeside ==
    ASSUME \/ FiresFinished /\ OnFinishedEvent
           \/ FiresFailed /\ OnFailedEvent
           \/ OvenNews \/ StepNears \/ Forgets \/ RunBegins \/ Unheard
    PROVE  Next
<1>1. CASE FiresFinished \/ FiresFailed
  BY <1>1 DEF FiresFinished, FiresFailed, Next, Save
<1>2. CASE OvenNews
  BY <1>2 DEF OvenNews, Next, Observe
<1>3. CASE StepNears \/ Forgets
  BY <1>3 DEF StepNears, Forgets, Next, TimePasses
<1>4. CASE Unheard
  BY <1>4 DEF Unheard, OtherSave, Next, Observe, Save, TimePasses, Timer, Setup
<1>5. CASE RunBegins
  BY <1>5 DEF RunBegins, Next, Save, Timer, Setup
<1>. QED  BY <1>1, <1>2, <1>3, <1>4, <1>5

LEMMA NotifierStep == [NotifierNext]_notifierVars => [Next]_vars
  BY NotifierAlone, NotifierBeside DEF NotifierNext, notifierVars

\* The notifier only listens: beside it the runner, its oven and its storage do
\* what they do without it.
THEOREM NotifierRunsTheRunner == NotifierSpec => Spec
<1>1. NotifierInit => Init
  BY DEF NotifierInit
<1>. QED  BY <1>1, NotifierStep, PTL DEF NotifierSpec, Spec

-----------------------------------------------------------------------------
(* Types, and alarms.                                                      *)

Reported == {"off", "on", "unavailable"}

NewsType ==
    /\ present \subseteq Sensors
    /\ reported \in [Sensors -> Reported]
    /\ home \subseteq People
    /\ sent \subseteq Keys
    /\ finish \in Seq({"programme", "preset"})
    /\ told \in [Alarms -> 0 .. 2]

\* An alarm that has been sent and has not cleared is not reported off, from which
\* alone it could be news again.
Heard ==
    \A e \in Alarms : told[e] <= 1 /\ (told[e] = 1 /\ e \in present => reported[e] # "off")

NotifierInv == NewsType /\ Heard

LEMMA NewsKeys ==
    /\ PresetFinishedKey \in Keys /\ PresetFailedKey \in Keys
    /\ \A e \in Sensors : KeyOf(e) \in Keys
<1>1. PresetFinishedKey \in Keys /\ PresetFailedKey \in Keys
  BY DEF Keys, PresetFinishedKey, PresetFailedKey
<1>2. ASSUME NEW e \in Sensors PROVE KeyOf(e) \in Keys
  <2>1. CASE e \in Problems
    <3>1. KindOf(e) = "problem"
      BY <2>1, NotifierAssumption DEF KindOf
    <3>2. KeyOf(e) = <<"problem", e>>
      BY <2>1, <3>1 DEF KeyOf
    <3>. QED  BY <2>1, <3>2 DEF Keys
  <2>2. CASE e \in Timers /\ e \notin Problems
    <3>1. KindOf(e) = "alarm_clock"
      BY <2>2 DEF KindOf
    <3>2. KeyOf(e) = <<"alarm_clock", "">>
      BY <2>2, <3>1 DEF KeyOf
    <3>. QED  BY <3>2 DEF Keys
  <2>3. CASE e \notin Timers /\ e \notin Problems
    <3>1. KindOf(e) = "finished"
      BY <2>3 DEF KindOf
    <3>2. KeyOf(e) = <<"finished", "">>
      BY <2>3, <3>1 DEF KeyOf
    <3>. QED  BY <3>2 DEF Keys
  <2>. QED  BY <2>1, <2>2, <2>3
<1>. QED  BY <1>1, <1>2

LEMMA RememberKeys ==
    ASSUME NewsType, NEW key \in Keys
    PROVE  Remember(key) \subseteq Keys
  BY DEF Remember, NewsType

\* A report of a sensor sends its news once.
LEMMA ReportsKeeps ==
    ASSUME NotifierInv, NEW e \in Sensors, Reports(e)
    PROVE  NotifierInv'
<1>1. /\ reported \in [Sensors -> Reported] /\ Actual(e) \in Reported
      /\ reported' = [reported EXCEPT ![e] = Actual(e)]
      /\ present' = present /\ home' = home /\ told \in [Alarms -> 0 .. 2]
      /\ (Actual(e) = "on" => e \in present) /\ (Actual(e) = "off" => e \notin present)
  BY DEF NotifierInv, NewsType, Reports, OnStateChanged, Actual, Reported
<1>2. CASE ~(IsNews(reported[e], Actual(e)) /\ ~StepNews(e))
  <2>1. sent' = sent /\ finish' = finish /\ told' = told
    BY <1>2 DEF Reports, OnStateChanged
  <2>2. NewsType'
    BY <1>1, <2>1 DEF NotifierInv, NewsType
  <2>3. Heard'
    BY <1>1, <2>1 DEF NotifierInv, Heard
  <2>. QED  BY <2>2, <2>3 DEF NotifierInv
<1>3. CASE IsNews(reported[e], Actual(e)) /\ ~StepNews(e)
  <2>1. /\ sent' = Remember(KeyOf(e))
        /\ finish' = IF Sends(KeyOf(e)) /\ e = ProgramFinished
                     THEN Append(finish, "programme") ELSE finish
        /\ told' = IF Sends(KeyOf(e)) /\ e \in Alarms
                   THEN [told EXCEPT ![e] = IF @ = 0 THEN 1 ELSE 2] ELSE told
        /\ reported[e] = "off" /\ Actual(e) = "on"
    BY <1>3 DEF Reports, OnStateChanged, IsNews
  <2>2. sent' \subseteq Keys
    BY <2>1, NewsKeys, RememberKeys DEF NotifierInv
  <2>3. finish' \in Seq({"programme", "preset"})
    BY <2>1, AppendProperties DEF NotifierInv, NewsType
  <2>4. /\ told' \in [Alarms -> 0 .. 2]
        /\ \A a \in Alarms : \/ told'[a] = told[a]
                             \/ a = e /\ told'[a] = IF told[a] = 0 THEN 1 ELSE 2
    BY <1>1, <2>1
  <2>5. NewsType'
    BY <1>1, <2>2, <2>3, <2>4 DEF NotifierInv, NewsType
  <2>6. ASSUME NEW a \in Alarms
        PROVE  told'[a] <= 1 /\ (told'[a] = 1 /\ a \in present' => reported'[a] # "off")
    <3>1. a \in Sensors /\ told[a] \in 0 .. 2 /\ told[a] <= 1
      BY <1>1 DEF Sensors, NotifierInv, Heard
    <3>2. CASE a # e
      <4>1. told'[a] = told[a] /\ reported'[a] = reported[a]
        BY <1>1, <2>4, <3>1, <3>2
      <4>. QED  BY <1>1, <4>1 DEF NotifierInv, Heard
    <3>3. CASE a = e
      <4>1. told[e] = 0 /\ reported'[e] = "on"
        BY <1>1, <2>1, <3>1, <3>3 DEF NotifierInv, Heard
      <4>. QED  BY <2>4, <3>3, <4>1
    <3>. QED  BY <3>2, <3>3
  <2>. QED  BY <2>5, <2>6 DEF NotifierInv, Heard
<1>. QED  BY <1>2, <1>3

\* A step that only hears a new finish, or forgets what was sent, keeps the rest.
LEMMA OthersKeep ==
    ASSUME NotifierInv,
           \/ FiresFinished /\ OnFinishedEvent
           \/ FiresFailed /\ OnFailedEvent
           \/ OvenNews \/ StepNears \/ Forgets \/ RunBegins \/ Unheard
           \/ FinishesFirst
           \/ \E e \in Alarms : AlarmArises(e) \/ AlarmClears(e)
           \/ \E p \in People : Moves(p)
           \/ \E key \in Keys : TwoMinutesPass(key)
           \/ UNCHANGED notifierVars
    PROVE  NotifierInv'
<1> USE DEF NotifierInv
<1>1. ASSUME told' = told, reported' = reported, home' \subseteq People,
             sent' \subseteq Keys, finish' \in Seq({"programme", "preset"}),
             \/ present' = present
             \/ present' = present \cup {ProgramFinished}
             \/ present' = present \ {ProgramFinished}
      PROVE  NotifierInv'
  <2>1. NewsType'
    BY <1>1 DEF NewsType, Sensors
  <2>2. \A e \in Alarms : e \in present' <=> e \in present
    BY <1>1, NotifierAssumption DEF Alarms
  <2>. QED  BY <1>1, <2>1, <2>2 DEF Heard
<1>2. home \subseteq People /\ sent \subseteq Keys /\ finish \in Seq({"programme", "preset"})
  BY DEF NewsType
<1>3. CASE FiresFinished /\ OnFinishedEvent
  <2>1. sent' \subseteq Keys /\ finish' \in Seq({"programme", "preset"})
    BY <1>2, <1>3, NewsKeys, RememberKeys, AppendProperties DEF OnFinishedEvent
  <2>. QED  BY <1>1, <1>2, <1>3, <2>1 DEF OnFinishedEvent
<1>4. CASE FiresFailed /\ OnFailedEvent
  <2>1. sent' \subseteq Keys
    BY <1>4, NewsKeys, RememberKeys DEF OnFailedEvent
  <2>. QED  BY <1>1, <1>2, <1>4, <2>1 DEF OnFailedEvent
<1>5. CASE OvenNews
  <2>1. finish' \in Seq({"programme", "preset"})
    BY <1>2, <1>5, EmptySeq DEF OvenNews
  <2>. QED  BY <1>1, <1>2, <1>5, <2>1 DEF OvenNews
<1>6. CASE StepNears
  <2>1. sent' \subseteq Keys
    BY <1>2, <1>6 DEF StepNears
  <2>. QED  BY <1>1, <1>2, <1>6, <2>1 DEF StepNears
<1>7. CASE Forgets
  <2>1. /\ told' = told /\ present' = present /\ home' = home /\ finish' = finish /\ sent' = {}
        /\ reported' = [e \in Sensors |-> "unavailable"]
    BY <1>7 DEF Forgets
  <2>2. NewsType'
    BY <1>2, <2>1 DEF NewsType, Reported
  <2>. QED  BY <2>1, <2>2 DEF Heard, Sensors
<1>8. CASE Unheard \/ FinishesFirst \/ UNCHANGED notifierVars
  BY <1>1, <1>2, <1>8 DEF Unheard, news, FinishesFirst, notifierVars
<1>9. ASSUME NEW e \in Alarms, AlarmArises(e) \/ AlarmClears(e)
      PROVE  NotifierInv'
  <2>1. /\ reported' = reported /\ home' = home /\ sent' = sent /\ finish' = finish
        /\ \/ present' = present \cup {e} /\ told' = [told EXCEPT ![e] = 0]
           \/ present' = present \ {e} /\ told' = told
    BY <1>9 DEF AlarmArises, AlarmClears
  <2>2. NewsType'
    BY <2>1 DEF NewsType, Sensors
  <2>3. \A a \in Alarms : \/ told'[a] = 0
                          \/ told'[a] = told[a] /\ (a \in present' => a \in present)
    BY <2>1 DEF NewsType
  <2>4. Heard'
    BY <2>1, <2>3 DEF Heard
  <2>. QED  BY <2>2, <2>4
<1>10. ASSUME NEW p \in People, Moves(p)
       PROVE  NotifierInv'
  <2>1. home' \subseteq People
    BY <1>2, <1>10 DEF Moves
  <2>. QED  BY <1>1, <1>2, <1>10, <2>1 DEF Moves
<1>11. ASSUME NEW key \in Keys, TwoMinutesPass(key)
       PROVE  NotifierInv'
  <2>1. sent' \subseteq Keys
    BY <1>2, <1>11 DEF TwoMinutesPass
  <2>. QED  BY <1>1, <1>2, <1>11, <2>1 DEF TwoMinutesPass
<1>12. CASE RunBegins
  <2>1. finish' \in Seq({"programme", "preset"})
    BY <1>2, <1>12, EmptySeq DEF RunBegins
  <2>. QED  BY <1>1, <1>2, <1>12, <2>1 DEF RunBegins
<1>. QED  BY <1>3, <1>4, <1>5, <1>6, <1>7, <1>8, <1>9, <1>10, <1>11, <1>12

LEMMA NotifierAlways == NotifierSpec => []NotifierInv
<1>1. NotifierInit => NotifierInv
  <2> SUFFICES ASSUME NotifierInit PROVE NotifierInv
    OBVIOUS
  <2>1. NewsType
    BY EmptySeq DEF NotifierInit, NewsType, Reported
  <2>. QED  BY <2>1 DEF NotifierInv, Heard, NotifierInit
<1>2. NotifierInv /\ [NotifierNext]_notifierVars => NotifierInv'
  BY ReportsKeeps, OthersKeep DEF NotifierNext
<1>. QED  BY <1>1, <1>2, PTL DEF NotifierSpec

\* The types of the notifier and of the runner beside it: what _sent remembers
\* are keys of news, whatever sensor changes and however (unavailable included).
THEOREM NotifierTypeCorrect == NotifierSpec => []NotifierTypeOK
<1>1. TypeOK /\ NotifierInv => NotifierTypeOK
  BY DEF NotifierInv, NewsType, Reported, NotifierTypeOK
<1>. QED  BY <1>1, NotifierAlways, NotifierRunsTheRunner, TypeCorrect, PTL

\* _on_state_changed: an alarm is sent at most once from when it arises, over
\* any number of dropped links and restarts, because coming back on from
\* unavailable is not news.
THEOREM AlarmsToldOnce == NotifierSpec => []AlarmToldOnce
<1>1. NotifierInv => AlarmToldOnce
  BY DEF NotifierInv, Heard, AlarmToldOnce
<1>. QED  BY <1>1, NotifierAlways, PTL

-----------------------------------------------------------------------------
(* Which awaits a step of the runner enters.                               *)

\* A task waits for its step to run, and the oven was seen running since.
Saw(r, t) == r.tasks[t].pc = "runWait" /\ r.tasks[t].woken

\* An abort press is entered only for the next step, the wait of a recovery only by a
\* restart, the write of a finish only as the run finishes, and the oven is seen
\* running only as it runs.
Enters(r, q, o) ==
    \A t \in Slots :
        /\ q.tasks[t].pc = "stopPress" =>
              \/ r.tasks[t].pc = "stopPress"
              \/ r.record.state = "running" /\ q.record.step_index # r.record.step_index
        /\ q.tasks[t].pc = "recoverWait" => r.tasks[t].pc = "recoverWait"
        /\ q.tasks[t].pc = "finishSave" =>
              \/ r.tasks[t].pc = "finishSave"
              \/ r.record.state = "running" /\ q.record.state = "finished"
        /\ Saw(q, t) => Saw(r, t) \/ Operation(o) = "running"

\* One task goes on, to none of those awaits, and others may be cancelled.
Plain(r, q, s, o) ==
    /\ \A t \in Slots \ {s} : q.tasks[t] = r.tasks[t] \/ q.tasks[t] = NoTask
    /\ q.tasks[s].pc \notin {"stopPress", "recoverWait", "finishSave"}
    /\ Saw(q, s) => Operation(o) = "running"

LEMMA PlainEnters ==
    ASSUME NEW r, NEW q, NEW s, NEW o, Plain(r, q, s, o)
    PROVE  Enters(r, q, o)
<1>1. NoTask.pc = "free"
  BY DEF NoTask
<1>. QED  BY <1>1 DEF Plain, Enters, Saw

LEMMA PlainTwice ==
    ASSUME NEW r, NEW p, NEW q, NEW s, NEW o, Plain(r, p, s, o), Plain(p, q, s, o)
    PROVE  Plain(r, q, s, o)
  BY DEF Plain

LEMMA EntersAfter ==
    ASSUME NEW r, NEW p, NEW q, NEW o, p.record = r.record, Enters(r, p, o), Enters(p, q, o)
    PROVE  Enters(r, q, o)
  BY DEF Enters

LEMMA TasksEnter ==
    ASSUME NEW r, NEW q, NEW o, q.tasks = r.tasks
    PROVE  Enters(r, q, o)
  BY DEF Enters, Saw

PlainPcs == Pcs \ {"stopPress", "recoverWait", "finishSave", "runWait"}

LEMMA MovePlain ==
    ASSUME NEW r \in Runners, NEW s \in Slots, NEW pc \in PlainPcs, NEW o
    PROVE  /\ Plain(r, At(r, s, pc), s, o) /\ Plain(r, End(r, s), s, o)
           /\ Plain(r, Commit(r, s, pc), s, o)
<1>1. /\ At(r, s, pc).tasks[s].pc = pc /\ End(r, s).tasks[s].pc = "free"
      /\ \A t \in Slots \ {s} : At(r, s, pc).tasks[t] = r.tasks[t] /\ End(r, s).tasks[t] = r.tasks[t]
      /\ Commit(r, s, pc).tasks = At(r, s, pc).tasks
  BY DEF At, End, Commit, NoTask, Runners, Tasks
<1>. QED  BY <1>1 DEF Plain, PlainPcs, Saw

LEMMA WaitPlain ==
    ASSUME NEW r \in Runners, NEW s \in Slots, NEW o,
           NEW pc \in {"stopWait", "remoteWait", "runWait"}
    PROVE  Plain(r, Wait(r, s, pc, o), s, o)
<1> DEFINE q == Wait(r, s, pc, o)
<1>1. At(r, s, pc) \in Runners /\ pc \in Pcs
  BY AtType DEF Pcs, TaskPcs, TransitionPcs
<1>2. /\ q.tasks[s].pc = pc /\ q.tasks[s].woken = Holds(pc, o)
      /\ \A t \in Slots \ {s} : q.tasks[t] = r.tasks[t]
  BY <1>1 DEF Wait, At, Runners, Tasks
<1> HIDE DEF q
<1>3. Plain(r, q, s, o)
  BY <1>2 DEF Plain, Saw, Holds
<1>. QED  BY <1>3 DEF q

LEMMA IssuePlain ==
    ASSUME NEW r \in Runners, NEW s \in Slots, NEW pc \in PlainPcs, NEW o
    PROVE  Plain(r, Issue(r, s, pc, o), s, o)
  BY MovePlain, WaitPlain DEF Issue

LEMMA AttemptPlain ==
    ASSUME NEW r \in Runners, NEW s \in Slots, NEW n \in 0 .. StartAttempts, NEW o
    PROVE  Plain(r, Attempt(r, s, n, o), s, o)
<1> DEFINE q == [r EXCEPT !.tasks[s].attempt = n]
           i == Issue(q, s, "select", o)
<1>1. q \in Runners /\ \A t \in Slots \ {s} : q.tasks[t] = r.tasks[t]
  BY ZenonT(60) DEF Runners, Tasks
<1> HIDE DEF q
<1>2. "select" \in PlainPcs
  BY DEF PlainPcs, Pcs, TaskPcs, TransitionPcs
<1>3. Plain(q, i, s, o)
  BY <1>1, <1>2, IssuePlain
<1> HIDE DEF i
<1>4. Plain(r, i, s, o)
  BY <1>1, <1>3 DEF Plain
<1>. QED  BY <1>4 DEF Attempt, i, q

LEMMA FailPlain ==
    ASSUME NEW r \in Runners, NEW s \in Background, NEW abort, NEW o,
           NEW after \in {"return", "unlock", "powerOff"}
    PROVE  Plain(r, Fail(r, s, abort, after, o), s, o)
<1> DEFINE c == CancelTasks(r, s)
           h == ClearHandlers(c)
           q == [h EXCEPT !.tasks[s].after = after]
           f == [q EXCEPT !.record.state = "failed"]
<1>1. s \in Slots /\ "failPress" \in PlainPcs /\ "failSave" \in PlainPcs
  BY Places DEF PlainPcs, Pcs, TaskPcs, FailPcs
<1>2. c \in Runners /\ Cancelled(r, c, s)
  BY CancelFacts, CancelType DEF CancelTasks, Slots
<1> HIDE DEF c
<1>3. h \in Runners /\ h.tasks = c.tasks
  BY <1>2, ClearHandlersType DEF ClearHandlers, ClearStepHandlers, Runners
<1> HIDE DEF h
<1>4. q \in Runners /\ \A t \in Slots \ {s} : q.tasks[t] = h.tasks[t]
  <2>1. q \in Runners
    BY <1>1, <1>3, AfterType
  <2>. QED  BY <1>3, <2>1 DEF Runners
<1> HIDE DEF q
<1>5. f \in Runners /\ f.tasks = q.tasks
  BY <1>4, RecordType DEF Runners, States
<1> HIDE DEF f
<1>6. Plain(q, At(q, s, "failPress"), s, o) /\ Plain(f, Commit(f, s, "failSave"), s, o)
  BY <1>1, <1>4, <1>5, MovePlain
<1>7. \A t \in Slots \ {s} : q.tasks[t] = r.tasks[t] \/ q.tasks[t] = NoTask
  BY <1>2, <1>3, <1>4, Places DEF Cancelled
<1>8. \A x : Plain(q, x, s, o) \/ Plain(f, x, s, o) => Plain(r, x, s, o)
  BY <1>5, <1>7 DEF Plain
<1>. QED  BY <1>6, <1>8 DEF Fail, Failed, f, q, h, c

LEMMA AttemptFailedPlain ==
    ASSUME NEW r \in Runners, NEW s \in Background, NEW o
    PROVE  Plain(r, AttemptFailed(r, s, o), s, o)
<1>1. s \in Slots
  BY Places
<1>2. ~(RemoteStart(o) = "no" \/ r.tasks[s].attempt = StartAttempts)
        => r.tasks[s].attempt + 1 \in 0 .. StartAttempts
  BY <1>1, CountsAssumption DEF Runners, Tasks
<1>. QED  BY <1>1, <1>2, FailPlain, AttemptPlain DEF AttemptFailed

LEMMA CheckRemoteStartPlain ==
    ASSUME NEW r \in Runners, NEW s \in Slots, NEW o
    PROVE  Plain(r, CheckRemoteStart(r, s, o), s, o)
<1>1. 1 \in 0 .. StartAttempts
  BY CountsAssumption
<1>. QED  BY <1>1, WaitPlain, AttemptPlain DEF CheckRemoteStart

\* _async_run_step presses abort only on a busy oven.
LEMMA RunStepEnters ==
    ASSUME NEW r \in Runners, NEW s \in Background, r.record.state = "running",
           NEW k \in 0 .. MaxSteps, NEW o, k # r.record.step_index \/ ~Busy(o)
    PROVE  /\ Enters(r, RunStep(r, s, k, o), o)
           /\ ~Busy(o) => Plain(r, RunStep(r, s, k, o), s, o)
<1> DEFINE c == ClearStepHandlers(r)
           q == [c EXCEPT !.record.step_index = k, !.transitioning = TRUE,
                          !.tasks[s] = [NoTask EXCEPT !.step = k]]
           a == At(q, s, "stopPress")
<1>1. s \in Slots /\ "stopPress" \in Pcs /\ "failPress" \in PlainPcs
  BY Places DEF Pcs, TaskPcs, TransitionPcs, PlainPcs, FailPcs
<1>2. c \in Runners /\ c.tasks = r.tasks
  BY ClearHandlersType DEF ClearStepHandlers, Runners
<1> HIDE DEF c
<1>3. /\ q \in Runners /\ q.tasks[s].pc = "free" /\ q.record.step_index = k
      /\ \A t \in Slots \ {s} : q.tasks[t] = r.tasks[t]
  BY <1>1, <1>2, NoTaskType DEF NoTask, Runners, Records, Tasks
<1> HIDE DEF q
<1>4. Plain(r, q, s, o)
  BY <1>3 DEF Plain, Saw
<1>5. Plain(r, CheckRemoteStart(q, s, o), s, o)
  BY <1>1, <1>3, <1>4, CheckRemoteStartPlain, PlainTwice
<1>6. Plain(r, End(r, s), s, o)
  BY <1>1, MovePlain
<1>7. ASSUME k # r.record.step_index PROVE Enters(r, a, o)
  <2>1. Moved(q, a, s, {"stopPress"})
    BY <1>1, <1>3, WaitMoved
  <2> HIDE DEF a
  <2>2. /\ a.record.step_index # r.record.step_index /\ a.tasks[s].pc = "stopPress"
        /\ \A t \in Slots \ {s} : a.tasks[t] = r.tasks[t]
    BY <1>3, <1>7, <2>1 DEF Moved
  <2>. QED  BY <2>2 DEF Enters, Saw
<1>. QED  BY <1>5, <1>6, <1>7, PlainEnters DEF RunStep, a, q, c

\* A finish is written from a running run.
LEMMA FinishedEnters ==
    ASSUME NEW r \in Runners, NEW s \in Background, r.record.state = "running", NEW o
    PROVE  Enters(r, Finished(r, s), o)
<1> DEFINE record == [r.record EXCEPT !.state = "finished", !.ends = 0]
           p == [r EXCEPT !.record.state = "finished", !.record.ends = 0]
           q == Commit(p, s, "finishSave")
<1>1. record \in Records /\ record.state = "finished"
  <2>1. 0 \in 0 .. MaxSteps /\ "finished" \in States /\ r.record \in Records
    BY BoundsAssumption DEF States, Runners
  <2>. QED  BY <2>1 DEF Records
<1>2. p = [r EXCEPT !.record = record]
  BY DEF Runners
<1> HIDE DEF record, p
<1>3. p \in Runners /\ p.tasks = r.tasks /\ p.record.state = "finished"
  BY <1>1, <1>2 DEF Runners
<1>4. s \in Slots /\ "finishSave" \in Pcs
  BY Places DEF Pcs, TaskPcs
<1>5. Asked(p, q, s, "finishSave")
  BY <1>3, <1>4, CommitWrites
<1> HIDE DEF q
<1>6. /\ q.record.state = "finished" /\ q.tasks[s].pc = "finishSave"
      /\ \A t \in Slots \ {s} : q.tasks[t] = r.tasks[t]
  BY <1>3, <1>5 DEF Asked
<1>7. Enters(r, q, o)
  BY <1>6 DEF Enters, Saw
<1>. QED  BY <1>7 DEF Finished, p, q

LEMMA StepDoneEnters ==
    ASSUME NEW r \in Runners, NEW s \in Background, NEW o
    PROVE  Enters(r, StepDone(r, s, o), o)
<1> DEFINE h == ClearHandlers(r)
           a == At(h, s, "finishPress")
<1>1. s \in Slots /\ "finishPress" \in PlainPcs
  BY Places DEF PlainPcs, Pcs, TaskPcs
<1>2. Enters(r, End(r, s), o)
  BY <1>1, MovePlain, PlainEnters
<1>3. HasStep(r) /\ r.record.step_index < Len(r.record.preset)
         => /\ r.record.step_index + 1 \in 0 .. MaxSteps
            /\ r.record.step_index + 1 # r.record.step_index
  BY PresetsAssumption, BoundsAssumption DEF HasStep, Runners, Records
<1>4. h \in Runners /\ h.tasks = r.tasks /\ h.record = r.record
  BY ClearHandlersType DEF ClearHandlers, ClearStepHandlers, Runners
<1> HIDE DEF h
<1>5. Enters(r, h, o)
  BY <1>4, TasksEnter
<1>6. Enters(h, a, o)
  BY <1>1, <1>4, MovePlain, PlainEnters
<1>7. r.record.state = "running" => Enters(r, Finished(h, s), o)
  BY <1>4, <1>5, FinishedEnters, EntersAfter
<1>. QED  BY <1>2, <1>3, <1>4, <1>5, <1>6, <1>7, RunStepEnters, EntersAfter
          DEF StepDone, HasStep, h, a

LEMMA ArmStepEnters ==
    ASSUME NEW r \in Runners, NEW s \in Background, NEW k, NEW o
    PROVE  Enters(r, ArmStep(r, s, k, o), o)
<1>1. s \in Slots /\ "failPress" \in PlainPcs
  BY Places DEF PlainPcs, Pcs, TaskPcs, FailPcs
<1>2. Plain(r, End(r, s), s, o) /\ End(r, s) \in Runners
  BY <1>1, MovePlain, EndType
<1>3. \A h : [End(r, s) EXCEPT !.step_unsubs = h].tasks = End(r, s).tasks
  BY <1>2 DEF Runners
<1>4. \A x : x.tasks = End(r, s).tasks => Plain(r, x, s, o)
  BY <1>2 DEF Plain, Saw
<1>5. \A h : Enters(r, [End(r, s) EXCEPT !.step_unsubs = h], o)
  BY <1>3, <1>4, PlainEnters
<1>. QED  BY <1>2, <1>5, PlainEnters, StepDoneEnters DEF ArmStep

\* A run begins on an oven that is not busy.
LEMMA BeginEnters ==
    ASSUME NEW r \in Runners, NEW s \in Background, NEW o, NEW stays
    PROVE  Plain(r, Begin(r, s, o, stays), s, o)
<1> DEFINE record == [r.record EXCEPT !.state = "running", !.step_index = 1]
           p == [r EXCEPT !.record.state = "running", !.record.step_index = 1]
           g == ArmRunGuards(p)
<1>1. record \in Records /\ 1 \in 0 .. MaxSteps /\ record.state = "running"
  <2>1. 1 \in 0 .. MaxSteps /\ "running" \in States /\ r.record \in Records
    BY BoundsAssumption DEF States, Runners
  <2>. QED  BY <2>1 DEF Records
<1>2. p = [r EXCEPT !.record = record]
  BY DEF Runners
<1> HIDE DEF record, p
<1>3. p \in Runners /\ p.tasks = r.tasks /\ p.record = record
  BY <1>1, <1>2 DEF Runners
<1>4. g \in Runners /\ g.tasks = r.tasks /\ g.record.state = "running"
  BY <1>1, <1>3, ArmRunGuardsType DEF ArmRunGuards, Runners
<1> HIDE DEF g
<1>5. ~Busy(o) => Plain(g, RunStep(g, s, 1, o), s, o)
  BY <1>1, <1>4, RunStepEnters
<1>6. ~Busy(o) => Plain(r, RunStep(g, s, 1, o), s, o)
  BY <1>4, <1>5 DEF Plain
<1>. QED  BY <1>6, FailPlain DEF Begin, g, p

LEMMA CheckEnters ==
    ASSUME NEW r \in Runners, HasSlot(r), NEW o
    PROVE  Enters(r, CheckOperation(r, o), o) /\ Enters(r, CheckTemperature(r, o), o)
<1> DEFINE n == NewTask(r)
<1>1. n \in Background
  BY NewTaskFree
<1> HIDE DEF n
<1>2. Enters(r, r, o)
  BY TasksEnter
<1>3. Enters(r, Fail(r, n, FALSE, "return", o), o) /\ Enters(r, StepDone(r, n, o), o)
  BY <1>1, FailPlain, PlainEnters, StepDoneEnters
<1>. QED  BY <1>2, <1>3 DEF CheckOperation, CheckTemperature, n

\* A task is woken as its oven runs.
LEMMA WakeEnters ==
    ASSUME NEW r \in Runners, NEW o
    PROVE  Enters(r, Wake(r, o), o)
<1>1. \A t \in Slots : /\ Wake(r, o).tasks[t].pc = r.tasks[t].pc
                       /\ Wake(r, o).tasks[t].woken = (r.tasks[t].woken \/ Holds(r.tasks[t].pc, o))
  BY DEF Wake, Runners, Tasks
<1>. QED  BY <1>1 DEF Enters, Saw, Holds

LEMMA ObserveEnters ==
    ASSUME TypeOK, Observe, Ordered(runner)
    PROVE  Enters(runner, runner', oven')
<1> DEFINE w == Wake(runner, oven')
<1>1. runner \in Runners /\ w \in Runners /\ Alike(runner, w) /\ Enters(runner, w, oven')
  BY WakeType, WakeOrdered, WakeEnters DEF TypeOK
<1> HIDE DEF w
<1>2. w.record = runner.record /\ (HasSlot(runner) => HasSlot(w))
  BY <1>1, Places DEF Alike, Free, HasSlot
<1>3. CASE OnOperation
  <2>1. runner' = CheckOperation(w, oven') /\ HasSlot(w)
    BY <1>2, <1>3 DEF OnOperation, w
  <2>. QED  BY <1>1, <1>2, <2>1, CheckEnters, EntersAfter
<1>4. CASE OnLinkDrop
  <2>1. runner' = w \/ runner' = CheckDoor(w, oven')
    BY <1>4 DEF OnLinkDrop, w
  <2>2. CheckDoor(w, oven').tasks = w.tasks
    BY <1>1 DEF CheckDoor, Runners
  <2>. QED  BY <1>1, <1>2, <2>1, <2>2, TasksEnter, EntersAfter
<1>5. CASE OnDoor
  <2>1. runner'.tasks = runner.tasks
    BY <1>1, <1>5 DEF OnDoor, CheckDoor, Runners
  <2>. QED  BY <2>1, TasksEnter
<1>6. CASE OnRemoteStart
  BY <1>1, <1>6 DEF OnRemoteStart, w
<1>7. CASE OnTemperature
  BY <1>1, <1>7, CheckEnters DEF OnTemperature
<1>. QED  BY <1>3, <1>4, <1>5, <1>6, <1>7 DEF Observe

LEMMA ResumeEnters ==
    ASSUME TypeOK, Ordered(runner), NEW s \in Background, Resume(s)
    PROVE  Enters(runner, runner', oven')
<1>1. runner \in Runners /\ s \in Slots /\ 1 \in 0 .. StartAttempts
  BY Places, CountsAssumption DEF TypeOK
<1>2. /\ \A pc \in {"stopWait", "remoteWait", "runWait"} :
             Plain(runner, Wait(runner, s, pc, oven'), s, oven')
      /\ Plain(runner, Fail(runner, s, TRUE, "unlock", oven'), s, oven')
      /\ Plain(runner, AttemptFailed(runner, s, oven'), s, oven')
      /\ Plain(runner, CheckRemoteStart(runner, s, oven'), s, oven')
      /\ Plain(runner, Attempt(runner, s, 1, oven'), s, oven')
  BY <1>1, WaitPlain, FailPlain, AttemptFailedPlain, CheckRemoteStartPlain, AttemptPlain
<1>3. /\ "failSave" \in PlainPcs /\ "stepSave" \in PlainPcs
      /\ \A k, pc : NextDial(runner, k, pc) \in PlainPcs
  BY DEF PlainPcs, Pcs, TaskPcs, FailPcs, TransitionPcs, NextDial
<1>4. ASSUME NEW p \in Runners, p.tasks = runner.tasks
      PROVE  /\ \A pc \in PlainPcs : Enters(runner, Commit(p, s, pc), oven')
             /\ Enters(runner, End(p, s), oven')
  <2>1. Plain(p, End(p, s), s, oven') /\ \A pc \in PlainPcs : Plain(p, Commit(p, s, pc), s, oven')
    BY <1>1, <1>3, MovePlain
  <2>2. \A x : Plain(p, x, s, oven') => Plain(runner, x, s, oven')
    BY <1>4 DEF Plain
  <2>. QED  BY <2>1, <2>2, PlainEnters
<1>5. CASE StopPress(s)
  <2> DEFINE e == [End(runner, s) EXCEPT !.transitioning = FALSE]
  <2>1. e.tasks = End(runner, s).tasks
    BY <1>1, EndType DEF Runners
  <2>2. Plain(runner, End(runner, s), s, oven')
    BY <1>1, <1>3, MovePlain
  <2> HIDE DEF e
  <2>3. Plain(runner, e, s, oven')
    BY <2>1, <2>2 DEF Plain, Saw
  <2>. QED  BY <1>2, <1>5, <2>3, PlainEnters DEF StopPress, e
<1>6. CASE StopWait(s) \/ RemoteWait(s) \/ StartTimesOut(s)
  BY <1>2, <1>6, PlainEnters DEF StopWait, RemoteWait, StartTimesOut
<1>7. CASE Dial(s)
  <2>1. \A k, pc : Plain(runner, Issue(runner, s, NextDial(runner, k, pc), oven'), s, oven')
    BY <1>1, <1>3, IssuePlain
  <2>. QED  BY <1>2, <1>7, <2>1, PlainEnters DEF Dial
<1>8. CASE StartPress(s)
  BY <1>2, <1>8, PlainEnters DEF StartPress, Raised
<1>9. CASE StepStarts(s)
  <2> DEFINE k == runner.tasks[s].step
             q == [runner EXCEPT !.transitioning = FALSE]
             ends == IF StepAt(q, k).kind = "hold" THEN 0 ELSE k
             p == [q EXCEPT !.record.ends = ends]
  <2>1. ends \in 0 .. MaxSteps /\ runner.record \in Records
    BY <1>1, BoundsAssumption DEF Runners, Tasks
  <2> HIDE DEF ends
  <2>2. p \in Runners /\ p.tasks = runner.tasks
    <3>1. p = [runner EXCEPT !.transitioning = FALSE, !.record = [runner.record EXCEPT !.ends = ends]]
      BY <1>1 DEF Runners
    <3>2. [runner.record EXCEPT !.ends = ends] \in Records
      BY <2>1 DEF Records
    <3> HIDE DEF p
    <3>. QED  BY <1>1, <3>1, <3>2 DEF Runners
  <2>3. q \in Runners /\ q.tasks = runner.tasks
    BY <1>1 DEF Runners
  <2>4. runner' = End(q, s) \/ runner' = Commit(p, s, "stepSave")
    BY <1>9 DEF StepStarts, p, ends
  <2> HIDE DEF p, q
  <2>. QED  BY <1>3, <1>4, <2>2, <2>3, <2>4
<1>10. CASE FailPress(s)
  <2> DEFINE f == [runner EXCEPT !.record.state = "failed"]
  <2>1. f \in Runners /\ f.tasks = runner.tasks
    BY <1>1, RecordType DEF Runners, States
  <2> HIDE DEF f
  <2>. QED  BY <1>3, <1>4, <1>10, <2>1 DEF FailPress, Failed, f
<1>11. CASE FinishPress(s)
  <2>1. runner.record.state = "running"
    BY <1>1, <1>11, WhichByTask DEF FinishPress, Is, Finishing, Ready, InRun
  <2>. QED  BY <1>1, <1>11, <2>1, FinishedEnters DEF FinishPress
<1>12. CASE PowerOff(s)
  BY <1>1, <1>4, <1>12 DEF PowerOff
<1>13. CASE RecoverWait(s)
  <2> DEFINE g == ArmRunGuards(runner)
  <2>1. g \in Runners /\ g.tasks = runner.tasks /\ g.record = runner.record /\ oven' = oven
    BY <1>1, <1>13, ArmRunGuardsType DEF ArmRunGuards, Runners, RecoverWait
  <2> HIDE DEF g
  <2>2. Enters(runner, g, oven')
    BY <2>1, TasksEnter
  <2>3. /\ Enters(g, Fail(g, s, FALSE, "return", oven), oven')
        /\ Enters(g, StepDone(g, s, oven), oven')
        /\ \A k : Enters(g, ArmStep(g, s, k, oven), oven')
        /\ Enters(runner, Fail(runner, s, TRUE, "powerOff", oven), oven')
    BY <1>1, <2>1, FailPlain, PlainEnters, StepDoneEnters, ArmStepEnters
  <2>4. \A x : Enters(g, x, oven') => Enters(runner, x, oven')
    BY <2>1, <2>2, EntersAfter
  <2>. QED  BY <1>13, <2>3, <2>4 DEF RecoverWait, g
<1>. QED  BY <1>5, <1>6, <1>7, <1>8, <1>9, <1>10, <1>11, <1>12, <1>13 DEF Resume

LEMMA SaveEnters ==
    ASSUME TypeOK, Ordered(runner), Save
    PROVE  Enters(runner, runner', oven') /\ UNCHANGED oven
<1>1. /\ runner \in Runners /\ runner.saves # <<>> /\ UNCHANGED oven
  BY DEF TypeOK, Save, StepSaved, FailSaved, RunNowSaved, LastSaved, Lands, OrphanSaved
<1>2. Landed.record = runner.record /\ Landed.tasks = runner.tasks /\ Landed \in Runners
  BY <1>1, LandedFacts
<1>3. Enters(runner, Landed, oven')
  BY <1>2, TasksEnter
<1>4. Slots = Background \cup Calls
  BY Places
<1>5. \A x, s : Plain(Landed, x, s, oven') => Enters(runner, x, oven')
  BY <1>2, <1>3, PlainEnters, EntersAfter
<1>6. ASSUME NEW s \in Slots, StepSaved(s) PROVE Enters(runner, runner', oven')
  <2>1. s \in Background
    BY <1>1, <1>4, <1>6, WhichByCall DEF StepSaved, Lands, Is, CallPcs
  <2>. QED  BY <1>2, <1>3, <1>6, <2>1, ArmStepEnters, EntersAfter DEF StepSaved
<1>7. ASSUME NEW s \in Slots, FailSaved(s) \/ LastSaved(s) PROVE Enters(runner, runner', oven')
  <2> DEFINE after == runner.tasks[s].after
             e == [End(Landed, s) EXCEPT !.transitioning = @ /\ after # "unlock"]
  <2>1. "powerOff" \in PlainPcs
    BY DEF PlainPcs, Pcs, TaskPcs
  <2>2. Plain(Landed, At(Landed, s, "powerOff"), s, oven') /\ Plain(Landed, End(Landed, s), s, oven')
    BY <1>2, <2>1, MovePlain
  <2>3. e.tasks = End(Landed, s).tasks
    BY <1>2, EndType DEF Runners
  <2>4. runner' \in {At(Landed, s, "powerOff"), e, End(Landed, s)}
    BY <1>7 DEF FailSaved, LastSaved
  <2> HIDE DEF e
  <2>5. Plain(Landed, e, s, oven')
    BY <2>2, <2>3 DEF Plain, Saw
  <2>. QED  BY <1>5, <2>2, <2>4, <2>5
<1>8. ASSUME NEW s \in Slots, RunNowSaved(s) PROVE Enters(runner, runner', oven')
  <2> DEFINE e == End(Landed, s)
             n == NewTask(runner)
  <2>1. n \in Background
    BY <1>1, <1>8, NewTaskFree DEF RunNowSaved
  <2>2. "failPress" \in PlainPcs
    BY DEF PlainPcs, Pcs, TaskPcs, FailPcs
  <2>3. e \in Runners /\ Plain(Landed, e, s, oven') /\ e.record = runner.record
    <3>1. e.record = Landed.record
      BY <1>2 DEF End, Runners
    <3>. QED  BY <1>2, <2>2, <3>1, EndType, MovePlain
  <2>4. PICK stays : runner' = Begin(e, n, oven, stays)
    BY <1>8 DEF RunNowSaved, Begins
  <2> HIDE DEF e, n
  <2>5. Enters(runner, e, oven') /\ Enters(e, runner', oven')
    BY <1>1, <1>5, <2>1, <2>3, <2>4, BeginEnters, PlainEnters
  <2>. QED  BY <2>3, <2>5, EntersAfter
<1>9. OrphanSaved => Enters(runner, runner', oven')
  BY <1>3 DEF OrphanSaved
<1>. QED  BY <1>1, <1>6, <1>7, <1>8, <1>9 DEF Save

LEMMA CommandEnters ==
    ASSUME TypeOK, Command
    PROVE  Enters(runner, runner', oven')
<1>1. PICK c \in Calls :
         \/ \E p \in Presets, later \in BOOLEAN : CallRun(c, p, later)
         \/ CallAbort(c) \/ AbortPress(c)
  BY DEF Command
<1>2. /\ runner \in Runners /\ c \in Slots /\ c \notin Background
      /\ {"runSave", "runNowSave", "abortPress", "abortSave"} \subseteq PlainPcs
  BY Places DEF TypeOK, PlainPcs, Pcs, CallPcs, TaskPcs
<1>3. ASSUME NEW q, q.tasks = runner.tasks, DOMAIN q = DOMAIN runner
      PROVE  \A pc \in PlainPcs : Plain(runner, Commit(q, c, pc), c, oven')
  <2>1. /\ \A pc : Commit(q, c, pc).tasks = At(q, c, pc).tasks
        /\ \A pc : At(q, c, pc).tasks = At(runner, c, pc).tasks
    BY <1>2, <1>3 DEF Commit, At, Runners
  <2>2. \A pc \in PlainPcs : Plain(runner, At(runner, c, pc), c, oven')
    BY <1>2, MovePlain
  <2>. QED  BY <2>1, <2>2 DEF Plain, Saw
<1>4. ASSUME NEW p \in Presets, NEW later \in BOOLEAN, CallRun(c, p, later)
      PROVE  Enters(runner, runner', oven')
  <2> DEFINE record == [NoRecord EXCEPT !.state = "scheduled", !.preset = p]
             q == [runner EXCEPT !.record = record]
             u == [q EXCEPT !.unsubs = @ \cup {"due"}]
  <2>1. runner' = IF later THEN Commit(u, c, "runSave") ELSE Commit(q, c, "runNowSave")
    BY <1>4 DEF CallRun
  <2>2. /\ q.tasks = runner.tasks /\ DOMAIN q = DOMAIN runner
        /\ u.tasks = runner.tasks /\ DOMAIN u = DOMAIN runner
    BY <1>2 DEF Runners
  <2> HIDE DEF q, u
  <2>3. /\ Plain(runner, Commit(u, c, "runSave"), c, oven')
        /\ Plain(runner, Commit(q, c, "runNowSave"), c, oven')
    BY <1>2, <1>3, <2>2
  <2>. QED  BY <2>1, <2>3, PlainEnters
<1>5. ASSUME CallAbort(c)
      PROVE  Enters(runner, runner', oven')
  <2> DEFINE x == CancelTasks(runner, Nobody)
             h == ClearHandlers(x)
             q == [h EXCEPT !.transitioning = FALSE]
             i == [q EXCEPT !.record.state = "idle"]
             j == [q EXCEPT !.record = NoRecord]
  <2>1. x \in Runners /\ Cancelled(runner, x, Nobody)
    BY Places, <1>2, CancelFacts, CancelType DEF CancelTasks
  <2> HIDE DEF x
  <2>2. h \in Runners /\ h.tasks = x.tasks
    BY <2>1, ClearHandlersType DEF ClearHandlers, ClearStepHandlers, Runners
  <2> HIDE DEF h
  <2>3. q \in Runners /\ q.tasks = x.tasks
    BY <2>2 DEF Runners
  <2> HIDE DEF q
  <2>4. i \in Runners /\ i.tasks = x.tasks /\ j \in Runners /\ j.tasks = x.tasks
    BY <2>3, RecordType, NewRunnerType DEF Runners, States
  <2> HIDE DEF i, j
  <2>5. Plain(runner, q, c, oven')
    <3>1. \A t \in Slots \ {c} : q.tasks[t] = runner.tasks[t] \/ q.tasks[t] = NoTask
      BY <2>1, <2>3, Places DEF Cancelled
    <3>2. q.tasks[c] = runner.tasks[c] /\ runner.tasks[c].pc = "free"
      BY <1>2, <1>5, <2>1, <2>3, Places DEF Cancelled, CallAbort, Is
    <3>. QED  BY <3>1, <3>2 DEF Plain, Saw
  <2>6. \A y : y.tasks = q.tasks => Plain(runner, y, c, oven')
    BY <2>5 DEF Plain, Saw
  <2>7. /\ Plain(q, At(q, c, "abortPress"), c, oven')
        /\ Plain(i, Commit(i, c, "abortSave"), c, oven')
        /\ Plain(j, Commit(j, c, "abortSave"), c, oven')
    BY <1>2, <2>3, <2>4, MovePlain
  <2>8. /\ Plain(runner, At(q, c, "abortPress"), c, oven')
        /\ Plain(runner, Commit(i, c, "abortSave"), c, oven')
        /\ Plain(runner, Commit(j, c, "abortSave"), c, oven')
    BY <2>3, <2>4, <2>5, <2>6, <2>7, PlainTwice
  <2>9. runner' \in {At(q, c, "abortPress"), Commit(i, c, "abortSave"), q, Commit(j, c, "abortSave")}
    BY <1>5 DEF CallAbort, Aborted, j, i, q, h, x
  <2>. QED  BY <2>5, <2>8, <2>9, PlainEnters
<1>6. ASSUME AbortPress(c)
      PROVE  Enters(runner, runner', oven')
  <2> DEFINE i == [runner EXCEPT !.record.state = "idle"]
  <2>1. i.tasks = runner.tasks /\ DOMAIN i = DOMAIN runner
    BY <1>2 DEF Runners
  <2> HIDE DEF i
  <2>2. Plain(runner, Commit(i, c, "abortSave"), c, oven')
    BY <1>2, <1>3, <2>1
  <2>. QED  BY <1>6, <2>2, PlainEnters DEF AbortPress, Aborted, i
<1>. QED  BY <1>1, <1>4, <1>5, <1>6

LEMMA TimerEnters ==
    ASSUME TypeOK, Timer
    PROVE  Enters(runner, runner', oven') /\ UNCHANGED oven
<1> DEFINE n == NewTask(runner)
<1>1. runner \in Runners /\ n \in Background /\ UNCHANGED oven
  BY NewTaskFree
     DEF TypeOK, Timer, StartComes, StepTimer, PreheatTimeout, MaxReached, DoorGraceOver
<1> HIDE DEF n
<1>2. ASSUME NEW p, p.tasks = runner.tasks, p.record = runner.record
      PROVE  \A x : Enters(p, x, oven') => Enters(runner, x, oven')
  BY <1>2, TasksEnter, EntersAfter
<1>3. CASE StartComes
  <2> DEFINE q == [runner EXCEPT !.unsubs = @ \ {"due"}]
  <2>1. q \in Runners /\ q.tasks = runner.tasks /\ q.record = runner.record
    BY <1>1 DEF Runners
  <2>2. PICK stays : runner' = Begin(q, n, oven, stays)
    BY <1>3 DEF StartComes, Begins, n
  <2> HIDE DEF q
  <2>. QED  BY <1>1, <1>2, <2>1, <2>2, BeginEnters, PlainEnters
<1>4. CASE StepTimer
  <2>1. PICK h \in runner.step_unsubs :
           runner' = StepDone([runner EXCEPT !.step_unsubs = @ \ {h}], n, oven)
    BY <1>4 DEF StepTimer, n
  <2> DEFINE q == [runner EXCEPT !.step_unsubs = @ \ {h}]
  <2>2. q \in Runners /\ q.tasks = runner.tasks /\ q.record = runner.record
    BY <1>1 DEF Runners
  <2> HIDE DEF q
  <2>3. Enters(q, StepDone(q, n, oven'), oven')
    BY <1>1, <2>2, StepDoneEnters
  <2>. QED  BY <1>1, <1>2, <2>1, <2>2, <2>3 DEF q
<1>5. CASE PreheatTimeout \/ MaxReached
  BY <1>1, <1>5, FailPlain, PlainEnters DEF PreheatTimeout, MaxReached, n
<1>6. CASE DoorGraceOver
  <2> DEFINE q == [runner EXCEPT !.door_timer = FALSE]
  <2>1. q \in Runners /\ q.tasks = runner.tasks /\ q.record = runner.record
    BY <1>1 DEF Runners
  <2>2. runner' = Fail(q, n, TRUE, "return", oven)
    BY <1>6 DEF DoorGraceOver, n
  <2> HIDE DEF q
  <2>. QED  BY <1>1, <1>2, <2>1, <2>2, FailPlain, PlainEnters
<1>. QED  BY <1>1, <1>3, <1>4, <1>5, <1>6 DEF Timer

\* Every step of a runner that is up enters no others.
LEMMA NextEnters ==
    ASSUME TypeOK, Ordered(runner), runner.up, [Next]_vars
    PROVE  Enters(runner, runner', oven')
<1>1. CASE TimePasses \/ UNCHANGED vars
  <2>1. runner' = runner
    BY <1>1 DEF TimePasses, StartPasses, StepPasses, MaxPasses, vars
  <2>. QED  BY <2>1, TasksEnter
<1>2. CASE Crash
  <2>1. \A t \in Slots : NewRunner.tasks[t].pc = "free"
    BY DEF NewRunner, NoTask
  <2>. QED  BY <1>2, <2>1 DEF Crash, Enters, Saw
<1>3. ~Setup
  BY DEF Setup, SetupInactive, SetupRunning, SetupScheduled
<1>. QED  BY <1>1, <1>2, <1>3, ObserveEnters, ResumeEnters, SaveEnters, CommandEnters,
             TimerEnters DEF Next

\* A runner stays up until Home Assistant dies.
LEMMA StaysUp ==
    ASSUME OneCall, TypeOK, OrderInv, [Next]_vars, runner.up, ~Crash
    PROVE  runner'.up
<1>1. Ordered(runner) /\ Fresh(runner) /\ Written
  BY DEF OrderInv
<1>2. CASE TimePasses \/ UNCHANGED vars
  BY <1>2 DEF TimePasses, StartPasses, StepPasses, MaxPasses, vars
<1>3. ~Setup
  BY DEF Setup, SetupInactive, SetupRunning, SetupScheduled
<1>4. CASE Observe
  BY <1>1, <1>4, ObserveOrdered DEF Goes
<1>5. CASE \E s \in Background : Resume(s)
  BY <1>1, <1>5, ResumeOrdered DEF Goes, Starts
<1>6. CASE Save
  BY <1>1, <1>6, SaveOrdered DEF Goes
<1>7. CASE Command \/ Timer
  BY <1>1, <1>7, CommandOrdered, TimerOrdered DEF Goes
<1>. QED  BY <1>2, <1>3, <1>4, <1>5, <1>6, <1>7 DEF Next

-----------------------------------------------------------------------------
(* What is sent of a preset's finish.                                      *)

EndSent == PresetFinishedKey \in sent

\* A run whose finish people have been told of within the last two minutes: it is
\* at the first step, and that step is not near its end.
Near(r, c) ==
    /\ r.record.step_index = 1 /\ (Ran(r) => c.step[1] = "early")
    /\ ~Finishes(r) /\ Known(r)
    /\ \A s \in Background : r.tasks[s].pc # "stopPress"

NearInv ==
    /\ EndSent => runner.up
    /\ EndSent /\ runner.record.state = "running" => Near(runner, clock)
    /\ EndSent /\ Alive({"finishSave"}) => finish # <<>>

\* A step that is not near its end is not left.
LEMMA NearNotDone ==
    ASSUME AllTimed, NEW r \in Runners, Ordered(r), r.record.state = "running", Near(r, clock)
    PROVE  ~Done(r)
<1>1. r.record \in Records /\ Sound(r.record)
  BY OrderedSound DEF Runners
<1>2. r.record.preset \in Presets /\ 1 \in 1 .. Len(r.record.preset)
  BY <1>1, SoundStep DEF Near
<1>3. CurrentStep(r).kind = "timed"
  BY <1>2 DEF AllTimed, CurrentStep, StepAt, Near
<1>. QED  BY <1>3 DEF Near, Done, OverNow

LEMMA WalksNear ==
    ASSUME NEW r, NEW q, Walks(r, q), Near(r, clock), ~Done(r), q.record.state = "running",
           \A s \in Background : q.tasks[s].pc # "stopPress"
    PROVE  Near(q, clock)
<1>1. CASE /\ q.record = r.record /\ q.step_unsubs \subseteq r.step_unsubs
           /\ Ran(q) => Ran(r)
           /\ Finishes(q) => Finishes(r)
  <2>1. HandlersRight(q)
    BY <1>1 DEF Near, Known, HandlersRight, CurrentStep, StepAt
  <2>. QED  BY <1>1, <2>1 DEF Near, Known
<1>2. CASE Ran(r) /\ q.record = r.record /\ ~Finishes(q) /\ HandlersRight(q)
  BY <1>2 DEF Near, Known
<1>. QED  BY <1>1, <1>2 DEF Walks, Near

\* Between two steps nothing is near its end.
LEMMA BeginsNear ==
    ASSUME NEW q \in Runners, Ordered(q), InBoundary(q), q.record.step_index = 1, NEW c,
           \A s \in Background : q.tasks[s].pc # "stopPress"
    PROVE  Near(q, c)
<1>1. PICK s \in Background : Boundary(q, s)
  BY WhichByTask DEF InBoundary
<1>2. ~Ran(q) /\ ~Finishes(q) /\ q.step_unsubs = {}
  BY <1>1, WhereItIs
<1>. QED  BY <1>2 DEF Near, Known, HandlersRight

StaysEarly == \A k \in 1 .. MaxSteps : clock.step[k] = "early" => clock'.step[k] = "early"
SomeStarts == \E s \in Background : StepStarts(s)

\* The first step of the runner's after which the run is near.
LEMMA StartsNear ==
    ASSUME OneCall, NoBriefSteps, AllTimed, TypeOK, TypeOK', OrderInv, Ordered(runner'),
           Near(runner, clock), NEW s \in Background, StepStarts(s),
           \A t \in Background : runner'.tasks[t].pc # "stopPress"
    PROVE  Near(runner', clock')
<1>1. runner \in Runners /\ runner' \in Runners /\ Ordered(runner)
  BY DEF TypeOK, OrderInv
<1>2. /\ Boundary(runner, s) /\ Saving(runner', s)
      /\ EndsRight(runner'.record) /\ runner'.step_unsubs = {}
      /\ runner'.record.step_index = 1
  BY <1>1, StartsRight DEF Near
<1>3. /\ runner'.record \in Records /\ Sound(runner'.record)
      /\ runner'.record.state = "running"
  BY <1>1, <1>2, OrderedSound DEF Runners, Saving, InRun
<1>4. runner'.record.preset \in Presets /\ 1 \in 1 .. Len(runner'.record.preset)
  BY <1>2, <1>3, SoundStep
<1>5. runner'.record.ends = 1
  BY <1>2, <1>4 DEF AllTimed, EndsRight
<1>6. clock'.step[1] = "early"
  BY <1>1, <1>5, StartsFresh
<1>7. ~Finishes(runner')
  BY <1>2, WhereItIs
<1>. QED  BY <1>2, <1>6, <1>7 DEF Near, Known, HandlersRight

\* The run stays at its first step until that is near its end.
LEMMA RunNear ==
    ASSUME OneCall, NoBriefSteps, AllTimed, TypeOK, TypeOK', OrderInv, Ordered(runner'),
           [Next]_vars, runner.up, runner'.record.state = "running", StaysEarly \/ SomeStarts,
           runner.record.state = "running" => Near(runner, clock)
    PROVE  Near(runner', clock')
<1>1. /\ runner \in Runners /\ runner' \in Runners /\ Ordered(runner) /\ 1 \in 1 .. MaxSteps
      /\ clock \in Clocks
  BY BoundsAssumption DEF TypeOK, OrderInv
<1>2. Enters(runner, runner', oven')
  BY <1>1, NextEnters
<1>3. Known(runner) /\ NoStopRaises
  <2>1. CASE runner.record.state = "running"
    BY <2>1 DEF Near, NoStopRaises, Is
  <2>2. CASE Resting(runner)
    BY <1>1, <2>2, WhereItIsNot DEF Known, HandlersRight, NoStopRaises, Is, Resting
  <2>. QED  BY <1>1, <2>1, <2>2, WhichByHandles
<1>4. Happens
  BY <1>3, WhatHappens
<1>5. \A t \in Slots : runner'.tasks[t].pc = "stopPress" =>
         runner.record.state = "running" /\ runner'.record.step_index # runner.record.step_index
  <2>1. ASSUME NEW t \in Slots, runner.tasks[t].pc = "stopPress"
        PROVE  t \in Background /\ runner.record.state = "running"
    <3>1. t \in Background
      BY <1>1, <2>1, WhichByCall, Places DEF CallPcs
    <3>2. Boundary(runner, t)
      BY <1>1, <2>1, <3>1, WhichByTask DEF TransitionPcs
    <3>. QED  BY <3>1, <3>2 DEF Boundary, Ready, InRun
  <2>. QED  BY <1>2, <2>1 DEF Enters, Near
<1>6. ASSUME NEW r, r.record = runner.record, r.tasks = runner.tasks,
             r.step_unsubs = runner.step_unsubs, r \in Runners, Ordered(runner'),
             Goes(r, runner'), Advances(r), ~SomeStarts
      PROVE  Near(runner', clock')
  <2>1. CASE r.record.state = "running"
    <3>1. Near(r, clock) /\ Done(r) = Done(runner)
      BY <1>6, <2>1
         DEF Near, Ran, Finishes, Known, HandlersRight, CurrentStep, StepAt, Done, OverNow
    <3>2. ~Done(r) /\ Walks(r, runner')
      BY <1>1, <1>6, <2>1, <3>1, NearNotDone DEF Advances
    <3>3. runner'.record.step_index = 1
      <4>1. runner'.record = r.record
        BY <3>1, <3>2 DEF Walks, Near
      <4>. QED  BY <3>1, <4>1 DEF Near
    <3>4. \A t \in Background : runner'.tasks[t].pc # "stopPress"
      BY <1>5, <1>6, <2>1, <3>1, <3>3, Places DEF Near
    <3>5. Near(runner', clock)
      BY <3>1, <3>2, <3>4, WalksNear
    <3>. QED  BY <1>1, <1>6, <3>5 DEF Near, StaysEarly
  <2>2. CASE r.record.state # "running"
    <3>1. runner'.record.step_index = 1 /\ \A t \in Background : runner'.tasks[t].pc # "stopPress"
      BY <1>1, <1>5, <1>6, <2>2, GoesRecord, Places
    <3>2. InBoundary(runner')
      <4>1. ~Finishes(runner) /\ ~Ran(runner)
        <5>1. Resting(runner)
          BY <1>1, <1>6, <2>2, WhichByHandles
        <5>. QED  BY <5>1, WhereItIsNot
      <4>2. ~Finishes(r) /\ ~Ran(r)
        BY <1>6, <4>1 DEF Finishes, Ran
      <4>. QED  BY <1>6, <2>2, <4>2 DEF Advances, Walks, Done
    <3>. QED  BY <1>1, <3>1, <3>2, BeginsNear
  <2>. QED  BY <2>1, <2>2
<1>7. CASE SomeStarts
  <2>1. PICK s \in Background : StepStarts(s)
    BY <1>7 DEF SomeStarts
  <2>2. Boundary(runner, s) /\ runner'.record.step_index = runner.record.step_index
    BY <1>1, <2>1, StartsRight
  <2>3. Near(runner, clock) /\ \A t \in Background : runner'.tasks[t].pc # "stopPress"
    BY <1>5, <2>2, Places DEF Boundary, Ready, InRun
  <2>. QED  BY <1>1, <2>1, <2>3, StartsNear
<1>8. CASE ~SomeStarts
  <2>1. CASE UNCHANGED runner
    BY <1>1, <1>8, <2>1 DEF Near, StaysEarly, Known
  <2>2. CASE Goes(runner, runner') /\ Advances(runner)
    BY <1>1, <1>6, <1>8, <2>2
  <2>3. CASE runner.saves # <<>> /\ Goes(Landed, runner') /\ Advances(Landed)
    <3>1. /\ Landed \in Runners /\ Landed.record = runner.record
          /\ Landed.tasks = runner.tasks /\ Landed.step_unsubs = runner.step_unsubs
      BY <1>1, <2>3, LandedFacts
    <3>. QED  BY <1>1, <1>6, <1>8, <2>3, <3>1
  <2>4. runner' # NewRunner
    BY DEF NewRunner, NoRecord
  <2>. QED  BY <1>4, <1>8, <2>1, <2>2, <2>3, <2>4 DEF Happens, SomeStarts
<1>. QED  BY <1>7, <1>8

\* All but a step that gets near its end, and a crash.
NewsBeside ==
    \/ FiresFinished /\ OnFinishedEvent
    \/ FiresFailed /\ OnFailedEvent
    \/ OvenNews \/ RunBegins \/ Unheard
    \/ FinishesFirst
    \/ \E e \in Alarms : AlarmArises(e) \/ AlarmClears(e)
    \/ \E e \in Sensors : Reports(e)
    \/ \E p \in People : Moves(p)
    \/ \E key \in Keys : TwoMinutesPass(key)
    \/ UNCHANGED notifierVars

LEMMA BesideTime ==
    ASSUME TypeOK, NewsBeside
    PROVE  crashes' = crashes /\ (StaysEarly \/ SomeStarts)
<1>1. clock \in Clocks
  BY DEF TypeOK
<1>2. [clock EXCEPT !.max = FALSE].step = clock.step
  BY <1>1 DEF Clocks
<1>3. \A r, s : Begins(r, s) => clock'.step = clock.step
  BY <1>2 DEF Begins
<1>4. CASE \/ FinishesFirst
           \/ \E e \in Alarms : AlarmArises(e) \/ AlarmClears(e)
           \/ \E e \in Sensors : Reports(e)
           \/ \E p \in People : Moves(p)
           \/ \E key \in Keys : TwoMinutesPass(key)
           \/ UNCHANGED notifierVars
  <2>1. UNCHANGED vars
    BY <1>4, NotifierAlone DEF notifierVars
  <2>. QED  BY <2>1 DEF vars, StaysEarly
<1>5. CASE FiresFinished \/ FiresFailed
  BY <1>5 DEF FiresFinished, FiresFailed, LastSaved, FailSaved, StaysEarly
<1>6. CASE OvenNews
  BY <1>6 DEF OvenNews, OnOperation, StaysEarly
<1>7. CASE RunBegins
  <2>1. CASE \E s \in Slots : RunNowSaved(s)
    BY <1>3, <2>1 DEF RunNowSaved, StaysEarly
  <2>2. CASE StartComes
    BY <1>3, <2>2 DEF StartComes, StaysEarly
  <2>3. CASE SetupScheduled
    <3>1. clock.start \in {"future", "due", "missed"}
      BY <1>1 DEF Clocks
    <3>. QED  BY <1>3, <2>3, <3>1 DEF SetupScheduled, StaysEarly
  <2>. QED  BY <1>7, <2>1, <2>2, <2>3 DEF RunBegins
<1>8. CASE Unheard
  <2>1. CASE OnLinkDrop \/ OnDoor \/ OnRemoteStart \/ OnTemperature \/ OtherSave
    BY <2>1 DEF OnLinkDrop, OnDoor, OnRemoteStart, OnTemperature, OtherSave, StepSaved,
                LastSaved, OrphanSaved, StaysEarly
  <2>2. CASE \E s \in Background : Resume(s)
    <3>1. PICK s \in Background : Resume(s)
      BY <2>2
    <3>2. crashes' = crashes /\ (clock' = clock \/ StepStarts(s))
      BY <3>1 DEF Resume, StopPress, StopWait, RemoteWait, Dial, StartPress, StartTimesOut,
                  StepStarts, FailPress, FinishPress, PowerOff, RecoverWait
    <3>. QED  BY <3>2 DEF StaysEarly, SomeStarts
  <2>3. CASE Command
    BY <1>1, <2>3 DEF Command, CallRun, CallAbort, AbortPress, Clocks, StaysEarly
  <2>4. CASE StepTimer \/ PreheatTimeout \/ MaxReached \/ DoorGraceOver
    BY <2>4 DEF StepTimer, PreheatTimeout, MaxReached, DoorGraceOver, StaysEarly
  <2>5. CASE StartPasses \/ MaxPasses
    BY <1>1, <2>5 DEF StartPasses, MaxPasses, Clocks, StaysEarly
  <2>6. CASE SetupInactive \/ SetupRunning
    BY <2>6 DEF SetupInactive, SetupRunning, StaysEarly
  <2>. QED  BY <1>8, <2>1, <2>2, <2>3, <2>4, <2>5, <2>6 DEF Unheard
<1>. QED  BY <1>4, <1>5, <1>6, <1>7, <1>8 DEF NewsBeside

\* A task that saves a finished run's record is there only once the run is over.
LEMMA FinishSaves ==
    ASSUME NEW r \in Runners, Ordered(r), NEW s \in Slots, r.tasks[s].pc = "finishSave"
    PROVE  s \in Background /\ Resting(r) /\ r.up /\ r.record.state # "running"
<1>1. s \in Background
  BY WhichByCall, Places DEF CallPcs
<1>2. Resting(r)
  BY <1>1, WhichByTask
<1>3. NewRunner.tasks[s].pc = "free"
  BY DEF NewRunner, NoTask
<1>. QED  BY <1>1, <1>2, <1>3 DEF Resting

\* What is sent of a finish is sent while no run is running, to people.
LEMMA EndSends ==
    ASSUME TypeOK, Ordered(runner), NotifierInv, [NotifierNext]_notifierVars, EndSent', ~EndSent
    PROVE  /\ runner.up /\ runner'.up /\ finish' # <<>>
           /\ runner.record.state # "running" /\ runner'.record.state # "running"
<1>1. runner \in Runners /\ finish \in Seq({"programme", "preset"})
  BY DEF TypeOK, NotifierInv, NewsType
<1>2. \A what \in {"programme", "preset"} : Append(finish, what) # <<>>
  BY <1>1, AppendProperties
<1>3. CASE FiresFinished /\ OnFinishedEvent
  <2>1. PICK s \in Slots : Is(s, "finishSave") /\ LastSaved(s)
    BY <1>3 DEF FiresFinished
  <2>2. runner.up /\ runner.record.state # "running"
    BY <1>1, <2>1, FinishSaves DEF Is
  <2>3. runner'.up = runner.up /\ runner'.record = runner.record
    BY <1>1, <2>1 DEF LastSaved, Lands, End, Landed, Runners
  <2>4. finish' # <<>>
    BY <1>2, <1>3 DEF OnFinishedEvent, Remember, EndSent
  <2>. QED  BY <2>2, <2>3, <2>4
<1>4. CASE FiresFailed /\ OnFailedEvent
  BY <1>4 DEF OnFailedEvent, Remember, EndSent, PresetFailedKey, PresetFinishedKey
<1>5. CASE \E e \in Sensors : Reports(e)
  <2>1. PICK e \in Sensors : Reports(e)
    BY <1>5
  <2>2. /\ IsNews(reported[e], Actual(e)) /\ ~StepNews(e) /\ sent' = Remember(KeyOf(e))
        /\ finish' = IF Sends(KeyOf(e)) /\ e = ProgramFinished
                     THEN Append(finish, "programme") ELSE finish
        /\ runner.up /\ UNCHANGED vars
    BY <2>1 DEF Reports, OnStateChanged, EndSent
  <2>3. Sends(KeyOf(e)) /\ KeyOf(e) = PresetFinishedKey
    BY <2>2 DEF Remember, EndSent
  <2>4. e = ProgramFinished
    <3>1. KindOf(e) = "finished"
      BY <2>3 DEF KeyOf, PresetFinishedKey
    <3>2. e \notin Timers \cup Problems
      BY <3>1 DEF KindOf
    <3>. QED  BY <3>2 DEF Sensors, Alarms
  <2>. QED  BY <1>2, <2>2, <2>3, <2>4 DEF StepNews, vars
<1>6. CASE \/ OvenNews \/ RunBegins \/ Unheard \/ FinishesFirst
           \/ \E e \in Alarms : AlarmArises(e) \/ AlarmClears(e)
           \/ \E p \in People : Moves(p)
           \/ UNCHANGED notifierVars
  BY <1>6 DEF OvenNews, RunBegins, Unheard, FinishesFirst, AlarmArises, AlarmClears, Moves,
              notifierVars, news, EndSent
<1>7. CASE StepNears \/ Forgets \/ \E key \in Keys : TwoMinutesPass(key)
  BY <1>7 DEF StepNears, Forgets, TwoMinutesPass, EndSent
<1>. QED  BY <1>3, <1>4, <1>5, <1>6, <1>7 DEF NotifierNext

\* A run that ends by the clock while people have just been told of a finish is not
\* at its first step any more.
LEMMA NearNotFinished ==
    ASSUME OneCall, AllTimed, TypeOK, TypeOK', OrderInv, Ordered(runner'), [Next]_vars,
           runner.up, runner.record.state = "running", Near(runner, clock)
    PROVE  runner'.record.state # "finished"
<1>1. runner \in Runners /\ runner' \in Runners /\ Ordered(runner)
  BY DEF TypeOK, OrderInv
<1>2. NoStopRaises /\ Known(runner)
  BY DEF Near, NoStopRaises, Is
<1>3. Happens /\ ~Done(runner)
  BY <1>1, <1>2, WhatHappens, NearNotDone
<1>4. ASSUME NEW r, r.record = runner.record, r.tasks = runner.tasks, Advances(r)
      PROVE  runner'.record.state # "finished"
  <2>1. Finishes(r) = Finishes(runner) /\ Done(r) = Done(runner) /\ r.record.state = "running"
    BY <1>4 DEF Finishes, Done, Ran, OverNow, CurrentStep, StepAt
  <2>2. InBoundary(runner') => runner'.record.state = "running"
    BY <1>1, BetweenSteps
  <2>. QED  BY <1>3, <1>4, <2>1, <2>2 DEF Advances, Walks, Near
<1>5. CASE SomeStarts
  BY <1>1, <1>5, StartsRight DEF SomeStarts, Saving, InRun
<1>6. CASE UNCHANGED runner \/ runner' = NewRunner
  BY <1>6 DEF NewRunner, NoRecord
<1>7. CASE Advances(runner)
  BY <1>4, <1>7
<1>8. CASE runner.saves # <<>> /\ Advances(Landed)
  <2>1. Landed.record = runner.record /\ Landed.tasks = runner.tasks
    BY <1>1, <1>8, LandedFacts
  <2>. QED  BY <1>4, <1>8, <2>1
<1>. QED  BY <1>3, <1>5, <1>6, <1>7, <1>8 DEF Happens, SomeStarts

LEMMA NearKept ==
    ASSUME OneCall, NoBriefSteps, AllTimed, TypeOK, TypeOK', OrderInv, OrderInv',
           NotifierInv, NearInv, [NotifierNext]_notifierVars
    PROVE  NearInv'
<1>1. /\ runner \in Runners /\ runner' \in Runners /\ Ordered(runner) /\ Ordered(runner')
      /\ [Next]_vars /\ crashes \in Nat
  BY NotifierStep DEF TypeOK, OrderInv
<1>2. CASE ~EndSent'
  BY <1>2 DEF NearInv
<1>3. CASE EndSent' /\ ~EndSent
  BY <1>1, <1>3, EndSends DEF NearInv
<1>4. CASE EndSent' /\ EndSent
  <2>1. runner.up /\ (NewsBeside \/ StepNears)
    <3>1. ~Forgets
      BY <1>4 DEF Forgets, EndSent
    <3>. QED  BY <1>4, <3>1 DEF NearInv, NotifierNext, NewsBeside
  <2>2. crashes' = crashes /\ (StaysEarly \/ SomeStarts)
    <3>1. CASE StepNears
      BY <1>4, <3>1 DEF StepNears, StepPasses, EndSent, StaysEarly
    <3>. QED  BY <2>1, <3>1, BesideTime
  <2>3. runner'.up
    <3>1. ~Crash
      BY <1>1, <2>2 DEF Crash
    <3>. QED  BY <1>1, <2>1, <3>1, StaysUp
  <2>4. runner'.record.state = "running" => Near(runner', clock')
    BY <1>1, <1>4, <2>1, <2>2, RunNear DEF NearInv
  <2>5. ASSUME Alive({"finishSave"})' PROVE finish' # <<>>
    <3>1. PICK t \in Slots : runner'.tasks[t].pc = "finishSave"
      BY <2>5 DEF Alive
    <3>2. runner'.record.state # "running"
      BY <1>1, <3>1, FinishSaves
    <3>3. runner.tasks[t].pc = "finishSave"
      <4>1. Near(runner, clock) => ~(runner.record.state = "running" /\ runner'.record.state = "finished")
        BY <1>1, <2>1, NearNotFinished
      <4>. QED  BY <1>1, <1>4, <2>1, <3>1, <4>1, NextEnters DEF Enters, NearInv
    <3>4. Alive({"finishSave"}) /\ finish # <<>>
      BY <1>4, <3>3 DEF Alive, NearInv
    <3>5. finish' = finish \/ \E what \in {"programme", "preset"} : finish' = Append(finish, what)
      <4>1. CASE StepNears \/ FinishesFirst \/ OnFailedEvent \/ Unheard \/ UNCHANGED notifierVars
        BY <4>1 DEF StepNears, FinishesFirst, OnFailedEvent, Unheard, notifierVars, news
      <4>2. CASE OnFinishedEvent
        BY <4>2 DEF OnFinishedEvent
      <4>3. CASE OvenNews
        BY <3>4, <4>3 DEF OvenNews
      <4>4. CASE RunBegins
        BY <3>2, <4>4 DEF RunBegins
      <4>5. CASE \/ \E e \in Alarms : AlarmArises(e) \/ AlarmClears(e)
                 \/ \E p \in People : Moves(p)
                 \/ \E key \in Keys : TwoMinutesPass(key)
        BY <4>5 DEF AlarmArises, AlarmClears, Moves, TwoMinutesPass
      <4>6. CASE \E e \in Sensors : Reports(e)
        BY <4>6 DEF Reports, OnStateChanged
      <4>. QED  BY <2>1, <4>1, <4>2, <4>3, <4>4, <4>5, <4>6 DEF NewsBeside
    <3>6. finish \in Seq({"programme", "preset"})
      BY DEF NotifierInv, NewsType
    <3>. QED  BY <3>4, <3>5, <3>6, AppendProperties
  <2>. QED  BY <2>3, <2>4, <2>5 DEF NearInv
<1>. QED  BY <1>2, <1>3, <1>4

\* Nothing but a write that lands takes one out of the queue.
LEMMA QueueStays ==
    ASSUME OneCall, TypeOK, OrderInv, runner.up,
           \/ Observe \/ (\E s \in Background : Resume(s))
           \/ Command \/ Timer \/ TimePasses \/ UNCHANGED vars
    PROVE  \/ runner'.saves = runner.saves \/ Writes(runner') = Writes(runner)
           \/ \E record : Writes(runner') = Append(Writes(runner), record)
<1>1. Ordered(runner) /\ Fresh(runner) /\ Written
  BY DEF OrderInv
<1>2. CASE TimePasses \/ UNCHANGED vars
  BY <1>2 DEF TimePasses, StartPasses, StepPasses, MaxPasses, vars
<1>3. CASE Observe
  BY <1>1, <1>3, ObserveOrdered DEF Goes
<1>4. CASE \E s \in Background : Resume(s)
  BY <1>1, <1>4, ResumeOrdered DEF Goes, Starts
<1>5. CASE Command \/ Timer
  BY <1>1, <1>5, CommandOrdered, TimerOrdered DEF Goes
<1>. QED  BY <1>2, <1>3, <1>4, <1>5

\* A run that has been saved as finished fires its event, and nothing else happens.
LEMMA FiresAlone ==
    ASSUME OneCall, TypeOK, TypeOK', OrderInv, FiresFinished, [NotifierNext]_notifierVars
    PROVE  OnFinishedEvent
<1>1. /\ runner \in Runners /\ runner' \in Runners /\ Ordered(runner)
      /\ Writes(runner) \in Seq(Records) /\ Writes(runner') \in Seq(Records)
      /\ Len(Writes(runner)) = Len(runner.saves) /\ Len(Writes(runner')) = Len(runner'.saves)
  BY WritesType DEF TypeOK, OrderInv
<1>2. PICK s \in Slots : Is(s, "finishSave") /\ LastSaved(s)
  BY DEF FiresFinished
<1>3. /\ runner.saves # <<>> /\ Head(runner.saves).by = s
      /\ runner' = End(Landed, s) /\ runner.up
  BY <1>1, <1>2, FinishSaves DEF LastSaved, Lands, Is
<1>4. Landed.saves = Tail(runner.saves) /\ runner'.saves = Landed.saves /\ runner'.up
  BY <1>1, <1>3, LandedFacts DEF End, Landed, Runners
<1>5. Len(runner'.saves) = Len(runner.saves) - 1 /\ Len(runner.saves) \in Nat
  BY <1>1, <1>3, <1>4, LandedFacts
<1>6. CASE \/ Observe \/ (\E t \in Background : Resume(t))
           \/ Command \/ Timer \/ TimePasses \/ UNCHANGED vars
  <2>1. \/ runner'.saves = runner.saves \/ Writes(runner') = Writes(runner)
        \/ \E record : Writes(runner') = Append(Writes(runner), record)
    BY <1>3, <1>6, QueueStays
  <2>2. ASSUME NEW record, Writes(runner') = Append(Writes(runner), record)
        PROVE  Len(Writes(runner')) = Len(Writes(runner)) + 1
    BY <1>1, <2>2
  <2>. QED  BY <1>1, <1>5, <2>1, <2>2
<1>7. ~Crash /\ ~Setup
  BY <1>3, <1>4 DEF Crash, NewRunner, Setup, SetupInactive, SetupRunning, SetupScheduled
<1>8. ~OtherSave /\ ~FiresFailed /\ ~\E t \in Slots : RunNowSaved(t)
  BY <1>2, <1>3, Places DEF OtherSave, FiresFailed, StepSaved, LastSaved, FailSaved, RunNowSaved,
                            OrphanSaved, Lands, Is
<1>9. \/ UNCHANGED notifierVars \/ OvenNews \/ StepNears \/ Unheard \/ RunBegins
      \/ FinishesFirst
      \/ \E e \in Alarms : AlarmArises(e) \/ AlarmClears(e)
      \/ \E e \in Sensors : Reports(e)
      \/ \E p \in People : Moves(p)
      \/ \E key \in Keys : TwoMinutesPass(key)
      => \/ Observe \/ (\E t \in Background : Resume(t))
         \/ Command \/ Timer \/ TimePasses \/ UNCHANGED vars
  BY <1>7, <1>8, NotifierAlone
     DEF notifierVars, OvenNews, Observe, StepNears, TimePasses, Unheard, RunBegins, Timer, Setup
<1>10. ~Forgets
  BY <1>7 DEF Forgets
<1>. QED  BY <1>6, <1>8, <1>9, <1>10 DEF NotifierNext

\* Whenever a preset finishes and somebody chosen is home, the end of it has been sent:
\* its own message goes out then (_on_preset_event), unless the same news is less than
\* two minutes old (_send), and that was sent after this run began, since the run has
\* left a step by then and a step lasts longer.
THEOREM FinishAlwaysTold ==
    ASSUME OneCall, NoBriefSteps, AllTimed
    PROVE  NotifierSpec => FinishTold
<1> DEFINE Out == FiresFinished /\ home # {} /\ "finished" \in NotifyOn => finish' # <<>>
<1>1. NotifierInit => NearInv
  BY DEF NotifierInit, NearInv, EndSent
<1>2. /\ TypeOK /\ TypeOK' /\ OrderInv /\ OrderInv' /\ NotifierInv /\ NearInv
      /\ [NotifierNext]_notifierVars
      => NearInv'
  BY NearKept
<1>3. ASSUME TypeOK, TypeOK', OrderInv, NotifierInv, NearInv, [NotifierNext]_notifierVars, ~Out
      PROVE  UNCHANGED notifierVars
  <2>1. CASE ~(FiresFinished /\ [NotifierNext]_notifierVars)
    BY <1>3, <2>1
  <2>2. CASE FiresFinished /\ [NotifierNext]_notifierVars
    <3>1. OnFinishedEvent /\ home # {} /\ "finished" \in NotifyOn
      BY <1>3, <2>2, FiresAlone
    <3>2. PICK s \in Slots : Is(s, "finishSave")
      BY <2>2 DEF FiresFinished
    <3>3. CASE EndSent
      <4>1. finish # <<>>
        BY <1>3, <3>2, <3>3 DEF NearInv, Alive, Is
      <4>. QED  BY <1>3, <3>1, <3>3, <4>1 DEF OnFinishedEvent, Sends, EndSent
    <3>4. CASE ~EndSent
      <4>1. finish' = Append(finish, "preset")
        BY <3>1, <3>4 DEF OnFinishedEvent, Sends, EndSent, PresetFinishedKey
      <4>2. finish' # <<>>
        BY <1>3, <4>1, AppendProperties DEF NotifierInv, NewsType
      <4>. QED  BY <1>3, <4>2
    <3>. QED  BY <3>3, <3>4
  <2>. QED  BY <2>1, <2>2
<1>4. [][Out]_notifierVars => FinishTold
  BY PTL DEF FinishTold
<1>. QED  BY <1>1, <1>2, <1>3, <1>4, NotifierRunsTheRunner, NotifierAlways, TypeCorrect, OrderKept,
             PTL DEF NotifierSpec

-----------------------------------------------------------------------------
(* Which programme can run once a run ends.                                *)

StartPending(o) == \E i \in DOMAIN o.commands : o.commands[i] = "start"
OneStart(o) ==
    \A i, j \in DOMAIN o.commands : o.commands[i] = "start" /\ o.commands[j] = "start" => i = j

\* What moves the oven but its dials and its start.
MovesOven ==
    \/ oven' = oven \/ oven' = Press(oven, "abort") \/ oven' = Press(oven, "off")
    \/ OperationEvent \/ LinkDrops \/ DoorMoves \/ RemoteChanges \/ TemperatureChanges

LEMMA NextOven ==
    ASSUME [Next]_vars
    PROVE  \/ MovesOven
           \/ \E s \in Background : Turned(s) \/ (StartPress(s) /\ oven' = Press(oven, "start"))
<1>1. CASE Observe
  BY <1>1 DEF Observe, OnOperation, OnLinkDrop, OnDoor, OnRemoteStart, OnTemperature, MovesOven
<1>2. CASE \E s \in Background : Resume(s)
  <2>1. PICK s \in Background : Resume(s)
    BY <1>2
  <2>2. Is(s, "start") => StartPress(s)
    BY <2>1 DEF Resume, Is, StopPress, StopWait, RemoteWait, Dial, Dials, StartTimesOut,
                StepStarts, FailPress, FinishPress, PowerOff, RecoverWait
  <2>. QED  BY <2>1, <2>2, ResumeOven DEF MovesOven
<1>3. CASE Save \/ Timer \/ TimePasses \/ Crash \/ Setup \/ UNCHANGED vars
  <2>1. UNCHANGED oven
    BY <1>3 DEF Save, StepSaved, FailSaved, RunNowSaved, LastSaved, OrphanSaved,
                Timer, StartComes, StepTimer, PreheatTimeout, MaxReached, DoorGraceOver,
                TimePasses, StartPasses, StepPasses, MaxPasses, Crash,
                Setup, SetupInactive, SetupRunning, SetupScheduled, vars
  <2>. QED  BY <2>1 DEF MovesOven
<1>4. CASE Command
  BY <1>4 DEF Command, CallRun, CallAbort, AbortPress, SafeAbort, Pressed, Raised, MovesOven
<1>. QED  BY <1>1, <1>2, <1>3, <1>4 DEF Next

\* With nobody at the oven, a programme starts by a press that was under way.
LEMMA OvenPends ==
    ASSUME oven \in Oven, "user" \notin Env, oven.program # Foreign, OneStart(oven),
           StartPending(oven) => oven.program = 0, MovesOven
    PROVE  /\ oven'.program # Foreign /\ OneStart(oven')
           /\ StartPending(oven') => StartPending(oven) /\ oven'.program = 0
           /\ oven'.program # 0 => oven'.program = oven.program \/ StartPending(oven)
<1>1. /\ oven.commands \in Seq(Buttons) /\ oven.selected \in Nat /\ Foreign \notin Nat
      /\ DOMAIN oven.commands = 1 .. Len(oven.commands) /\ Len(oven.commands) \in Nat
  <2>1. oven.commands \in Seq(Buttons) /\ oven.selected \in Nat /\ Foreign \notin Nat
    BY BoundsAssumption DEF Oven, Foreign
  <2>. QED  BY <2>1, LenProperties
<1>2. ASSUME NEW button \in {"abort", "off"}, oven' = Press(oven, button)
      PROVE  /\ oven'.program # Foreign /\ OneStart(oven')
             /\ StartPending(oven') => StartPending(oven) /\ oven'.program = 0
             /\ oven'.program = oven.program
  <2>1. oven'.program = oven.program /\ oven'.commands = Append(oven.commands, button)
    BY <1>2 DEF Press, Oven
  <2>2. button \in Buttons
    BY DEF Buttons
  <2>3. \A j \in DOMAIN oven'.commands : \/ oven'.commands[j] = button
                                         \/ /\ j \in DOMAIN oven.commands
                                            /\ oven'.commands[j] = oven.commands[j]
    BY <1>1, <2>1, <2>2, AppendProperties
  <2>. QED  BY <2>1, <2>3 DEF OneStart, StartPending
<1>3. CASE ActOnCommand
  <2>1. /\ oven'.commands = Tail(oven.commands) /\ oven.commands # <<>>
        /\ IF Head(oven.commands) = "start"
           THEN oven'.program = (IF oven.program = 0 THEN oven.selected ELSE oven.program)
           ELSE oven'.program = 0
    BY <1>3 DEF ActOnCommand, Oven
  <2>2. 1 \in DOMAIN oven.commands /\ Head(oven.commands) = oven.commands[1]
    BY <1>1, <2>1, EmptySeq, HeadTailProperties
  <2>3. \A j \in DOMAIN oven'.commands : j \in Nat \ {0} /\ j + 1 \in DOMAIN oven.commands
                                          /\ oven'.commands[j] = oven.commands[j + 1]
    BY <1>1, <2>1, HeadTailProperties, LenProperties
  <2>4. OneStart(oven')
    <3>1. ASSUME NEW i \in DOMAIN oven'.commands, NEW j \in DOMAIN oven'.commands,
                 oven'.commands[i] = "start", oven'.commands[j] = "start"
          PROVE  i = j
      <4>1. i + 1 = j + 1
        BY <2>3, <3>1 DEF OneStart
      <4>. QED  BY <2>3, <4>1
    <3>. QED  BY <3>1 DEF OneStart
  <2>5. StartPending(oven') => StartPending(oven) /\ Head(oven.commands) # "start"
    <3>1. ASSUME NEW j \in DOMAIN oven'.commands, oven'.commands[j] = "start"
          PROVE  StartPending(oven) /\ Head(oven.commands) # "start"
      <4>1. j + 1 # 1
        BY <2>3
      <4>. QED  BY <2>2, <2>3, <3>1, <4>1 DEF StartPending, OneStart
    <3>. QED  BY <3>1 DEF StartPending
  <2>6. Head(oven.commands) = "start" => StartPending(oven)
    BY <2>2 DEF StartPending
  <2>. QED  BY <1>1, <2>1, <2>4, <2>5, <2>6 DEF Foreign
<1>4. ~UserStarts
  BY DEF UserStarts
<1>5. CASE ProgrammeEnds \/ PauseToggles \/ IdleReport \/ LinkReturns \/ LinkDrops
              \/ DoorMoves \/ RemoteChanges \/ TemperatureChanges \/ oven' = oven
  <2>1. oven'.commands = oven.commands /\ oven'.program \in {0, oven.program}
    BY ZenonT(60), <1>5 DEF ProgrammeEnds, PauseToggles, IdleReport, LinkReturns, LinkDrops, DoorMoves,
                RemoteChanges, TemperatureChanges, Oven
  <2>2. 0 # Foreign
    BY <1>1
  <2>. QED  BY <2>1, <2>2 DEF OneStart, StartPending
<1>. QED  BY <1>2, <1>3, <1>4, <1>5 DEF OperationEvent, MovesOven

\* A run whose step the oven was seen running, or that is over.
Ended(r) == r.record.state = "finished" \/ Finishes(r)

\* A start the oven has yet to act on is for a step nobody has seen running: the
\* programme it starts is never one of a run that has ended.
PendInv ==
    /\ oven.program # Foreign /\ OneStart(oven)
    /\ StartPending(oven) =>
          /\ oven.program = 0 /\ ~Ran(runner) /\ ~Ended(runner)
          /\ \A t \in Slots : ~Saw(runner, t)
    /\ Starting(runner) # {} => oven.program = 0 /\ ~StartPending(oven)

\* A run comes to have seen its step, or to end, only from a step it saw running.
LEMMA PassedFrom ==
    ASSUME runner \in Runners, runner' \in Runners, Ordered(runner'), Happens, runner.up,
           Ran(runner') \/ Ended(runner'), ~Ran(runner), ~Ended(runner)
    PROVE  SomeStarts
<1>1. ASSUME NEW r, r.record = runner.record, r.tasks = runner.tasks, Advances(r) PROVE FALSE
  <2>1. ~Ran(r) /\ ~Ended(r)
    BY <1>1 DEF Ran, Ended, Finishes
  <2>2. ~InBoundary(runner')
    BY BetweenSteps DEF Ended
  <2>3. Finishes(runner') => runner'.record.state = "running" /\ ~Ran(runner')
    <3>1. Finishes(runner') => \E t \in Background : Finishing(runner', t)
      BY WhichByTask DEF Finishes
    <3>. QED  BY <3>1, WhereItIs DEF Finishing, Ready, InRun
  <2>4. Walks(r, runner')
    BY <1>1, <2>2 DEF Advances
  <2>. QED  BY <2>1, <2>2, <2>3, <2>4 DEF Walks, Done, Ended, Ran
<1>2. ~UNCHANGED runner
  OBVIOUS
<1>3. runner' # NewRunner
  <2>1. \A t \in Slots : NewRunner.tasks[t].pc = "free"
    BY DEF NewRunner, NoTask
  <2>. QED  BY <2>1, Places DEF Ran, Ended, Finishes, NewRunner, NoRecord
<1>4. runner.saves # <<>> => Landed.record = runner.record /\ Landed.tasks = runner.tasks
  BY LandedFacts
<1>. QED  BY <1>1, <1>2, <1>3, <1>4 DEF Happens, SomeStarts

\* A dial the oven takes is turned while nothing runs and nothing is pressed.
LEMMA TurnPends ==
    ASSUME oven \in Oven, NEW s \in Background, Turned(s)
    PROVE  oven'.program = 0 /\ ~StartPending(oven') /\ OneStart(oven') /\ 0 # Foreign
<1>1. \A dial, k : /\ Turn(oven, dial, k).program = oven.program
                   /\ Turn(oven, dial, k).commands = oven.commands
  BY DEF Turn, Oven
<1>2. oven.program = 0 /\ oven.commands = <<>> /\ oven'.program = 0 /\ oven'.commands = <<>>
  BY <1>1 DEF Turned, TakesDials
<1>. QED  BY <1>2 DEF StartPending, OneStart, Foreign

\* A start that is pressed is the only one, and its task waits for what it starts.
LEMMA PressPends ==
    ASSUME NoFaults, Linked, TypeOK, TypeOK', Ordered(runner), Ordered(runner'), runner.up,
           [Next]_vars, PendInv,
           NEW s \in Background, StartPress(s), oven' = Press(oven, "start")
    PROVE  PendInv'
<1>1. runner \in Runners /\ runner' \in Runners /\ oven \in Oven /\ s \in Slots
  BY Places DEF TypeOK
<1>2. /\ oven.program = 0 /\ ~StartPending(oven) /\ runner.tasks[s].pc = "start"
      /\ OneStart(oven) /\ 0 # Foreign
  BY <1>1 DEF PendInv, Starting, StartPress, Is, Foreign
<1>3. runner' = Wait(runner, s, "runWait", oven')
  BY DEF StartPress, Raised, MayRaise, Reachable, NoFaults, Linked
<1>4. /\ runner'.tasks[s].pc = "runWait" /\ \A t \in Slots \ {s} : runner'.tasks[t] = runner.tasks[t]
  <2>1. Moved(runner, Wait(runner, s, "runWait", oven'), s, {"runWait"})
    BY <1>1, WaitMoved
  <2>. QED  BY <1>3, <2>1 DEF Moved
<1>5. Starting(runner') = {}
  <2>1. Starting(runner) \subseteq {s}
    BY <1>1, <1>2, DialAlone DEF TransitionPcs
  <2>. QED  BY <1>4, <2>1 DEF Starting
<1>6. oven'.program = 0 /\ OneStart(oven')
  <2>1. CASE RemoteStart(oven) = "no"
    BY <1>2, <2>1 DEF Press
  <2>2. CASE RemoteStart(oven) # "no"
    <3>1. oven'.program = 0 /\ oven'.commands = Append(oven.commands, "start")
      BY <1>1, <1>2, <2>2 DEF Press, Oven
    <3>2. oven.commands \in Seq(Buttons) /\ "start" \in Buttons
      BY <1>1 DEF Oven, Buttons
    <3>3. /\ DOMAIN oven'.commands = 1 .. (Len(oven.commands) + 1)
          /\ DOMAIN oven.commands = 1 .. Len(oven.commands) /\ Len(oven.commands) \in Nat
          /\ \A j \in DOMAIN oven'.commands : \/ j = Len(oven.commands) + 1
                                              \/ /\ j \in DOMAIN oven.commands
                                                 /\ oven'.commands[j] = oven.commands[j]
      BY <3>1, <3>2, AppendProperties, LenProperties
    <3>. QED  BY <1>2, <3>1, <3>3 DEF StartPending, OneStart
  <2>. QED  BY <2>1, <2>2
<1>7. ~Ran(runner') /\ ~Ended(runner')
  <2>1. InBoundary(runner')
    BY <1>4 DEF InBoundary, TransitionPcs
  <2>. QED  BY <1>1, <2>1, BetweenSteps DEF Ended
<1>8. ASSUME NEW t \in Slots PROVE ~Saw(runner', t)
  <2>1. Operation(oven') # "running"
    BY <1>6, <1>1 DEF Operation, TypeOK, Oven, Links
  <2>2. ~Saw(runner, t)
    BY <1>1, <1>2, OrderedTransition DEF OneTransition, Saw, TransitionPcs
  <2>. QED  BY <1>1, <2>1, <2>2, NextEnters DEF Enters
<1>. QED  BY <1>2, <1>5, <1>6, <1>7, <1>8 DEF PendInv

LEMMA PendKept ==
    ASSUME OneCall, NoFaults, "user" \notin Env, Linked, TypeOK, TypeOK', OrderInv,
           Ordered(runner'), runner.up, Happens, [Next]_vars, PendInv
    PROVE  PendInv'
<1>1. runner \in Runners /\ runner' \in Runners /\ oven \in Oven /\ Ordered(runner)
  BY DEF TypeOK, OrderInv
<1>2. CASE \E s \in Background : Turned(s)
  BY <1>1, <1>2, TurnPends DEF PendInv
<1>3. CASE \E s \in Background : StartPress(s) /\ oven' = Press(oven, "start")
  BY <1>1, <1>3, PressPends
<1>4. CASE MovesOven /\ ~\E s \in Background : Turned(s)
  <2>1. /\ oven'.program # Foreign /\ OneStart(oven')
        /\ StartPending(oven') => StartPending(oven) /\ oven'.program = 0
        /\ oven'.program # 0 => oven'.program = oven.program \/ StartPending(oven)
    BY <1>1, <1>4, OvenPends DEF PendInv
  <2>2. Starting(runner') \subseteq Starting(runner)
    BY <1>1, <1>4, NextTame
  <2>3. StartPending(oven') => ~Ran(runner') /\ ~Ended(runner')
    <3>1. ASSUME StartPending(oven), SomeStarts PROVE FALSE
      <4>1. PICK s \in Background : StepStarts(s)
        BY <3>1 DEF SomeStarts
      <4>2. Saw(runner, s)
        BY <4>1 DEF StepStarts, Saw, Is
      <4>. QED  BY <3>1, <4>2, Places DEF PendInv
    <3>. QED  BY <1>1, <2>1, <3>1, PassedFrom DEF PendInv
  <2>4. ASSUME NEW t \in Slots, StartPending(oven') PROVE ~Saw(runner', t)
    <3>1. Operation(oven') # "running"
      BY <2>1, <2>4 DEF Operation, TypeOK, Oven, Links
    <3>. QED  BY <1>1, <2>1, <2>4, <3>1, NextEnters DEF Enters, PendInv
  <2>. QED  BY <2>1, <2>2, <2>3, <2>4 DEF PendInv
<1>. QED  BY <1>2, <1>3, <1>4, NextOven

LEMMA InitPends == Init => PendInv
<1> SUFFICES ASSUME Init PROVE PendInv
  OBVIOUS
<1>1. /\ oven.program = 0 /\ oven.commands = <<>> /\ runner.record.state = "idle"
      /\ \A t \in Slots : runner.tasks[t].pc = "free"
  BY DEF Init, OvenInit, NewRunner, NoRecord, NoTask
<1>. QED  BY <1>1, Places
          DEF PendInv, OneStart, StartPending, Ran, Ended, Finishes, Saw, Starting, Foreign

\* A programme that runs once a run ends has run its time.
LastInv ==
    Ended(runner) /\ oven.program # 0 => clock.step[oven.program] = "over"

\* The end of a run as these steps see it.
LEMMA HaltsNotEnded ==
    ASSUME NEW r, NEW q \in Runners, NEW s \in Background, Ordered(q), r.record.state = "running",
           Halts(r, q, s)
    PROVE  ~Ended(q)
<1>1. CASE q.record.state = "failed"
  <2>1. ~Finishes(q)
    BY <1>1, WhichByTask DEF Finishes, Finishing, Ready, InRun
  <2>. QED  BY <1>1, <2>1 DEF Ended
<1>2. CASE Failing(q, s) /\ q.record = r.record
  BY <1>2, WhereItIs DEF Ended
<1>. QED  BY <1>1, <1>2 DEF Halts

LEMMA AlikeNotEnded ==
    ASSUME NEW r, NEW q, q.record = r.record, ~Ended(r),
           \A t \in Background : q.tasks[t].pc \in {"free", r.tasks[t].pc}
    PROVE  ~Ended(q)
  BY DEF Ended, Finishes

\* A run whose step has begun: its task saves the step, or none is left.
LEMMA WhereItRan ==
    ASSUME Ordered(runner), Ran(runner), ~Recovers(runner)
    PROVE  /\ runner.record.state = "running" /\ ~Ended(runner) /\ ~Resting(runner)
           /\ Steady(runner) \/ \E s \in Background : Saving(runner, s)
           /\ \A t \in Background : runner.tasks[t].pc \in {"free", "powerOff", "stepSave"}
<1>1. runner.record.state = "running" /\ ~Ended(runner)
  BY DEF Ran, Ended, Finishes, LeavingPcs, Slots
<1>2. ~Aborting(runner) /\ ~Resting(runner)
  BY WhereItIsNot
<1>3. ASSUME NEW s \in Background, Acting(runner, s) PROVE Saving(runner, s)
  <2>1. ~Recovering(runner, s)
    BY DEF Recovering, Recovers
  <2>. QED  BY <1>3, <2>1, WhereItIs DEF Acting
<1>4. Steady(runner) \/ \E s \in Background : Saving(runner, s)
  BY <1>2, <1>3 DEF Ordered
<1>. QED  BY <1>1, <1>2, <1>4, Places DEF Steady, Saving, Ready, Beside

\* The handlers of a timed step are its timer.
LEMMA TimedHandlers ==
    ASSUME AllTimed, runner \in Runners, Ordered(runner), Ran(runner), Known(runner)
    PROVE  /\ CurrentStep(runner).kind = "timed"
           /\ \A h \in runner.step_unsubs : h[1] = "done" /\ h[2] = runner.record.step_index
<1>1. runner.record \in Records /\ Sound(runner.record) /\ runner.record.state = "running"
  BY OrderedSound DEF Runners, Ran
<1>2. CurrentStep(runner).kind = "timed"
  BY <1>1, SoundStep DEF AllTimed, CurrentStep, StepAt
<1>. QED  BY <1>2 DEF Known, HandlersRight

\* What is observed ends a timed step only when the oven has gone idle.
LEMMA ObserveEnds ==
    ASSUME AllTimed, TypeOK, TypeOK', Ordered(runner), Ran(runner), ~Recovers(runner),
           Known(runner), runner.up, Observe, Ended(runner')
    PROVE  oven'.program = 0
<1>1. runner \in Runners /\ ~Ended(runner)
  BY WhereItRan DEF TypeOK
<1>2. \A o : Alike(runner, Wake(runner, o))
  BY <1>1, WakeOrdered
<1>3. \A q, o : Alike(runner, q) => ~Ended(q) /\ ~Ended(CheckDoor(q, o))
  <2>1. ASSUME NEW q, NEW o, Alike(runner, q) PROVE ~Ended(q) /\ ~Ended(CheckDoor(q, o))
    <3>1. q.record = runner.record /\ \A t \in Background : q.tasks[t].pc = runner.tasks[t].pc
      BY <2>1, Places DEF Alike
    <3>2. CheckDoor(q, o).record = q.record /\ CheckDoor(q, o).tasks = q.tasks
      BY DEF CheckDoor
    <3>. QED  BY <1>1, <3>1, <3>2, AlikeNotEnded
  <2>. QED  BY <2>1
<1>4. CASE OnOperation
  <2>1. Operation(oven') = "idle"
    BY <1>2, <1>3, <1>4 DEF OnOperation, CheckOperation
  <2>. QED  BY <2>1 DEF Operation, TypeOK, Oven, Links
<1>5. CASE OnLinkDrop \/ OnRemoteStart
  BY <1>2, <1>3, <1>5 DEF OnLinkDrop, OnRemoteStart
<1>6. CASE OnDoor
  <2>1. Alike(runner, runner)
    BY DEF Alike
  <2>. QED  BY <1>3, <1>6, <2>1 DEF OnDoor
<1>7. CASE OnTemperature
  BY <1>1, <1>7, TimedHandlers DEF OnTemperature, CheckTemperature
<1>. QED  BY <1>4, <1>5, <1>6, <1>7 DEF Observe

\* No await that ends ends a timed step, and no write that lands.
LEMMA ResumeEnds ==
    ASSUME TypeOK, Ordered(runner), Ran(runner), ~Recovers(runner),
           NEW s \in Background, Resume(s)
    PROVE  ~Ended(runner')
<1>1. ~Ended(runner) /\ runner.tasks[s].pc \in {"free", "powerOff", "stepSave"}
  BY WhereItRan
<1>2. runner' = End(runner, s)
  BY <1>1 DEF Resume, Is, StopPress, StopWait, RemoteWait, Dial, Dials, StartPress, StartTimesOut,
              StepStarts, FailPress, FinishPress, PowerOff, RecoverWait
<1>3. /\ runner'.record = runner.record
      /\ \A t \in Background : runner'.tasks[t].pc \in {"free", runner.tasks[t].pc}
  BY <1>2, Places DEF End, NoTask, TypeOK, Runners
<1>. QED  BY <1>1, <1>3, AlikeNotEnded

LEMMA SaveEnds ==
    ASSUME AllTimed, TypeOK, Ordered(runner), Ran(runner), ~Recovers(runner), Known(runner), Save
    PROVE  ~Ended(runner')
<1>1. /\ runner \in Runners /\ ~Ended(runner) /\ ~Resting(runner)
      /\ \A t \in Background : runner.tasks[t].pc \in {"free", "powerOff", "stepSave"}
  BY WhereItRan DEF TypeOK
<1>2. ASSUME NEW c \in Calls
      PROVE  runner.tasks[c].pc \notin SavePcs
  BY <1>1, WhichByCall DEF CallPcs, SavePcs
<1>3. runner.saves # <<>> => Landed \in Runners /\ Landed.record = runner.record
                             /\ Landed.tasks = runner.tasks
  BY <1>1, LandedFacts
<1>4. CASE OrphanSaved
  BY <1>1, <1>3, <1>4, AlikeNotEnded DEF OrphanSaved
<1>5. ASSUME NEW s \in Slots, StepSaved(s) PROVE ~Ended(runner')
  <2>1. s \in Background /\ runner.tasks[s].pc = "stepSave" /\ runner.saves # <<>>
    BY <1>2, <1>5, Places DEF StepSaved, Lands, Is, SavePcs
  <2>2. Saving(runner, s)
    BY <1>1, <2>1, WhichByTask
  <2>3. StepAt(Landed, runner.tasks[s].step).kind = "timed"
    BY <1>1, <1>3, <2>1, <2>2, TimedHandlers DEF StepAt, CurrentStep, Saving
  <2>4. \E h : runner' = [End(Landed, s) EXCEPT !.step_unsubs = @ \cup {h}]
    BY <1>5, <2>3 DEF StepSaved, ArmStep
  <2>5. /\ runner'.record = runner.record
        /\ \A t \in Background : runner'.tasks[t].pc \in {"free", runner.tasks[t].pc}
    BY <1>3, <2>1, <2>4, Places DEF End, NoTask, Runners
  <2>. QED  BY <1>1, <2>5, AlikeNotEnded
<1>6. ASSUME NEW s \in Slots, FailSaved(s) \/ RunNowSaved(s) \/ LastSaved(s) PROVE FALSE
  <2>1. runner.tasks[s].pc \in {"failSave", "runNowSave", "finishSave", "runSave", "abortSave"}
    BY <1>6 DEF FailSaved, RunNowSaved, LastSaved, Lands, Is
  <2>. QED  BY <1>1, <1>2, <2>1, Places DEF SavePcs
<1>. QED  BY <1>4, <1>5, <1>6 DEF Save

\* No command ends a run but by stopping it.
LEMMA CommandEnds ==
    ASSUME OneCall, TypeOK, TypeOK', Ordered(runner), Ordered(runner'), Ran(runner),
           ~Recovers(runner), Command
    PROVE  ~Ended(runner')
<1>1. runner.record.state = "running" /\ runner' \in Runners
  BY WhereItRan DEF TypeOK
<1>2. runner'.record.state # "finished"
  <2>1. PICK c \in Calls :
           \/ \E p \in Presets, later \in BOOLEAN : CallRun(c, p, later)
           \/ CallAbort(c) \/ AbortPress(c)
    BY DEF Command
  <2>2. ~\E p \in Presets, later \in BOOLEAN : CallRun(c, p, later)
    BY <1>1 DEF CallRun, Active
  <2>3. ~AbortPress(c)
    BY Places DEF AbortPress, Is, Ran, LeavingPcs
  <2>. QED  BY <2>1, <2>2, <2>3, CallAbortOrdered
<1>3. ~Finishes(runner')
  <2>1. CASE runner'.record.state # "running"
    BY <1>1, <2>1, WhichByTask DEF Finishes, Finishing, Ready, InRun
  <2>2. CASE Aborting(runner')
    BY <2>2, WhereItIsNot
  <2>. QED  BY <2>1, <2>2, CommandStops
<1>. QED  BY <1>2, <1>3 DEF Ended

\* Of the timers it is the step's own.
LEMMA TimerEnds ==
    ASSUME AllTimed, TypeOK, TypeOK', OrderInv, Ordered(runner'), Ran(runner), ~Recovers(runner),
           Known(runner), Timer, Ended(runner')
    PROVE  clock.step[runner.record.step_index] = "over" /\ UNCHANGED <<oven, clock>>
<1> DEFINE n == NewTask(runner)
<1>1. /\ runner \in Runners /\ n \in Background /\ runner.tasks[n].pc = "free"
      /\ runner' \in Runners /\ Ordered(runner)
  BY NewTaskFree
     DEF TypeOK, Timer, StartComes, StepTimer, PreheatTimeout, MaxReached, DoorGraceOver, OrderInv
<1> HIDE DEF n
<1>2. runner.record.state = "running" /\ ~Resting(runner)
  BY <1>1, WhereItRan
<1>3. \A t \in Background : Saving(runner, t) \/ Boundary(runner, t) => t # n
  BY <1>1 DEF Saving, Boundary, TransitionPcs
<1>4. CASE StepTimer
  BY <1>1, <1>4, TimedHandlers DEF StepTimer
<1>5. CASE PreheatTimeout
  BY <1>1, <1>5, TimedHandlers DEF PreheatTimeout
<1>6. CASE MaxReached
  <2>1. runner' = Fail(runner, n, TRUE, "powerOff", oven) /\ "max" \in runner.unsubs
    BY <1>6 DEF MaxReached, n
  <2>2. Stoppable(runner, n)
    BY <1>1, <1>3, <2>1, WhichByHandles, RunStoppable
  <2>. QED  BY <1>1, <1>2, <2>1, <2>2, FailOrdered, HaltsNotEnded
<1>7. CASE DoorGraceOver
  <2> DEFINE q == [runner EXCEPT !.door_timer = FALSE]
  <2>1. runner' = Fail(q, n, TRUE, "return", oven) /\ runner.door_timer
    BY <1>7 DEF DoorGraceOver, n
  <2>2. Stoppable(runner, n)
    BY <1>1, <1>3, <2>1, WhichByHandles, RunStoppable
  <2>3. /\ q \in Runners /\ q.up = runner.up /\ q.record = runner.record
        /\ q.tasks = runner.tasks /\ q.saves = runner.saves
    BY <1>1 DEF Runners
  <2> HIDE DEF q
  <2>4. Stoppable(q, n) /\ q.record.state = "running"
    BY <1>2, <2>2, <2>3 DEF Stoppable, CallsFree
  <2>. QED  BY <1>1, <2>1, <2>3, <2>4, FailOrdered, HaltsNotEnded
<1>8. ~StartComes
  BY <1>1, <1>2, WhichByHandles DEF StartComes
<1>. QED  BY <1>4, <1>5, <1>6, <1>7, <1>8 DEF Timer

LEMMA LastKept ==
    ASSUME OneCall, AllTimed, "user" \notin Env, TypeOK, TypeOK', OrderInv, Ordered(runner'),
           runner.up, runner'.up, Happens, Known(runner), ~Recovers(runner),
           Stands(oven, runner), DialInv, PendInv, LastInv, [Next]_vars
    PROVE  LastInv'
<1>1. /\ runner \in Runners /\ runner' \in Runners /\ Ordered(runner)
      /\ oven \in Oven /\ clock \in Clocks /\ oven.program # Foreign
  BY DEF TypeOK, OrderInv, PendInv
<1>2. ASSUME SomeStarts PROVE ~Ended(runner) /\ ~Ended(runner')
  <2>1. PICK s \in Background : StepStarts(s)
    BY <1>2 DEF SomeStarts
  <2>2. Boundary(runner, s) /\ Saving(runner', s)
    BY <1>1, <2>1, StartsRight
  <2>. QED  BY <2>2, WhereItIs DEF Boundary, Saving, Ready, InRun, Ended
<1>3. CASE Ended(runner)
  <2>1. oven'.program # 0 => oven'.program = oven.program
    <3>1. CASE MovesOven
      BY <1>1, <1>3, <3>1, OvenPends DEF PendInv
    <3>2. CASE \E s \in Background : Turned(s)
      BY <1>1, <3>2, TurnPends
    <3>3. ASSUME NEW s \in Background, StartPress(s) PROVE FALSE
      <4>1. InBoundary(runner)
        BY <3>3 DEF StartPress, Is, InBoundary, TransitionPcs
      <4>. QED  BY <1>1, <1>3, <4>1, BetweenSteps DEF Ended
    <3>. QED  BY <3>1, <3>2, <3>3, NextOven
  <2>2. oven.program # 0 => oven.program \in 1 .. MaxSteps
    BY <1>1 DEF Oven
  <2>3. UNCHANGED vars => clock' = clock
    BY DEF vars
  <2>4. \A k \in 1 .. MaxSteps : clock.step[k] = "over" => clock'.step[k] = "over"
    <3>1. CASE StepPasses
      BY <1>1, <3>1 DEF StepPasses, Clocks
    <3>. QED  BY <1>2, <1>3, <2>3, <3>1, ClockSteps DEF SomeStarts
  <2>. QED  BY <1>3, <2>1, <2>2, <2>4 DEF LastInv
<1>4. CASE ~Ended(runner) /\ Ended(runner')
  <2>1. Ran(runner)
    BY <1>1, <1>2, <1>4, PassedFrom
  <2>2. CASE Observe
    BY <1>1, <1>4, <2>1, <2>2, ObserveEnds DEF LastInv
  <2>3. CASE Timer
    <3>1. clock.step[runner.record.step_index] = "over" /\ UNCHANGED <<oven, clock>>
      BY <1>1, <1>4, <2>1, <2>3, TimerEnds
    <3>2. oven.program # 0 => oven.program = runner.record.step_index
      <4>1. oven.program # 0 => oven.program > 0
        BY <1>1, BoundsAssumption DEF Oven
      <4>. QED  BY <1>1, <2>1, <4>1 DEF Stands, Chose, DialInv
    <3>. QED  BY <3>1, <3>2 DEF LastInv
  <2>4. ~(\E s \in Background : Resume(s)) /\ ~Save /\ ~Command
    BY <1>1, <1>4, <2>1, ResumeEnds, SaveEnds, CommandEnds
  <2>5. ~(TimePasses \/ UNCHANGED vars)
    <3>1. runner' # runner
      BY <1>4
    <3>. QED  BY <3>1 DEF TimePasses, StartPasses, StepPasses, MaxPasses, vars
  <2>6. ~Crash /\ ~Setup
    BY <1>1 DEF Crash, NewRunner, Setup, SetupInactive, SetupRunning, SetupScheduled
  <2>. QED  BY <2>2, <2>3, <2>4, <2>5, <2>6 DEF Next
<1>. QED  BY <1>3, <1>4 DEF LastInv

\* A record that says finished holds no step's end.
Sealed(record) == record.state = "finished" => record.ends = 0
SealInv ==
    Sealed(runner.record) /\ Sealed(disk) /\ \A i \in DOMAIN Writes(runner) : Sealed(Writes(runner)[i])

LEMMA GoesSealed ==
    ASSUME NEW r \in Runners, NEW q \in Runners, Goes(r, q) \/ Starts(r, q), Sealed(r.record),
           \A i \in DOMAIN Writes(r) : Sealed(Writes(r)[i])
    PROVE  Sealed(q.record) /\ \A i \in DOMAIN Writes(q) : Sealed(Writes(q)[i])
<1>1. r.record \in Records /\ Writes(r) \in Seq(Records) /\ Writes(q) \in Seq(Records)
      /\ q.record \in Records
  BY WritesType DEF Runners
<1>2. Sealed(q.record)
  <2>1. CASE Starts(r, q)
    BY <1>1, <2>1 DEF Starts, Sealed, Records
  <2>2. CASE Quietly(r, q)
    BY <1>1, <2>2 DEF Quietly, Sealed, Records
  <2>3. CASE Asking(r, q)
    BY <2>3 DEF Asking, Sealed
  <2>. QED  BY <2>1, <2>2, <2>3 DEF Goes
<1>3. CASE Writes(q) = Writes(r)
  BY <1>2, <1>3
<1>4. CASE Writes(q) = Append(Writes(r), q.record)
  <2>1. \A i \in DOMAIN Writes(q) : \/ Writes(q)[i] = q.record
                                    \/ i \in DOMAIN Writes(r) /\ Writes(q)[i] = Writes(r)[i]
    BY <1>1, <1>4, AppendProperties, LenProperties
  <2>. QED  BY <1>2, <2>1
<1>. QED  BY <1>3, <1>4 DEF Goes, Starts

LEMMA SealKept ==
    ASSUME TypeOK, TypeOK', Ordered(runner), runner.up, Course, SealInv
    PROVE  SealInv'
<1>1. runner \in Runners /\ runner' \in Runners
  BY DEF TypeOK
<1>2. ASSUME UNCHANGED disk, Goes(runner, runner') \/ Starts(runner, runner') PROVE SealInv'
  <2>1. Sealed(runner'.record) /\ \A i \in DOMAIN Writes(runner') : Sealed(Writes(runner')[i])
    BY <1>1, <1>2, GoesSealed DEF SealInv
  <2>. QED  BY <1>2, <2>1 DEF SealInv, Sealed, Writes
<1>3. CASE UNCHANGED <<runner, disk>>
  BY <1>3 DEF SealInv, Sealed, Writes
<1>4. CASE /\ runner.saves # <<>> /\ disk' = Head(runner.saves).record
           /\ Goes(Landed, runner')
  <2>1. /\ Landed \in Runners /\ Landed.record = runner.record
        /\ \A i \in DOMAIN Writes(Landed) : i + 1 \in DOMAIN Writes(runner)
                                             /\ Writes(Landed)[i] = Writes(runner)[i + 1]
        /\ 1 \in DOMAIN Writes(runner) /\ disk' = Writes(runner)[1]
    BY <1>1, <1>4, LandedFacts DEF Writes
  <2>2. Sealed(disk') /\ \A i \in DOMAIN Writes(Landed) : Sealed(Writes(Landed)[i])
    BY <2>1 DEF SealInv
  <2>3. Sealed(runner'.record) /\ \A i \in DOMAIN Writes(runner') : Sealed(Writes(runner')[i])
    BY <1>1, <1>4, <2>1, <2>2, GoesSealed DEF SealInv
  <2>. QED  BY <2>2, <2>3 DEF SealInv, Sealed, Writes
<1>5. CASE UNCHANGED disk /\ runner' = NewRunner
  <2>1. Writes(NewRunner) = <<>>
    BY DEF Writes, NewRunner
  <2>. QED  BY <1>5, <2>1 DEF SealInv, Sealed, Writes, NewRunner, NoRecord
<1>. QED  BY <1>2, <1>3, <1>4, <1>5 DEF Course

-----------------------------------------------------------------------------
(* How often people hear of a preset that finished.                        *)

\* What the runner keeps while nobody is at the oven and Home Assistant stays up.
LeftAloneInv ==
    /\ runner.up /\ ~Recovers(runner)
    /\ PendInv /\ LastInv /\ SealInv

\* Nothing is left that could be news of a programme's finish.
Quiet ==
    /\ oven.program = 0 /\ ~StartPending(oven)
    /\ reported[ProgramFinished] = "off" => ProgramFinished \notin present

\* One message at most is sent of a finish: once it is forgotten again there is
\* nothing left to send another for.
OnceInv ==
    /\ runner.record.state = "running" => finish = <<>>
    /\ runner.record.state = "finished" =>
          \/ finish = <<>>
          \/ Len(finish) = 1 /\ (EndSent \/ (Quiet /\ ~Alive({"finishSave"})))

LeftAlone == "user" \notin Env /\ MaxCrashes = 0

\* Nothing but the begin of a run begins one.
BeginsNone ==
    \/ Observe \/ (\E s \in Background : Resume(s))
    \/ (\E s \in Slots : StepSaved(s) \/ FailSaved(s) \/ LastSaved(s)) \/ OrphanSaved
    \/ Command \/ StepTimer \/ PreheatTimeout \/ MaxReached \/ DoorGraceOver
    \/ TimePasses \/ Crash \/ UNCHANGED vars

LEMMA NoneBegins ==
    ASSUME OneCall, TypeOK, TypeOK', Ordered(runner), BeginsNone,
           runner.record.state # "running", runner'.record.state = "running"
    PROVE  FALSE
<1>1. /\ runner \in Runners /\ runner' \in Runners /\ Resting(runner)
      /\ \A t \in Background : runner.tasks[t].pc \in {"free", "powerOff", "failSave", "finishSave"}
      /\ \A t \in Calls : runner.tasks[t].pc \in {"free", "runSave", "runNowSave", "abortSave"}
      /\ runner.unsubs \subseteq {"due"} /\ runner.step_unsubs = {} /\ ~runner.door_timer
  BY WhichByHandles DEF TypeOK, Resting
<1>2. ~Observe
  <2>1. \A o : Wake(runner, o).record = runner.record
    BY DEF Wake, TypeOK, Runners
  <2>2. \A q, o : q.record = runner.record =>
            CheckOperation(q, o).record = runner.record /\ CheckDoor(q, o).record = runner.record
    BY DEF CheckOperation, CheckDoor, Listening
  <2>. QED  BY <2>1, <2>2 DEF Observe, OnOperation, OnLinkDrop, OnDoor, OnRemoteStart,
                              OnTemperature, CheckTemperature
<1>3. ASSUME NEW s \in Background, Resume(s) PROVE FALSE
  <2>1. runner' = End(runner, s)
    BY <1>1, <1>3 DEF Resume, Is, StopPress, StopWait, RemoteWait, Dial, Dials, StartPress,
                StartTimesOut, StepStarts, FailPress, FinishPress, PowerOff, RecoverWait
  <2>. QED  BY <1>1, <2>1 DEF End, Runners
<1>4. ~((\E s \in Slots : StepSaved(s) \/ FailSaved(s) \/ LastSaved(s)) \/ OrphanSaved)
  <2>1. Landed.record = runner.record
    BY DEF Landed, TypeOK, Runners
  <2>2. OrphanSaved => FALSE
    BY <2>1 DEF OrphanSaved
  <2>3. ASSUME NEW s \in Slots, StepSaved(s) PROVE FALSE
    BY <1>1, <2>3, Places DEF StepSaved, Lands, Is
  <2>4. ASSUME NEW s \in Slots, FailSaved(s) \/ LastSaved(s) PROVE FALSE
    <3>1. \A pc : At(Landed, s, pc).record = runner.record
      BY <1>1, <2>1 DEF At, Landed, Runners
    <3>2. End(Landed, s).record = runner.record
      BY <1>1, <2>1 DEF End, Landed, Runners
    <3>3. \A b : [End(Landed, s) EXCEPT !.transitioning = b].record = runner.record
      BY <1>1, <2>1 DEF End, Landed, Runners
    <3>. QED  BY <2>4, <3>1, <3>2, <3>3 DEF FailSaved, LastSaved
  <2>. QED  BY <2>2, <2>3, <2>4
<1>5. ~Command
  <2>1. ASSUME NEW c \in Calls, NEW p \in Presets, NEW later \in BOOLEAN, CallRun(c, p, later)
        PROVE  FALSE
    BY <1>1, <2>1, CallRunOrdered, GoesRecord DEF CallRun, Active
  <2>2. ASSUME NEW c \in Calls, CallAbort(c) PROVE FALSE
    BY <1>1, <2>2, CallAbortStops DEF Active
  <2>3. ASSUME NEW c \in Calls, AbortPress(c) PROVE FALSE
    BY <1>1, <2>3 DEF AbortPress, Is
  <2>. QED  BY <2>1, <2>2, <2>3 DEF Command
<1>6. ~(StepTimer \/ PreheatTimeout \/ MaxReached \/ DoorGraceOver)
  BY <1>1 DEF StepTimer, PreheatTimeout, MaxReached, DoorGraceOver
<1>7. ~(TimePasses \/ UNCHANGED vars)
  <2>1. runner' # runner
    OBVIOUS
  <2>. QED  BY <2>1 DEF TimePasses, StartPasses, StepPasses, MaxPasses, vars
<1>8. ~Crash
  BY DEF Crash, NewRunner, NoRecord
<1>. QED  BY <1>2, <1>3, <1>4, <1>5, <1>6, <1>7, <1>8 DEF BeginsNone

\* What is sent of a finish, and when it is forgotten.
FinishGrows ==
    /\ ~EndSent /\ EndSent' /\ runner.record.state # "running"
    /\ \E what \in {"programme", "preset"} : finish' = Append(finish, what)
    /\ \/ Alive({"finishSave"})
       \/ reported[ProgramFinished] = "off" /\ ProgramFinished \in present

LEMMA WhatIsSent ==
    ASSUME TypeOK, Ordered(runner), [NotifierNext]_notifierVars
    PROVE  /\ finish' \in {finish, <<>>} \/ FinishGrows
           /\ EndSent /\ ~EndSent' => StepNears \/ Forgets \/ TwoMinutesPass(PresetFinishedKey)
<1>1. CASE FiresFinished /\ OnFinishedEvent
  <2>1. PICK s \in Slots : runner.tasks[s].pc = "finishSave"
    BY <1>1 DEF FiresFinished, Is
  <2>2. runner.record.state # "running" /\ Alive({"finishSave"})
    BY <2>1, FinishSaves DEF TypeOK, Alive
  <2>3. CASE Sends(PresetFinishedKey)
    BY <1>1, <2>2, <2>3 DEF OnFinishedEvent, Remember, Sends, EndSent, FinishGrows
  <2>4. CASE ~Sends(PresetFinishedKey)
    BY <1>1, <2>4 DEF OnFinishedEvent, Remember, EndSent
  <2>. QED  BY <2>3, <2>4
<1>2. CASE \E e \in Sensors : Reports(e)
  <2>1. PICK e \in Sensors : Reports(e)
    BY <1>2
  <2>2. sent \subseteq sent'
    BY <2>1 DEF Reports, OnStateChanged, Remember
  <2>3. CASE finish' = finish
    BY <2>2, <2>3 DEF EndSent
  <2>4. CASE finish' # finish
    <3>1. /\ IsNews(reported[e], Actual(e)) /\ ~StepNews(e) /\ e = ProgramFinished
          /\ Sends(KeyOf(e)) /\ sent' = Remember(KeyOf(e)) /\ finish' = Append(finish, "programme")
      BY <2>1, <2>4 DEF Reports, OnStateChanged
    <3>2. KeyOf(e) = PresetFinishedKey
      BY <3>1, NotifierAssumption DEF KeyOf, KindOf, PresetFinishedKey
    <3>3. reported[e] = "off" /\ e \in present /\ runner.record.state # "running"
      BY <3>1 DEF IsNews, Actual, StepNews
    <3>4. FinishGrows
      BY <3>1, <3>2, <3>3 DEF FinishGrows, Sends, Remember, EndSent
    <3>. QED  BY <2>2, <3>4 DEF EndSent
  <2>. QED  BY <2>3, <2>4
<1>3. CASE \/ FiresFailed /\ OnFailedEvent
           \/ OvenNews \/ RunBegins \/ Unheard \/ FinishesFirst
           \/ \E e \in Alarms : AlarmArises(e) \/ AlarmClears(e)
           \/ \E p \in People : Moves(p)
           \/ UNCHANGED notifierVars
  BY <1>3 DEF OnFailedEvent, Remember, OvenNews, RunBegins, Unheard, FinishesFirst, AlarmArises,
              AlarmClears, Moves, notifierVars, news, EndSent
<1>4. CASE StepNears \/ Forgets
  BY <1>4 DEF StepNears, Forgets
<1>5. CASE \E key \in Keys : TwoMinutesPass(key)
  BY <1>5 DEF TwoMinutesPass, EndSent
<1>. QED  BY <1>1, <1>2, <1>3, <1>4, <1>5 DEF NotifierNext

\* By when two minutes have passed nothing of a finished run is left to report.
LEMMA QuietByThen ==
    ASSUME TypeOK, Ordered(runner), runner.record.state = "finished", LeftAloneInv, Settled
    PROVE  Quiet /\ ~Alive({"finishSave"})
<1>1. runner \in Runners /\ oven \in Oven /\ runner.saves = <<>> /\ oven.commands = <<>>
  BY DEF TypeOK, Settled
<1>2. oven.program = 0
  <2>1. oven.program > 0 => FALSE
    BY DEF LeftAloneInv, LastInv, Ended, Settled
  <2>. QED  BY <1>1, <2>1, BoundsAssumption DEF LeftAloneInv, PendInv, Oven
<1>3. ~Alive({"finishSave"})
  <2>1. Owned(runner)
    BY <1>1, WhichByHandles DEF Resting
  <2>. QED  BY <1>1, <2>1 DEF Owned, Alive, SavePcs
<1>4. reported[ProgramFinished] = "off" => ProgramFinished \notin present
  BY DEF Settled, Actual
<1>. QED  BY <1>1, <1>2, <1>3, <1>4 DEF Quiet, StartPending

\* No step of a finished run passes.
LEMMA NoStepPasses ==
    ASSUME TypeOK, OrderInv, runner.up, runner.record.state = "finished", SealInv
    PROVE  ~StepPasses
<1>1. runner.saves = <<>> => disk.state = "finished"
  <2>1. runner.saves = <<>> => Youngest(disk, Writes(runner)) = disk
    BY WritesType DEF Youngest, TypeOK
  <2>. QED  BY <2>1 DEF OrderInv, Stored, Keeps
<1>. QED  BY <1>1 DEF StepPasses, SealInv, Sealed

\* Nothing to report comes up by itself while the run stays finished.
LEMMA QuietStays ==
    ASSUME LeftAlone, TypeOK, TypeOK', OrderInv, runner.record.state = "finished", LeftAloneInv,
           Quiet, NewsType, [NotifierNext]_notifierVars
    PROVE  Quiet'
<1>1. /\ runner \in Runners /\ oven \in Oven /\ Ordered(runner) /\ [Next]_vars
      /\ oven.program = 0 /\ ~StartPending(oven)
  BY NotifierStep DEF TypeOK, OrderInv, Quiet
<1>2. oven'.program = 0 /\ ~StartPending(oven')
  <2>1. CASE MovesOven
    BY <1>1, <2>1, OvenPends DEF LeftAloneInv, PendInv, LeftAlone
  <2>2. CASE \E s \in Background : Turned(s)
    BY <1>1, <2>2, TurnPends
  <2>3. ASSUME NEW s \in Background, StartPress(s) PROVE FALSE
    <3>1. InBoundary(runner)
      BY <2>3 DEF StartPress, Is, InBoundary, TransitionPcs
    <3>. QED  BY <1>1, <3>1, BetweenSteps
  <2>. QED  BY <1>1, <2>1, <2>2, <2>3, NextOven
<1>3. ProgramFinished \in Sensors /\ ProgramFinished \notin Alarms
  BY NotifierAssumption DEF Sensors, Alarms
<1>4. reported'[ProgramFinished] = "off" => ProgramFinished \notin present'
  <2>1. CASE UNCHANGED <<reported, present>>
    BY <2>1 DEF Quiet
  <2>2. CASE \/ FiresFinished /\ OnFinishedEvent
             \/ FiresFailed /\ OnFailedEvent
             \/ StepNears \/ RunBegins \/ Unheard
             \/ \E p \in People : Moves(p)
             \/ \E key \in Keys : TwoMinutesPass(key)
             \/ UNCHANGED notifierVars
    <3>1. UNCHANGED <<reported, present>>
      BY <2>2 DEF OnFinishedEvent, OnFailedEvent, StepNears, RunBegins, Unheard, Moves,
                  TwoMinutesPass, notifierVars, news
    <3>. QED  BY <2>1, <3>1
  <2>3. CASE OvenNews
    <3>1. reported' = reported /\ present' \subseteq present
      BY <1>1, <1>2, <2>3 DEF OvenNews
    <3>. QED  BY <3>1 DEF Quiet
  <2>4. ~Forgets /\ ~FinishesFirst
    BY <1>1, CountsAssumption DEF Forgets, Crash, FinishesFirst, LeftAlone, TypeOK
  <2>5. CASE \E e \in Alarms : AlarmArises(e) \/ AlarmClears(e)
    BY <1>3, <2>5 DEF AlarmArises, AlarmClears, Quiet
  <2>6. ASSUME NEW e \in Sensors, Reports(e)
        PROVE  reported'[ProgramFinished] = "off" => ProgramFinished \notin present'
    <3>1. reported' = [reported EXCEPT ![e] = Actual(e)] /\ present' = present
      BY <2>6 DEF Reports, OnStateChanged
    <3>. QED  BY <1>3, <3>1 DEF Actual, Quiet, NewsType
  <2>. QED  BY <2>2, <2>3, <2>4, <2>5, <2>6 DEF NotifierNext
<1>. QED  BY <1>2, <1>4 DEF Quiet

\* A record comes to say finished only from a run.
LEMMA FinishedFrom ==
    ASSUME TypeOK, TypeOK', Course, runner.up, runner'.record.state = "finished",
           runner.record.state # "finished"
    PROVE  runner.record.state = "running"
<1>1. /\ runner \in Runners /\ runner' \in Runners /\ runner.record \in Records
      /\ runner.saves # <<>> => Landed.record = runner.record
  BY LandedFacts DEF TypeOK, Runners
<1>2. ASSUME NEW r, r.record = runner.record, Goes(r, runner') PROVE runner.record.state = "running"
  BY <1>1, <1>2 DEF Goes, Quietly, Asking, Records
<1>3. runner' # NewRunner
  BY DEF NewRunner, NoRecord
<1>. QED  BY <1>1, <1>2, <1>3 DEF Course, Starts

\* While a run runs, and until it does, nothing is sent of its finish.
LEMMA UnsentYet ==
    ASSUME OneCall, LeftAlone, TypeOK, TypeOK', OrderInv, NotifierInv, LeftAloneInv, OnceInv,
           [NotifierNext]_notifierVars, runner'.record.state = "running"
    PROVE  finish' = <<>>
<1>1. CASE runner.record.state = "running"
  BY <1>1, WhatIsSent DEF OnceInv, FinishGrows, OrderInv
<1>2. CASE runner.record.state # "running"
  <2>1. ~BeginsNone
    BY <1>2, NoneBegins DEF OrderInv
  <2>2. ~Setup
    BY DEF LeftAloneInv, Setup, SetupInactive, SetupRunning, SetupScheduled
  <2>3. RunBegins
    <3>1. CASE FiresFinished \/ FiresFailed
      BY <2>1, <3>1 DEF FiresFinished, FiresFailed, BeginsNone
    <3>2. CASE OvenNews \/ StepNears \/ Forgets
      BY <2>1, <3>2 DEF OvenNews, StepNears, Forgets, BeginsNone, Observe, TimePasses
    <3>3. CASE Unheard
      BY <2>1, <2>2, <3>3 DEF Unheard, OtherSave, BeginsNone, Observe, TimePasses, Setup
    <3>4. CASE \/ FinishesFirst
               \/ \E e \in Alarms : AlarmArises(e) \/ AlarmClears(e)
               \/ \E e \in Sensors : Reports(e)
               \/ \E p \in People : Moves(p)
               \/ \E key \in Keys : TwoMinutesPass(key)
               \/ UNCHANGED notifierVars
      BY <2>1, <3>4, NotifierAlone DEF BeginsNone, notifierVars
    <3>. QED  BY <3>1, <3>2, <3>3, <3>4 DEF NotifierNext
  <2>. QED  BY <2>3 DEF RunBegins
<1>. QED  BY <1>1, <1>2

LEMMA OnceKept ==
    ASSUME OneCall, NoBriefSteps, LeftAlone, TypeOK, TypeOK', OrderInv, NotifierInv,
           LeftAloneInv, OnceInv, [NotifierNext]_notifierVars
    PROVE  OnceInv'
<1>1. /\ runner \in Runners /\ Ordered(runner) /\ [Next]_vars /\ runner.up
      /\ finish \in Seq({"programme", "preset"}) /\ NewsType
  BY NotifierStep DEF TypeOK, OrderInv, LeftAloneInv, NotifierInv, NewsType
<1>2. runner'.record.state = "running" => finish' = <<>>
  BY UnsentYet
<1>3. CASE runner'.record.state = "finished" /\ runner.record.state # "finished"
  <2>1. runner.record.state = "running"
    <3>1. Next => Course
      BY <1>1, StepOrdered DEF OrderInv, Stored
    <3>2. ~UNCHANGED vars
      BY <1>3 DEF vars
    <3>. QED  BY <1>1, <1>3, <3>1, <3>2, FinishedFrom
  <2>2. finish' = <<>>
    BY <1>1, <2>1, WhatIsSent DEF OnceInv, FinishGrows
  <2>. QED  BY <1>3, <2>2 DEF OnceInv
<1>4. CASE runner'.record.state = "finished" /\ runner.record.state = "finished"
  <2>1. CASE finish' = <<>>
    BY <1>4, <2>1 DEF OnceInv
  <2>2. CASE FinishGrows
    <3>1. finish = <<>>
      BY <1>4, <2>2 DEF FinishGrows, OnceInv, Quiet
    <3>2. Len(finish') = 1 /\ EndSent'
      BY <1>1, <2>2, <3>1, AppendProperties, EmptySeq DEF FinishGrows
    <3>. QED  BY <1>4, <3>2 DEF OnceInv
  <2>3. CASE finish' = finish /\ finish # <<>> /\ ~EndSent'
    <3>1. Len(finish) = 1
      BY <1>4, <2>3 DEF OnceInv
    <3>2. CASE EndSent
      <4>1. ~StepNears /\ ~Forgets
        BY <1>1, <1>4, NoStepPasses, CountsAssumption
           DEF StepNears, Forgets, Crash, LeftAlone, TypeOK, LeftAloneInv
      <4>2. TwoMinutesPass(PresetFinishedKey)
        BY <1>1, <2>3, <3>2, <4>1, WhatIsSent
      <4>3. Quiet /\ ~Alive({"finishSave"})
        BY <1>1, <1>4, <4>2, QuietByThen DEF TwoMinutesPass
      <4>4. UNCHANGED <<oven, runner, present, reported>>
        BY <4>2 DEF TwoMinutesPass, vars
      <4>5. Quiet' /\ ~Alive({"finishSave"})'
        BY <4>3, <4>4 DEF Quiet, StartPending, Alive
      <4>. QED  BY <1>4, <2>3, <3>1, <4>5 DEF OnceInv
    <3>3. CASE ~EndSent
      <4>1. Quiet /\ ~Alive({"finishSave"})
        BY <1>4, <2>3, <3>3 DEF OnceInv
      <4>2. Quiet'
        BY <1>1, <1>4, <4>1, QuietStays
      <4>3. ~Alive({"finishSave"})'
        BY <1>1, <1>4, <4>1, NextEnters DEF Enters, Alive
      <4>. QED  BY <1>4, <2>3, <3>1, <4>2, <4>3 DEF OnceInv
    <3>. QED  BY <3>2, <3>3
  <2>4. CASE finish' = finish /\ finish # <<>> /\ EndSent'
    BY <1>4, <2>4 DEF OnceInv
  <2>. QED  BY <1>1, <2>1, <2>2, <2>3, <2>4, WhatIsSent
<1>. QED  BY <1>2, <1>3, <1>4 DEF OnceInv

LEMMA LeftAloneKept ==
    ASSUME OneCall, NoBriefSteps, NoFaults, AllTimed, LeftAlone, TypeOK, TypeOK',
           OrderInv, OrderInv', StepsInv, ProgrammeInv, DialInv, LeftAloneInv, [Next]_vars
    PROVE  LeftAloneInv'
<1>1. /\ runner \in Runners /\ Ordered(runner) /\ Ordered(runner')
      /\ runner.up /\ ~Recovers(runner) /\ PendInv /\ LastInv /\ SealInv
  BY DEF TypeOK, OrderInv, LeftAloneInv
<1>2. ~Crash
  BY CountsAssumption DEF Crash, LeftAlone, TypeOK
<1>3. runner'.up
  BY <1>1, <1>2, StaysUp
<1>4. ~Recovers(runner')
  BY <1>1, NextEnters, Places DEF Enters, Recovers
<1>5. Happens /\ Linked /\ Known(runner) /\ Stands(oven, runner) /\ Course
  <2>1. Happens /\ Course
    BY StepsKept, NextOrder
  <2>. QED  BY <1>1, <2>1 DEF StepsInv, Progress, Known, ProgrammeInv
<1>6. PendInv'
  BY <1>1, <1>5, PendKept DEF LeftAlone
<1>7. LastInv'
  BY <1>1, <1>3, <1>5, LastKept DEF LeftAlone
<1>8. SealInv'
  BY <1>1, <1>5, SealKept
<1>. QED  BY <1>3, <1>4, <1>6, <1>7, <1>8 DEF LeftAloneInv

LEMMA InitLeftAlone == Init => LeftAloneInv
<1> SUFFICES ASSUME Init PROVE LeftAloneInv
  OBVIOUS
<1>1. /\ runner.up /\ runner.record = NoRecord /\ runner.saves = <<>> /\ disk = NoRecord
      /\ \A t \in Slots : runner.tasks[t].pc = "free"
  <2>1. NewRunner \in Runners /\ runner = [NewRunner EXCEPT !.up = TRUE]
    BY NewRunnerType DEF Init
  <2>. QED  BY <2>1 DEF Init, NewRunner, NoTask, Runners
<1>2. runner \in Runners /\ NoRecord.state = "idle"
  BY InitTypeOK DEF TypeOK, NoRecord
<1>3. Writes(runner) = <<>>
  BY <1>1, <1>2, WritesType
<1>4. SealInv
  BY <1>1, <1>2, <1>3 DEF SealInv, Sealed
<1>5. LastInv
  BY <1>1, <1>2, Places DEF LastInv, Ended, Finishes
<1>. QED  BY <1>1, <1>4, <1>5, InitPends, Places DEF LeftAloneInv, Recovers

\* Of a preset of timed steps that finished people hear once at most, though its
\* programme's finish and its own are both heard of, in either order, through retried
\* starts, and though every step's programme finishes too: as long as no service call
\* raises, no link drops, nobody starts programmes at the oven and Home Assistant stays up.
\* Two minutes after the message (_forget) the run has been saved as finished and the
\* programme has stopped, so nothing is left to send another for.
THEOREM FinishToldOnce ==
    ASSUME OneCall, NoBriefSteps, NoFaults, AllTimed, "user" \notin Env, MaxCrashes = 0
    PROVE  NotifierSpec => []OneMessagePerPreset
<1>1. LeftAlone
  BY DEF LeftAlone
<1>2. TypeOK /\ TypeOK' /\ OrderInv /\ OrderInv' /\ StepsInv /\ [Next]_vars => StepsInv'
  BY StepsKept
<1>3. TypeOK /\ TypeOK' /\ OrderInv /\ OrderInv' /\ DialInv /\ [Next]_vars => DialInv'
  BY NextDials DEF OrderInv
<1>4. TypeOK /\ TypeOK' /\ OrderInv /\ OrderInv' /\ StepsInv /\ ProgrammeInv /\ [Next]_vars
        => ProgrammeInv'
  BY ProgrammeKept
<1>5. /\ TypeOK /\ TypeOK' /\ OrderInv /\ OrderInv' /\ StepsInv /\ ProgrammeInv /\ DialInv
      /\ LeftAloneInv /\ [Next]_vars
      => LeftAloneInv'
  BY <1>1, LeftAloneKept
<1>6. /\ TypeOK /\ TypeOK' /\ OrderInv /\ NotifierInv /\ LeftAloneInv /\ OnceInv
      /\ [NotifierNext]_notifierVars
      => OnceInv'
  BY <1>1, OnceKept
<1>7. NotifierInit => OnceInv
  BY DEF NotifierInit, Init, NewRunner, NoRecord, OnceInv
<1>8. OnceInv => OneMessagePerPreset
  <2>1. finish = <<>> => Len(finish) = 0
    BY Zenon, EmptySeq
  <2>2. 0 <= 1 /\ 1 <= 1
    OBVIOUS
  <2>. QED  BY <2>1, <2>2, Zenon DEF OnceInv, OneMessagePerPreset
<1>9. Spec => [](TypeOK /\ OrderInv /\ LeftAloneInv)
  BY <1>2, <1>3, <1>4, <1>5, InitSteps, InitDials, InitProgramme, InitLeftAlone, TypeCorrect,
     OrderKept, PTL DEF Spec
<1>. QED  BY <1>6, <1>7, <1>8, <1>9, NotifierRunsTheRunner, NotifierAlways, PTL DEF NotifierSpec

===============================================================================
