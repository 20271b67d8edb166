--------------------------- MODULE PresetRunnerOrder ---------------------------
(***************************************************************************)
(* Why the tasks, timers and writes of PresetRunner do not get in each     *)
(* other's way, while one service call is in progress at a time and no     *)
(* step is shorter than the end slack.  (With two calls, or with steps of  *)
(* one minute, they do: see the runs that expect a violation.)             *)
(*                                                                         *)
(* The invariant says that the runner object is always in one of eight     *)
(* situations, each fixing who is under way, what is armed and what is     *)
(* being written (Ordered), and how the record relates to the youngest     *)
(* one asked to be written (Stored).  A function of the runner object      *)
(* takes it from one situation to another and moves the record on as a     *)
(* run may (Goes); the properties follow from the two together.            *)
(***************************************************************************)
EXTENDS PresetRunnerProofs

\* One service call is in progress at a time.
OneCall == MaxCalls <= 1
\* Every timed step is longer than the end slack.
NoBriefSteps == \A p \in Presets : \A k \in 1 .. Len(p) : ~p[k].brief

SavePcs == {"stepSave", "failSave", "finishSave", "runSave", "runNowSave", "abortSave"}

-----------------------------------------------------------------------------
(* The situations.                                                         *)

CallsFree(r) == \A c \in Calls : r.tasks[c].pc = "free"

\* Beside the task s the loop only switches an oven off; there is no other task.
Beside(r, s) == \A t \in Background \ {s} : r.tasks[t].pc \in {"free", "powerOff"}
Alone(r, s) == \A t \in Background \ {s} : r.tasks[t].pc = "free"
OnePowerOff(r) ==
    \A s, t \in Background : r.tasks[s].pc = "powerOff" /\ r.tasks[t].pc = "powerOff" => s = t

\* Nothing is armed; nobody awaits a write.
Calm(r) == r.unsubs = {} /\ r.step_unsubs = {} /\ ~r.door_timer
Orphaned(r) == \A i \in DOMAIN r.saves : r.saves[i].by = Nobody

\* A record that says there is a run has a preset, and is at a step of it.
Sound(record) ==
    /\ record.state \in Active => record.preset # <<>>
    /\ record.state = "running" => record.step_index \in 1 .. Len(record.preset)

InRun(r) ==
    /\ r.up /\ r.record.state = "running" /\ Sound(r.record)
    /\ "due" \notin r.unsubs /\ OnePowerOff(r)

\* Nobody but a task that s stands for acts on the run, and nothing is written.
Ready(r, s) == InRun(r) /\ CallsFree(r) /\ r.saves = <<>> /\ Beside(r, s)

\* While a run is running: between two steps, saving that a step runs, failing,
\* finishing, recovering, or being aborted; or with nobody acting on it.
Boundary(r, s) ==
    /\ Ready(r, s) /\ r.step_unsubs = {} /\ ~r.door_timer /\ r.transitioning
    /\ r.tasks[s].pc \in TransitionPcs /\ r.tasks[s].step = r.record.step_index
Saving(r, s) ==
    /\ InRun(r) /\ CallsFree(r) /\ Beside(r, s) /\ r.step_unsubs = {}
    /\ r.tasks[s].pc = "stepSave" /\ r.tasks[s].step = r.record.step_index
    /\ r.saves = <<[record |-> r.record, by |-> s]>>
Failing(r, s) ==
    /\ InRun(r) /\ CallsFree(r) /\ Orphaned(r) /\ Alone(r, s) /\ Calm(r)
    /\ r.tasks[s].pc = "failPress"
Finishing(r, s) == Ready(r, s) /\ Calm(r) /\ r.tasks[s].pc = "finishPress"
Recovering(r, s) ==
    Ready(r, s) /\ Alone(r, s) /\ Calm(r) /\ r.tasks[s].pc = "recoverWait"
Steady(r) == Ready(r, Nobody)
Aborting(r) ==
    /\ InRun(r) /\ Orphaned(r) /\ Alone(r, Nobody) /\ Calm(r)
    /\ Calls # {} /\ \A c \in Calls : r.tasks[c].pc = "abortPress"

\* Each coroutine that awaits a write has one of its own in the queue.
Owned(r) ==
    /\ \A i \in DOMAIN r.saves :
          r.saves[i].by # Nobody => r.tasks[r.saves[i].by].pc \in SavePcs
    /\ \A i, j \in DOMAIN r.saves :
          r.saves[i].by = r.saves[j].by => i = j \/ r.saves[i].by = Nobody
    /\ \A s \in Slots :
          r.tasks[s].pc \in SavePcs => \E i \in DOMAIN r.saves : r.saves[i].by = s

\* A schedule has its timer, or is the youngest write of a call for now.
Attended(r) ==
    IF \E c \in Calls : r.tasks[c].pc = "runNowSave"
    THEN /\ r.unsubs = {} /\ r.saves # <<>>
         /\ r.saves[Len(r.saves)].by \in Calls
    ELSE "due" \in r.unsubs

\* No run is running.
Resting(r) ==
    /\ r.record.state # "running" /\ Sound(r.record)
    /\ ~r.up => r = NewRunner
    /\ OnePowerOff(r) /\ Owned(r)
    /\ \A s \in Background :
          /\ r.tasks[s].pc \in {"free", "powerOff", "failSave", "finishSave"}
          /\ r.tasks[s].pc = "finishSave" => Beside(r, s)
          /\ r.tasks[s].pc = "failSave" => Alone(r, s)
    /\ \A c \in Calls : r.tasks[c].pc \in {"free", "runSave", "runNowSave", "abortSave"}
    /\ r.unsubs \subseteq {"due"} /\ r.step_unsubs = {} /\ ~r.door_timer
    /\ IF r.record.state = "scheduled" THEN Attended(r)
       ELSE r.unsubs = {} /\ \A c \in Calls : r.tasks[c].pc # "runNowSave"

Acting(r, s) ==
    Boundary(r, s) \/ Saving(r, s) \/ Failing(r, s) \/ Finishing(r, s) \/ Recovering(r, s)

Ordered(r) == (\E s \in Background : Acting(r, s)) \/ Steady(r) \/ Aborting(r) \/ Resting(r)

-----------------------------------------------------------------------------
(* The course of the record.                                               *)

InBoundary(r) == \E s \in Background : r.tasks[s].pc \in TransitionPcs

\* The records to be written, oldest first.
Writes(r) == [i \in DOMAIN r.saves |-> r.saves[i].record]

\* What a run may do without asking for a write: nothing, begin, enter a step.
Quietly(r, q) ==
    \/ q.record = r.record /\ (InBoundary(q) => InBoundary(r))
    \/ /\ r.record.state = "scheduled"
       /\ q.record = [r.record EXCEPT !.state = "running", !.step_index = 1]
    \/ /\ r.record.state = "running"
       /\ q.record = [r.record EXCEPT !.step_index = @ + 1]

\* And what it asks to be written: an end, a schedule.
Asking(r, q) ==
    \/ r.record.state = "running" /\ q.record.state = "finished" /\ q.record.ends = 0
    \/ r.record.state \in Active /\ q.record.state \in {"failed", "idle"}
    \/ r.record.state \in {"finished", "failed"} /\ q.record.state = "idle"
    \/ r.record.state \notin Active /\ q.record.state = "scheduled" /\ q.record.preset # <<>>

Goes(r, q) ==
    /\ r.up /\ q.up
    /\ \/ Quietly(r, q) /\ Writes(q) = Writes(r)
       \/ Asking(r, q) /\ Writes(q) = Append(Writes(r), q.record)

\* A step that runs is asked to be written, with its end.
Starts(r, q) ==
    /\ r.up /\ q.up /\ r.record.state = "running" /\ ~InBoundary(q)
    /\ \E ends \in 0 .. MaxSteps : q.record = [r.record EXCEPT !.ends = ends]
    /\ Writes(q) = Append(Writes(r), q.record)

-----------------------------------------------------------------------------
(* Places.                                                                 *)

\* The two kinds of slots are apart, and none of them is nobody's.
LEMMA Places ==
    /\ Background \cap Calls = {} /\ Slots = Background \cup Calls
    /\ Nobody \notin Slots
    /\ OneCall => \A c, e \in Calls : c = e
<1>1. MaxTasks \in Nat \ {0} /\ MaxCalls \in Nat
  BY CountsAssumption
<1>. QED  BY <1>1 DEF Background, Calls, Slots, Nobody, OneCall

\* q is r but for the task s, which waits at one of pcs for the same step.
Moved(r, q, s, pcs) ==
    /\ q.up = r.up /\ q.record = r.record /\ q.transitioning = r.transitioning
    /\ q.unsubs = r.unsubs /\ q.step_unsubs = r.step_unsubs
    /\ q.door_timer = r.door_timer /\ q.saves = r.saves
    /\ q.tasks[s].pc \in pcs /\ q.tasks[s].step = r.tasks[s].step
    /\ \A t \in Slots \ {s} : q.tasks[t] = r.tasks[t]

\* Going on to another await moves the task only.
LEMMA WaitMoved ==
    ASSUME NEW r \in Runners, NEW s \in Slots, NEW pcs, NEW pc \in pcs, NEW o
    PROVE  Moved(r, At(r, s, pc), s, pcs) /\ Moved(r, Wait(r, s, pc, o), s, pcs)
  BY DEF Moved, At, Wait, Runners, Tasks

\* So does a service call that is made, or dropped.
LEMMA IssueMoved ==
    ASSUME NEW r \in Runners, NEW s \in Slots, NEW pc \in TransitionPcs, NEW o
    PROVE  Moved(r, Issue(r, s, pc, o), s, TransitionPcs)
  BY WaitMoved DEF Issue, TransitionPcs

\* So does an attempt.
LEMMA AttemptMoved ==
    ASSUME NEW r \in Runners, NEW s \in Slots, NEW n \in 0 .. StartAttempts, NEW o
    PROVE  Moved(r, Attempt(r, s, n, o), s, TransitionPcs)
<1> DEFINE q == [r EXCEPT !.tasks[s].attempt = n]
<1>1. q \in Runners /\ Moved(r, q, s, {r.tasks[s].pc})
  BY DEF Moved, Runners, Tasks
<1> HIDE DEF q
<1>2. Moved(q, Attempt(r, s, n, o), s, TransitionPcs)
  BY <1>1, IssueMoved DEF Attempt, q, TransitionPcs
<1>. QED  BY <1>1, <1>2 DEF Moved

\* So does checking remote start.
LEMMA CheckRemoteStartMoved ==
    ASSUME NEW r \in Runners, NEW s \in Slots, NEW o
    PROVE  Moved(r, CheckRemoteStart(r, s, o), s, TransitionPcs)
<1>1. 1 \in 0 .. StartAttempts /\ "remoteWait" \in TransitionPcs
  BY CountsAssumption DEF TransitionPcs
<1>. QED  BY <1>1, WaitMoved, AttemptMoved DEF CheckRemoteStart

\* A transition that goes on is the same transition.
LEMMA MovedBoundary ==
    ASSUME NEW r, NEW q, NEW s \in Background, Moved(r, q, s, TransitionPcs),
           Ready(r, s), r.step_unsubs = {}, ~r.door_timer, r.transitioning,
           r.tasks[s].step = r.record.step_index
    PROVE  Boundary(q, s)
<1>1. Background \subseteq Slots /\ Calls \subseteq Slots /\ s \notin Calls
  BY Places
<1>2. CallsFree(q) /\ Beside(q, s)
  BY <1>1 DEF Moved, Ready, CallsFree, Beside
<1>3. OnePowerOff(q)
  BY <1>1 DEF Moved, Ready, InRun, OnePowerOff, TransitionPcs
<1>. QED  BY <1>2, <1>3 DEF Moved, Ready, InRun, Boundary

-----------------------------------------------------------------------------
(* Writes and who awaits them.                                             *)

\* The queue of writes is a sequence, as is that of their records.
LEMMA WritesType ==
    ASSUME NEW r \in Runners
    PROVE  /\ r.saves \in Seq([record : Records, by : Slots \cup {Nobody}])
           /\ Writes(r) \in Seq(Records) /\ Len(Writes(r)) = Len(r.saves)
           /\ \A i \in DOMAIN r.saves : r.saves[i].by \in Slots \cup {Nobody}
           /\ r.saves = <<>> => Writes(r) = <<>>
<1>1. r.saves \in Seq([record : Records, by : Slots \cup {Nobody}])
  BY DEF Runners
<1>2. /\ Len(r.saves) \in Nat /\ DOMAIN r.saves = 1 .. Len(r.saves)
      /\ \A i \in 1 .. Len(r.saves) :
            r.saves[i].record \in Records /\ r.saves[i].by \in Slots \cup {Nobody}
  <2> DEFINE W == [record : Records, by : Slots \cup {Nobody}]
  <2>1. Len(r.saves) \in Nat /\ DOMAIN r.saves = 1 .. Len(r.saves)
    BY <1>1, LenProperties
  <2>2. \A i \in 1 .. Len(r.saves) : r.saves[i] \in W
    BY <1>1, <2>1, ElementOfSeq
  <2>. QED  BY <2>1, <2>2
<1>3. Writes(r) \in [1 .. Len(r.saves) -> Records]
  BY <1>2 DEF Writes
<1>4. Writes(r) \in Seq(Records) /\ Len(Writes(r)) = Len(r.saves)
  BY <1>2, <1>3, SeqDef, LenProperties
<1>5. r.saves = <<>> => Writes(r) = <<>>
  BY <1>2, <1>4, EmptySeq
<1>. QED  BY <1>1, <1>2, <1>4, <1>5

\* q is r but for the task s, which has asked for its record to be written.
Asked(r, q, s, pc) ==
    /\ q.saves = Append(r.saves, [record |-> r.record, by |-> s])
    /\ Writes(q) = Append(Writes(r), q.record)
    /\ q.record = r.record /\ q.up = r.up /\ q.transitioning = r.transitioning
    /\ q.unsubs = r.unsubs /\ q.step_unsubs = r.step_unsubs
    /\ q.door_timer = r.door_timer
    /\ q.tasks[s].pc = pc /\ q.tasks[s].step = r.tasks[s].step
    /\ \A t \in Slots \ {s} : q.tasks[t] = r.tasks[t]

\* _async_commit asks for the record as it is.
LEMMA CommitWrites ==
    ASSUME NEW r \in Runners, NEW s \in Slots, NEW pc \in Pcs
    PROVE  Asked(r, Commit(r, s, pc), s, pc)
<1> DEFINE q == Commit(r, s, pc)
<1>1. /\ q.saves = Append(r.saves, [record |-> r.record, by |-> s])
      /\ q.record = r.record /\ q.up = r.up /\ q.transitioning = r.transitioning
      /\ q.unsubs = r.unsubs /\ q.step_unsubs = r.step_unsubs
      /\ q.door_timer = r.door_timer
      /\ q.tasks[s].pc = pc /\ q.tasks[s].step = r.tasks[s].step
      /\ \A t \in Slots \ {s} : q.tasks[t] = r.tasks[t]
  BY DEF Commit, At, Runners, Tasks
<1> HIDE DEF q
<1>2. r.record \in Records /\ s \in Slots \cup {Nobody}
  BY DEF Runners
<1>3. Writes(q) = Append(Writes(r), q.record)
  <2> DEFINE w == [record |-> r.record, by |-> s]
  <2>1. w \in [record : Records, by : Slots \cup {Nobody}]
    BY <1>2
  <2>2. r.saves \in Seq([record : Records, by : Slots \cup {Nobody}])
    BY WritesType
  <2>3. /\ DOMAIN q.saves = 1 .. (Len(r.saves) + 1)
        /\ \A i \in 1 .. Len(r.saves) : q.saves[i] = r.saves[i]
        /\ q.saves[Len(r.saves) + 1] = w
        /\ Len(r.saves) \in Nat
    BY <1>1, <2>1, <2>2, AppendProperties, LenProperties
  <2>4. /\ Writes(r) \in Seq(Records) /\ Len(Writes(r)) = Len(r.saves)
        /\ \A i \in 1 .. Len(r.saves) : Writes(r)[i] = r.saves[i].record
    BY <2>2, WritesType, LenProperties DEF Writes
  <2> DEFINE a == Append(Writes(r), q.record)
  <2>5. /\ a \in Seq(Records) /\ Len(a) = Len(r.saves) + 1
        /\ \A i \in 1 .. Len(r.saves) : a[i] = r.saves[i].record
        /\ a[Len(r.saves) + 1] = q.record
    BY <1>1, <1>2, <2>4, AppendProperties
  <2> HIDE DEF a
  <2>6. DOMAIN a = 1 .. (Len(r.saves) + 1)
    BY <2>5, LenProperties
  <2>7. \A i \in 1 .. (Len(r.saves) + 1) : a[i] = q.saves[i].record
    BY <1>1, <2>3, <2>5
  <2>8. a = [i \in 1 .. (Len(r.saves) + 1) |-> a[i]]
    BY <2>5, <2>6 DEF a
  <2>. QED  BY <2>3, <2>7, <2>8 DEF Writes, a
<1>. QED  BY <1>1, <1>3 DEF q, Asked

\* The coroutines other than s that await a write have theirs, and s has none.
OwnedBeside(r, s) ==
    /\ \A i \in DOMAIN r.saves :
          r.saves[i].by # Nobody => r.saves[i].by # s /\ r.tasks[r.saves[i].by].pc \in SavePcs
    /\ \A i, j \in DOMAIN r.saves :
          r.saves[i].by = r.saves[j].by => i = j \/ r.saves[i].by = Nobody
    /\ \A t \in Slots \ {s} :
          r.tasks[t].pc \in SavePcs => \E i \in DOMAIN r.saves : r.saves[i].by = t

\* Who asks for a write has it, and who returns needs none.
LEMMA CommitOwned ==
    ASSUME NEW r \in Runners, NEW s \in Slots, NEW pc \in SavePcs, OwnedBeside(r, s)
    PROVE  Owned(Commit(r, s, pc)) /\ Owned(End(r, s))
<1>1. Owned(End(r, s))
  <2>1. /\ End(r, s).saves = r.saves /\ End(r, s).tasks[s].pc = "free"
        /\ \A t \in Slots \ {s} : End(r, s).tasks[t] = r.tasks[t]
    BY DEF End, NoTask, Runners
  <2>2. \A i \in DOMAIN r.saves : r.saves[i].by \in Slots \cup {Nobody}
    BY WritesType
  <2>. QED  BY <2>1, <2>2 DEF OwnedBeside, Owned, SavePcs
<1>2. Owned(Commit(r, s, pc))
  <2> DEFINE q == Commit(r, s, pc)
  <2>1. /\ q.saves = Append(r.saves, [record |-> r.record, by |-> s])
        /\ q.tasks[s].pc = pc /\ \A t \in Slots \ {s} : q.tasks[t] = r.tasks[t]
    BY CommitWrites DEF SavePcs, Pcs, TaskPcs, FailPcs, CallPcs, Asked
  <2> HIDE DEF q
  <2>2. r.record \in Records
    BY DEF Runners
  <2>3. /\ DOMAIN q.saves = 1 .. (Len(r.saves) + 1) /\ DOMAIN r.saves = 1 .. Len(r.saves)
        /\ \A i \in 1 .. Len(r.saves) : q.saves[i] = r.saves[i]
        /\ q.saves[Len(r.saves) + 1].by = s
        /\ Len(r.saves) \in Nat
    BY <2>1, <2>2, WritesType, AppendProperties, LenProperties
  <2>4. \A i \in 1 .. Len(r.saves) : q.saves[i].by \in (Slots \ {s}) \cup {Nobody}
    BY <2>3, WritesType DEF OwnedBeside
  <2>5. \A i \in DOMAIN q.saves : q.saves[i].by # Nobody => q.tasks[q.saves[i].by].pc \in SavePcs
    BY <2>1, <2>3, <2>4 DEF OwnedBeside
  <2>6. \A i, j \in DOMAIN q.saves :
           q.saves[i].by = q.saves[j].by => i = j \/ q.saves[i].by = Nobody
    <3> DEFINE n == Len(r.saves)
    <3>1. \A i, j \in 1 .. n : q.saves[i].by = q.saves[j].by => i = j \/ q.saves[i].by = Nobody
      BY <2>3 DEF OwnedBeside
    <3>2. \A i \in 1 .. n : q.saves[i].by # q.saves[n + 1].by
      BY <2>3, <2>4, Places
    <3>3. DOMAIN q.saves = (1 .. n) \cup {n + 1}
      BY <2>3
    <3> HIDE DEF n
    <3>. QED  BY <3>1, <3>2, <3>3
  <2>7. \A t \in Slots : q.tasks[t].pc \in SavePcs => \E i \in DOMAIN q.saves : q.saves[i].by = t
    BY <2>1, <2>3 DEF OwnedBeside
  <2>. QED  BY <2>5, <2>6, <2>7 DEF Owned, q
<1>. QED  BY <1>1, <1>2

\* Where nobody awaits a write, anybody may ask for one.
LEMMA OrphanedOwned ==
    ASSUME NEW r \in Runners, NEW s \in Slots, Orphaned(r),
           \A t \in Slots \ {s} : r.tasks[t].pc \notin SavePcs
    PROVE  OwnedBeside(r, s)
  BY DEF Orphaned, OwnedBeside

\* A run that has failed or finished rests, once it has asked for its write.
LEMMA CommitRests ==
    ASSUME NEW r \in Runners, NEW s \in Background, NEW pc \in {"failSave", "finishSave"},
           r.up, r.record.state \notin Active, OnePowerOff(r), CallsFree(r), Orphaned(r),
           Calm(r), Beside(r, s), pc = "failSave" => Alone(r, s)
    PROVE  Resting(Commit(r, s, pc))
<1> DEFINE q == Commit(r, s, pc)
<1>1. s \in Slots /\ s \notin Calls /\ Slots = Background \cup Calls
  BY Places
<1>2. Owned(q)
  <2>1. \A t \in Slots \ {s} : r.tasks[t].pc \notin SavePcs
    BY <1>1 DEF Beside, CallsFree, SavePcs
  <2>. QED  BY <1>1, <2>1, OrphanedOwned, CommitOwned DEF SavePcs
<1>3. /\ q.record = r.record /\ q.up = r.up /\ q.unsubs = r.unsubs
      /\ q.step_unsubs = r.step_unsubs /\ q.door_timer = r.door_timer
      /\ q.tasks[s].pc = pc /\ \A t \in Slots \ {s} : q.tasks[t] = r.tasks[t]
  <2>1. s \in Slots /\ pc \in Pcs
    BY <1>1 DEF Pcs, TaskPcs, FailPcs
  <2>2. Asked(r, q, s, pc)
    BY <2>1, CommitWrites
  <2>. QED  BY <2>2 DEF Asked
<1> HIDE DEF q
<1>4. OnePowerOff(q)
  BY <1>1, <1>3 DEF OnePowerOff
<1>5. Sound(q.record) /\ q.record.state \notin {"running", "scheduled"}
  BY <1>3 DEF Sound, Active
<1>6. \A t \in Background :
          /\ q.tasks[t].pc \in {"free", "powerOff", "failSave", "finishSave"}
          /\ q.tasks[t].pc = "finishSave" => Beside(q, t)
          /\ q.tasks[t].pc = "failSave" => Alone(q, t)
  BY <1>1, <1>3 DEF Beside, Alone
<1>7. \A c \in Calls : q.tasks[c].pc = "free"
  BY <1>1, <1>3 DEF CallsFree
<1>. QED  BY <1>2, <1>3, <1>4, <1>5, <1>6, <1>7 DEF Resting, Calm, q

-----------------------------------------------------------------------------
(* The functions of the runner object.                                     *)

\* q is r with all background tasks but x cancelled.
Cancelled(r, q, x) ==
    /\ q.record = r.record /\ q.up = r.up
    /\ q.unsubs = r.unsubs /\ q.step_unsubs = r.step_unsubs
    /\ q.door_timer = r.door_timer
    /\ \A t \in Background \ {x} : q.tasks[t] = NoTask
    /\ \A t \in Slots : t = x \/ t \notin Background => q.tasks[t] = r.tasks[t]
    /\ DOMAIN q.saves = DOMAIN r.saves /\ Writes(q) = Writes(r)
    /\ \A i \in DOMAIN r.saves :
          q.saves[i].by = IF r.saves[i].by \in Background \ {x} THEN Nobody
                          ELSE r.saves[i].by

\* A cancelled task is gone, and nobody awaits its write, which stays queued.
LEMMA CancelFacts ==
    ASSUME NEW r \in Runners, NEW x
    PROVE  Cancelled(r, CancelTasks(r, x), x)
<1> DEFINE others == Background \ {x}
           saves == [i \in DOMAIN r.saves |->
                       IF r.saves[i].by \in others
                       THEN [r.saves[i] EXCEPT !.by = Nobody] ELSE r.saves[i]]
           tasks == [t \in Slots |-> IF t \in others THEN NoTask ELSE r.tasks[t]]
           on == r.transitioning /\ \A t \in others : ~InTry(r.tasks[t])
           q == [r EXCEPT !.tasks = tasks, !.transitioning = on, !.saves = saves]
<1>1. CancelTasks(r, x) = q
  BY DEF CancelTasks, Cancel
<1>2. /\ q.record = r.record /\ q.up = r.up
      /\ q.unsubs = r.unsubs /\ q.step_unsubs = r.step_unsubs
      /\ q.door_timer = r.door_timer /\ q.tasks = tasks /\ q.saves = saves
  BY DEF Runners
<1>3. Background \subseteq Slots
  BY Places
<1>4. \A t \in Slots : tasks[t] = IF t \in others THEN NoTask ELSE r.tasks[t]
  OBVIOUS
<1>5. \A i \in DOMAIN r.saves :
         /\ saves[i].record = r.saves[i].record
         /\ saves[i].by = IF r.saves[i].by \in others THEN Nobody ELSE r.saves[i].by
  <2> TAKE i \in DOMAIN r.saves
  <2>1. r.saves[i] \in [record : Records, by : Slots \cup {Nobody}]
    BY WritesType, LenProperties, ElementOfSeq
  <2>. QED  BY <2>1
<1> HIDE DEF saves, tasks, on
<1>6. DOMAIN saves = DOMAIN r.saves
  BY DEF saves
<1> HIDE DEF q
<1>7. Writes(q) = Writes(r)
  BY <1>2, <1>5, <1>6 DEF Writes
<1>. QED  BY <1>1, <1>2, <1>3, <1>4, <1>5, <1>6, <1>7 DEF Cancelled

\* What a step does of the record does not depend on the handles.
LEMMA GoesFrom ==
    ASSUME NEW r, NEW p, NEW q, p.up = r.up, p.record = r.record, Writes(p) = Writes(r),
           InBoundary(p) => InBoundary(r), Goes(p, q)
    PROVE  Goes(r, q)
  BY DEF Goes, Quietly, Asking

\* A run that fails asks for that to be written.
LEMMA FailedOrdered ==
    ASSUME NEW r \in Runners, NEW s \in Background, r.up, r.record.state \in Active,
           Orphaned(r), Alone(r, s), CallsFree(r), Calm(r)
    PROVE  /\ Resting(Failed(r, s)) /\ Goes(r, Failed(r, s))
           /\ Failed(r, s).record.state = "failed"
<1> DEFINE p == [r EXCEPT !.record.state = "failed"]
           q == Commit(p, s, "failSave")
<1>1. /\ p \in Runners /\ p.record.state = "failed" /\ p.up = r.up /\ p.saves = r.saves
      /\ p.tasks = r.tasks /\ p.unsubs = r.unsubs /\ p.step_unsubs = r.step_unsubs
      /\ p.door_timer = r.door_timer
  BY RecordType DEF Runners, Records, States
<1> HIDE DEF p
<1>2. /\ Orphaned(p) /\ Alone(p, s) /\ Beside(p, s) /\ CallsFree(p) /\ Calm(p)
      /\ OnePowerOff(p) /\ p.up /\ Writes(p) = Writes(r)
  <2>1. /\ Orphaned(p) /\ Alone(p, s) /\ CallsFree(p) /\ Calm(p) /\ p.up /\ Writes(p) = Writes(r)
    BY <1>1 DEF Orphaned, Alone, CallsFree, Calm, Writes
  <2>. QED  BY <2>1 DEF Alone, Beside, OnePowerOff
<1>3. Resting(q)
  BY <1>1, <1>2, CommitRests DEF Active
<1>4. Asked(p, q, s, "failSave")
  <2>1. "failSave" \in Pcs /\ s \in Slots
    BY Places DEF Pcs, TaskPcs, FailPcs
  <2>. QED  BY <1>1, <2>1, CommitWrites
<1>5. Goes(r, q)
  BY <1>1, <1>2, <1>4 DEF Goes, Asking, Asked
<1>. QED  BY <1>1, <1>3, <1>4, <1>5 DEF Failed, p, Asked

\* So does a run that finishes.
LEMMA FinishedOrdered ==
    ASSUME NEW r \in Runners, NEW s \in Background, Ready(r, s), Calm(r)
    PROVE  LET q == Finished(r, s)
           IN  /\ Resting(q) /\ Goes(r, q)
               /\ q.record.state = "finished" /\ q.record.preset = r.record.preset
<1> DEFINE record == [r.record EXCEPT !.state = "finished", !.ends = 0]
           p == [r EXCEPT !.record.state = "finished", !.record.ends = 0]
           q == Commit(p, s, "finishSave")
<1>1. r.up /\ r.saves = <<>> /\ r.record.state = "running" /\ r.record \in Records
  BY DEF Ready, InRun, Runners
<1>2. /\ record \in Records /\ record.state = "finished" /\ record.ends = 0
      /\ record.preset = r.record.preset
  <2>1. 0 \in 0 .. MaxSteps /\ "finished" \in States
    BY BoundsAssumption DEF States
  <2>. QED  BY <1>1, <2>1 DEF Records
<1>3. /\ p.record = record /\ p.up = r.up /\ p.tasks = r.tasks /\ p.saves = r.saves
      /\ p.unsubs = r.unsubs /\ p.step_unsubs = r.step_unsubs /\ p.door_timer = r.door_timer
  BY DEF Runners
<1>4. p \in Runners
  <2>1. p = [r EXCEPT !.record = record]
    BY DEF Runners
  <2> HIDE DEF p, record
  <2>. QED  BY <1>2, <2>1 DEF Runners
<1> HIDE DEF p, record
<1>5. OnePowerOff(p) /\ CallsFree(p) /\ Orphaned(p) /\ Beside(p, s) /\ Calm(p)
  BY <1>1, <1>3 DEF Ready, InRun, OnePowerOff, CallsFree, Orphaned, Beside, Calm
<1>6. Resting(q)
  BY <1>1, <1>2, <1>3, <1>4, <1>5, CommitRests DEF Active
<1>7. Asked(p, q, s, "finishSave")
  <2>1. "finishSave" \in Pcs /\ s \in Slots
    BY Places DEF Pcs, TaskPcs
  <2>. QED  BY <1>4, <2>1, CommitWrites
<1>8. Writes(p) = <<>> /\ Writes(r) = <<>>
  BY <1>1, <1>3, <1>4, WritesType
<1>9. /\ q.record.state = "finished" /\ q.record.preset = r.record.preset /\ q.up
      /\ q.record.ends = 0
      /\ Writes(q) = Append(Writes(r), q.record)
  BY <1>1, <1>2, <1>3, <1>7, <1>8 DEF Asked
<1>10. Goes(r, q)
  BY <1>1, <1>9 DEF Goes, Asking
<1>. QED  BY <1>6, <1>9, <1>10 DEF Finished, p

\* _async_fail may be called in the task s, or abort before it.
Stoppable(r, s) ==
    /\ r.up /\ r.record.state \in Active /\ Sound(r.record) /\ CallsFree(r)
    /\ \A i \in DOMAIN r.saves : r.saves[i].by \in (Background \ {s}) \cup {Nobody}

\* What is left of a run that fails: its record, or the task s that ends it.
Halts(r, q, s) == q.record.state = "failed" \/ (Failing(q, s) /\ q.record = r.record)

\* _async_fail leaves one task, which fails the run, and nothing armed.
LEMMA FailOrdered ==
    ASSUME NEW r \in Runners, NEW s \in Background, Stoppable(r, s), NEW abort, NEW o,
           NEW after \in {"return", "unlock", "powerOff"},
           abort => r.record.state = "running"
    PROVE  LET q == Fail(r, s, abort, after, o)
           IN  /\ Ordered(q) /\ Goes(r, q) /\ Halts(r, q, s)
               /\ ~abort => q.record.state = "failed"
<1> DEFINE c == CancelTasks(r, s)
           h == ClearHandlers(c)
           q == [h EXCEPT !.tasks[s].after = after]
<1>1. s \in Slots /\ s \notin Calls /\ Background \cap Calls = {} /\ Slots = Background \cup Calls
  BY Places
<1>2. c \in Runners
  BY CancelType DEF CancelTasks, Slots
<1>3. /\ c.record = r.record /\ c.up = r.up
      /\ \A t \in Background \ {s} : c.tasks[t] = NoTask
      /\ \A t \in Calls : c.tasks[t] = r.tasks[t]
      /\ DOMAIN c.saves = DOMAIN r.saves /\ Writes(c) = Writes(r)
      /\ \A i \in DOMAIN r.saves :
            c.saves[i].by = IF r.saves[i].by \in Background \ {s} THEN Nobody ELSE r.saves[i].by
  <2>1. Cancelled(r, c, s)
    BY CancelFacts
  <2>. QED  BY <1>1, <2>1 DEF Cancelled
<1> HIDE DEF c
<1>4. Orphaned(c) /\ Alone(c, s) /\ CallsFree(c)
  BY <1>3 DEF Orphaned, Alone, CallsFree, Stoppable, NoTask
<1>5. /\ h \in Runners /\ h.record = c.record /\ h.up = c.up /\ h.tasks = c.tasks
      /\ h.saves = c.saves /\ Calm(h)
  BY <1>2, ClearHandlersType DEF ClearHandlers, ClearStepHandlers, Runners, Calm
<1> HIDE DEF h
<1>6. /\ q \in Runners /\ q.record = r.record /\ q.up = r.up /\ q.saves = c.saves /\ Calm(q)
      /\ \A t \in Slots \ {s} : q.tasks[t] = c.tasks[t]
  <2>1. h \in Runners /\ s \in Slots
    BY <1>1, <1>5
  <2>2. q \in Runners
    BY <2>1, AfterType
  <2>3. /\ q.record = h.record /\ q.up = h.up /\ q.saves = h.saves
        /\ q.unsubs = h.unsubs /\ q.step_unsubs = h.step_unsubs /\ q.door_timer = h.door_timer
        /\ \A t \in Slots \ {s} : q.tasks[t] = h.tasks[t]
    BY <2>1 DEF Runners
  <2>. QED  BY <1>3, <1>5, <2>2, <2>3 DEF Calm
<1> HIDE DEF q
<1>7. /\ Orphaned(q) /\ Alone(q, s) /\ CallsFree(q) /\ Writes(q) = Writes(r)
  BY <1>1, <1>3, <1>4, <1>6 DEF Orphaned, Alone, CallsFree, Writes
<1>8. ASSUME abort
      PROVE  LET p == At(q, s, "failPress") IN Ordered(p) /\ Goes(r, p) /\ Halts(r, p, s)
  <2> DEFINE p == At(q, s, "failPress")
  <2>1. Moved(q, p, s, {"failPress"})
    BY <1>1, <1>6, WaitMoved
  <2> HIDE DEF p
  <2>2. Alone(p, s) /\ CallsFree(p) /\ Orphaned(p) /\ Calm(p) /\ Writes(p) = Writes(r)
    BY <1>1, <1>6, <1>7, <2>1 DEF Moved, Alone, CallsFree, Orphaned, Calm, Writes
  <2>3. InRun(p)
    BY <1>1, <1>6, <1>8, <2>1, <2>2 DEF InRun, Moved, Stoppable, OnePowerOff, Alone, Calm
  <2>4. ~InBoundary(p)
    BY <2>1, <2>2 DEF InBoundary, Moved, Alone, TransitionPcs
  <2>5. Failing(p, s)
    BY <2>1, <2>2, <2>3 DEF Failing, Moved
  <2>6. Goes(r, p)
    BY <1>6, <2>1, <2>2, <2>3, <2>4 DEF Goes, Quietly, Moved, InRun, Stoppable
  <2>7. p.record = r.record
    BY <1>6, <2>1 DEF Moved
  <2>. QED  BY <2>5, <2>6, <2>7 DEF Ordered, Acting, Halts, p
<1>9. /\ Ordered(Failed(q, s)) /\ Goes(r, Failed(q, s))
      /\ Failed(q, s).record.state = "failed"
  <2>1. /\ Resting(Failed(q, s)) /\ Goes(q, Failed(q, s))
        /\ Failed(q, s).record.state = "failed"
    BY <1>6, <1>7, FailedOrdered DEF Stoppable
  <2>2. ~Quietly(q, Failed(q, s))
    <3>1. q.record \in Records /\ q.record.state \in Active
      BY <1>6 DEF Runners, Stoppable
    <3>. QED  BY <2>1, <3>1 DEF Quietly, Active, Records
  <2>3. Goes(r, Failed(q, s))
    BY <1>6, <1>7, <2>1, <2>2 DEF Goes, Asking, Stoppable
  <2>. QED  BY <2>1, <2>3 DEF Ordered
<1>. QED  BY <1>8, <1>9 DEF Fail, Halts, q, h, c

\* What a transition does between two of its awaits keeps the record and the queue.
LEMMA BoundaryGoes ==
    ASSUME NEW r \in Runners, NEW q, NEW s \in Background, Boundary(r, s), Boundary(q, s),
           q.record = r.record
    PROVE  Ordered(q) /\ Goes(r, q)
<1>1. r.saves = <<>> /\ q.saves = <<>> /\ r.up /\ q.up /\ InBoundary(r)
  BY DEF Boundary, Ready, InRun, InBoundary
<1>. QED  BY <1>1 DEF Ordered, Acting, Goes, Quietly, Writes

\* _async_run_step takes a run into the step k.
LEMMA RunStepOrdered ==
    ASSUME NEW r \in Runners, NEW s \in Background, Ready(r, s),
           NEW k \in 1 .. Len(r.record.preset), NEW o
    PROVE  /\ Boundary(RunStep(r, s, k, o), s)
           /\ RunStep(r, s, k, o).record = [r.record EXCEPT !.step_index = k]
<1> DEFINE c == ClearStepHandlers(r)
           q == [c EXCEPT !.record.step_index = k, !.transitioning = TRUE,
                          !.tasks[s] = [NoTask EXCEPT !.step = k]]
<1>1. s \in Slots /\ s \notin Calls /\ Slots = Background \cup Calls
  BY Places
<1>2. r.record.preset # <<>> /\ r.record \in Records /\ k \in 0 .. MaxSteps
  <2>1. r.record \in Records /\ r.record.preset # <<>>
    BY DEF Ready, InRun, Sound, Active, Runners
  <2>2. Len(r.record.preset) \in 1 .. MaxSteps
    BY <2>1, PresetsAssumption DEF Records
  <2>. QED  BY <2>1, <2>2, BoundsAssumption
<1>3. [NoTask EXCEPT !.step = k] \in Tasks
  BY <1>2, NoTaskType DEF Tasks
<1>4. /\ c \in Runners /\ c.record = r.record /\ c.up = r.up /\ c.tasks = r.tasks
      /\ c.saves = r.saves /\ c.unsubs = r.unsubs /\ c.step_unsubs = {} /\ ~c.door_timer
  BY ClearHandlersType DEF ClearStepHandlers, Runners
<1> HIDE DEF c
<1>5. [c.record EXCEPT !.step_index = k] \in Records
  BY <1>2, <1>4 DEF Records
<1>6. ASSUME NEW n \in Tasks
      PROVE  LET x == [c EXCEPT !.record.step_index = k, !.transitioning = TRUE,
                                !.tasks[s] = n]
             IN  /\ x \in Runners /\ x.record = [c.record EXCEPT !.step_index = k]
                 /\ x.transitioning /\ x.up = c.up /\ x.saves = c.saves /\ x.unsubs = c.unsubs
                 /\ x.step_unsubs = c.step_unsubs /\ x.door_timer = c.door_timer
                 /\ x.tasks[s] = n /\ \A t \in Slots \ {s} : x.tasks[t] = c.tasks[t]
  <2> DEFINE x == [c EXCEPT !.record.step_index = k, !.transitioning = TRUE,
                            !.tasks[s] = n]
  <2>1. /\ x.record = [c.record EXCEPT !.step_index = k]
        /\ x.transitioning /\ x.up = c.up /\ x.saves = c.saves /\ x.unsubs = c.unsubs
        /\ x.step_unsubs = c.step_unsubs /\ x.door_timer = c.door_timer
        /\ x.tasks[s] = n /\ \A t \in Slots \ {s} : x.tasks[t] = c.tasks[t]
    BY <1>1, <1>4 DEF Runners
  <2>2. x \in Runners
    BY <1>1, <1>4, <1>5 DEF Runners
  <2>. QED  BY <2>1, <2>2
<1>7. /\ q \in Runners /\ q.record = [r.record EXCEPT !.step_index = k]
      /\ q.transitioning /\ q.up = r.up /\ q.saves = r.saves /\ q.unsubs = r.unsubs
      /\ q.step_unsubs = {} /\ ~q.door_timer
      /\ q.tasks[s] = [NoTask EXCEPT !.step = k]
      /\ \A t \in Slots \ {s} : q.tasks[t] = r.tasks[t]
  <2> DEFINE n == [NoTask EXCEPT !.step = k]
  <2> HIDE DEF n
  <2>1. n \in Tasks
    BY <1>3 DEF n
  <2> DEFINE x == [c EXCEPT !.record.step_index = k, !.transitioning = TRUE, !.tasks[s] = n]
  <2>2. /\ x \in Runners /\ x.record = [c.record EXCEPT !.step_index = k]
        /\ x.transitioning /\ x.up = c.up /\ x.saves = c.saves /\ x.unsubs = c.unsubs
        /\ x.step_unsubs = c.step_unsubs /\ x.door_timer = c.door_timer
        /\ x.tasks[s] = n /\ \A t \in Slots \ {s} : x.tasks[t] = c.tasks[t]
    BY <1>6, <2>1
  <2>3. q = x
    BY DEF n
  <2> HIDE DEF x, q
  <2>. QED  BY <1>4, <2>2, <2>3 DEF n
<1> HIDE DEF q
<1>8. /\ q.tasks[s].pc = "free" /\ q.tasks[s].step = k
      /\ q.record.step_index = k /\ q.record.preset = r.record.preset
      /\ q.record.state = r.record.state
  BY <1>2, <1>7 DEF NoTask, Records
<1>9. Ready(q, s)
  <2>1. CallsFree(q) /\ Beside(q, s)
    BY <1>1, <1>7 DEF Ready, CallsFree, Beside
  <2>2. OnePowerOff(q)
    <3>1. OnePowerOff(r)
      BY DEF Ready, InRun
    <3>2. \A t \in Background : q.tasks[t].pc = "powerOff" => r.tasks[t].pc = "powerOff"
      BY <1>1, <1>7, <1>8
    <3>. QED  BY <3>1, <3>2 DEF OnePowerOff
  <2>3. Sound(q.record)
    BY <1>8 DEF Ready, InRun, Sound
  <2>. QED  BY <1>7, <1>8, <2>1, <2>2, <2>3 DEF Ready, InRun
<1>10. Moved(q, RunStep(r, s, k, o), s, TransitionPcs)
  <2>1. "stopPress" \in TransitionPcs
    BY DEF TransitionPcs
  <2>. QED  BY <1>1, <1>2, <1>7, <2>1, WaitMoved, CheckRemoteStartMoved DEF RunStep, q, c
<1>. QED  BY ZenonT(60), <1>7, <1>8, <1>9, <1>10, MovedBoundary DEF Moved

\* The run goes on to another step, or the task s ends it after the last.
LastStep(r) == r.record.step_index = Len(r.record.preset)
StepsOn(r, q, s) ==
    \/ Boundary(q, s)
    \/ /\ LastStep(r)
       /\ \/ Finishing(q, s) /\ q.record = r.record
          \/ q.record.state = "finished" /\ q.record.preset = r.record.preset

\* _async_step_done takes a run to its next step or its end.
LEMMA StepDoneOrdered ==
    ASSUME NEW r \in Runners, NEW s \in Background, Ready(r, s), NEW o
    PROVE  LET q == StepDone(r, s, o) IN Ordered(q) /\ Goes(r, q) /\ StepsOn(r, q, s)
<1>1. s \in Slots /\ s \notin Calls /\ Slots = Background \cup Calls
  BY Places
<1>2. r.record \in Records /\ HasStep(r) /\ r.up /\ r.record.state = "running"
  BY DEF Ready, InRun, Sound, Active, HasStep, Runners
<1>3. CASE r.record.step_index < Len(r.record.preset)
  <2> DEFINE k == r.record.step_index + 1
             q == RunStep(r, s, k, o)
  <2>1. k \in 1 .. Len(r.record.preset)
    <3>1. Len(r.record.preset) \in Nat /\ r.record.step_index \in Nat
      BY <1>2, PresetsAssumption, BoundsAssumption DEF HasStep, Records
    <3>. QED  BY <1>3, <3>1
  <2>2. Boundary(q, s) /\ q.record = [r.record EXCEPT !.step_index = k]
    BY <2>1, RunStepOrdered
  <2> HIDE DEF q
  <2>3. q.saves = <<>> /\ r.saves = <<>> /\ q.up
    BY <2>2 DEF Boundary, Ready, InRun
  <2>4. Ordered(q) /\ Goes(r, q)
    BY <1>2, <2>2, <2>3 DEF Ordered, Acting, Goes, Quietly, Writes
  <2>. QED  BY <1>2, <1>3, <2>2, <2>4 DEF StepDone, StepsOn, q
<1> DEFINE h == ClearHandlers(r)
<1>4. /\ h \in Runners /\ h.record = r.record /\ h.up = r.up /\ h.tasks = r.tasks
      /\ h.saves = <<>> /\ Calm(h)
  BY ClearHandlersType DEF ClearHandlers, ClearStepHandlers, Runners, Calm, Ready
<1> HIDE DEF h
<1>5. Ready(h, s)
  BY <1>4 DEF Ready, InRun, CallsFree, Beside, OnePowerOff, Calm
<1>6. LET q == At(h, s, "finishPress")
      IN  Ordered(q) /\ Goes(r, q) /\ Finishing(q, s) /\ q.record = r.record
  <2> DEFINE q == At(h, s, "finishPress")
  <2>1. Moved(h, q, s, {"finishPress"})
    BY <1>1, <1>4, WaitMoved
  <2> HIDE DEF q
  <2>2. CallsFree(q) /\ Beside(q, s) /\ Calm(q) /\ OnePowerOff(q)
    BY <1>1, <1>4, <1>5, <2>1 DEF Moved, Ready, InRun, CallsFree, Beside, Calm, OnePowerOff
  <2>3. Finishing(q, s)
    BY <1>4, <1>5, <2>1, <2>2 DEF Finishing, Ready, InRun, Moved
  <2>4. ~InBoundary(q)
    BY <2>1, <2>2 DEF InBoundary, Beside, Moved, TransitionPcs
  <2>5. q.saves = <<>> /\ r.saves = <<>> /\ q.up /\ q.record = r.record
    BY <1>2, <1>4, <2>1 DEF Moved, Ready
  <2>6. Goes(r, q)
    BY <1>2, <2>4, <2>5 DEF Goes, Quietly, Writes
  <2>. QED  BY <2>3, <2>5, <2>6 DEF Ordered, Acting, q
<1>7. LET q == Finished(h, s)
      IN  /\ Ordered(q) /\ Goes(r, q)
          /\ q.record.state = "finished" /\ q.record.preset = r.record.preset
  <2>1. Resting(Finished(h, s)) /\ Goes(h, Finished(h, s))
    BY <1>4, <1>5, FinishedOrdered
  <2>2. Writes(h) = Writes(r) /\ (InBoundary(h) => InBoundary(r))
    BY <1>4 DEF Writes, Ready, InBoundary
  <2>3. Goes(r, Finished(h, s))
    BY <1>4, <2>1, <2>2, GoesFrom
  <2>. QED  BY <1>4, <2>1, <2>3, FinishedOrdered, <1>5 DEF Ordered
<1>8. ~(r.record.step_index < Len(r.record.preset)) => LastStep(r)
  <2>1. Len(r.record.preset) \in Nat /\ r.record.step_index \in 1 .. Len(r.record.preset)
    BY <1>2, PresetsAssumption DEF HasStep, Records, Ready, InRun, Sound
  <2>. QED  BY <2>1 DEF LastStep
<1>. QED  BY <1>2, <1>3, <1>6, <1>7, <1>8 DEF StepDone, StepsOn, h

\* After a failed attempt the transition goes on, or the run fails.
LEMMA AttemptFailedOrdered ==
    ASSUME NEW r \in Runners, NEW s \in Background, Boundary(r, s), NEW o
    PROVE  LET q == AttemptFailed(r, s, o)
           IN  /\ Ordered(q) /\ Goes(r, q)
               /\ Halts(r, q, s) \/ (Boundary(q, s) /\ q.record = r.record)
<1>1. s \in Slots
  BY Places
<1>2. Stoppable(r, s) /\ r.record.state = "running"
  BY DEF Boundary, Ready, InRun, Stoppable, Active
<1>3. CASE RemoteStart(o) = "no" \/ r.tasks[s].attempt = StartAttempts
  BY <1>2, <1>3, FailOrdered DEF AttemptFailed
<1>4. CASE ~(RemoteStart(o) = "no" \/ r.tasks[s].attempt = StartAttempts)
  <2> DEFINE q == Attempt(r, s, r.tasks[s].attempt + 1, o)
  <2>1. r.tasks[s].attempt + 1 \in 0 .. StartAttempts
    BY <1>1, <1>4, CountsAssumption DEF Runners, Tasks
  <2>2. Moved(r, q, s, TransitionPcs)
    BY <1>1, <2>1, AttemptMoved
  <2> HIDE DEF q
  <2>3. Boundary(q, s) /\ q.record = r.record
    BY <2>2, MovedBoundary DEF Boundary, Moved
  <2>. QED  BY <1>4, <2>3, BoundaryGoes DEF AttemptFailed, q
<1>. QED  BY <1>3, <1>4

\* A task that returns, whatever it does of the step's handles, leaves a run that
\* nobody else acts on to its timers.
LEMMA EndReady ==
    ASSUME NEW r \in Runners, NEW s \in Background, Ready(r, s), NEW q,
           q.tasks = End(r, s).tasks, q.saves = r.saves, q.record = r.record,
           q.up = r.up, q.unsubs = r.unsubs
    PROVE  Steady(q) /\ Ordered(q) /\ Goes(r, q)
<1>1. s \in Slots /\ s \notin Calls /\ Slots = Background \cup Calls /\ Nobody \notin Slots
  BY Places
<1>2. /\ q.tasks[s].pc = "free" /\ \A t \in Slots \ {s} : q.tasks[t] = r.tasks[t]
  BY <1>1 DEF End, NoTask, Runners
<1>3. CallsFree(q) /\ Beside(q, Nobody) /\ OnePowerOff(q)
  BY <1>1, <1>2 DEF CallsFree, Beside, OnePowerOff, Ready, InRun
<1>4. Steady(q)
  BY <1>3 DEF Steady, Ready, InRun
<1>5. ~InBoundary(q)
  BY <1>1, <1>3 DEF InBoundary, Beside, TransitionPcs
<1>6. q.saves = <<>> /\ r.saves = <<>> /\ q.up
  BY DEF Ready, InRun
<1>. QED  BY <1>4, <1>5, <1>6 DEF Ordered, Goes, Quietly, Writes

\* _arm_step leaves a run with nobody acting on it, or ends a preheat at once.
LEMMA ArmStepOrdered ==
    ASSUME NEW r \in Runners, NEW s \in Background, Ready(r, s), NEW k, NEW o
    PROVE  LET q == ArmStep(r, s, k, o) IN Ordered(q) /\ Goes(r, q)
<1>1. /\ End(r, s).saves = r.saves /\ End(r, s).record = r.record /\ End(r, s).up = r.up
      /\ End(r, s).unsubs = r.unsubs /\ End(r, s) \in Runners
  BY EndType, Places DEF End, Runners
<1>2. Ordered(End(r, s)) /\ Goes(r, End(r, s))
  BY <1>1, EndReady
<1>3. ASSUME NEW h
      PROVE  LET q == [End(r, s) EXCEPT !.step_unsubs = h] IN Ordered(q) /\ Goes(r, q)
  <2> DEFINE q == [End(r, s) EXCEPT !.step_unsubs = h]
  <2>1. q.tasks = End(r, s).tasks /\ q.saves = r.saves /\ q.record = r.record
        /\ q.up = r.up /\ q.unsubs = r.unsubs
    BY <1>1 DEF Runners
  <2> HIDE DEF q
  <2>2. Ordered(q) /\ Goes(r, q)
    BY <2>1, EndReady
  <2>. QED  BY <2>2 DEF q
<1>. QED  BY <1>2, <1>3, StepDoneOrdered DEF ArmStep

\* A scheduled run may be begun in the task s.
Startable(r, s) ==
    /\ r.up /\ r.record.state = "scheduled" /\ Sound(r.record) /\ "due" \notin r.unsubs
    /\ CallsFree(r) /\ r.saves = <<>> /\ Beside(r, s) /\ OnePowerOff(r)

\* _async_begin takes it into its first step, or fails it.
LEMMA BeginOrdered ==
    ASSUME NEW r \in Runners, NEW s \in Background, Startable(r, s), NEW o, NEW home
    PROVE  LET q == Begin(r, s, o, home)
           IN  /\ Ordered(q) /\ Goes(r, q) /\ q.record.state \in {"running", "failed"}
               /\ q.record.state = "running" => Boundary(q, s)
<1> DEFINE record == [r.record EXCEPT !.state = "running", !.step_index = 1]
           p == [r EXCEPT !.record.state = "running", !.record.step_index = 1]
           g == ArmRunGuards(p)
           q == RunStep(g, s, 1, o)
<1>1. r.record \in Records /\ r.record.preset # <<>> /\ r.record.preset \in Presets
  BY DEF Startable, Sound, Active, Runners, Records
<1>2. 1 \in 1 .. Len(r.record.preset) /\ 1 \in 0 .. MaxSteps /\ "running" \in States
  <2>1. Len(r.record.preset) \in 1 .. MaxSteps
    BY <1>1, PresetsAssumption
  <2>. QED  BY <2>1, BoundsAssumption DEF States
<1>3. /\ record \in Records /\ record.state = "running" /\ record.step_index = 1
      /\ record.preset = r.record.preset
  BY <1>1, <1>2 DEF Records
<1>4. p \in Runners /\ p.record = record
  <2>1. p = [r EXCEPT !.record = record]
    BY DEF Runners
  <2> HIDE DEF record, p
  <2>. QED  BY <1>3, <2>1 DEF Runners
<1>5. /\ p.up = r.up /\ p.unsubs = r.unsubs /\ p.tasks = r.tasks /\ p.saves = r.saves
  BY DEF Runners
<1> HIDE DEF p, record
<1>6. /\ g \in Runners /\ g.record = record /\ g.up = r.up /\ "due" \notin g.unsubs
      /\ g.tasks = r.tasks /\ g.saves = <<>>
  BY <1>4, <1>5, ArmRunGuardsType DEF ArmRunGuards, Runners, Startable
<1> HIDE DEF g
<1>7. Ready(g, s)
  BY <1>1, <1>2, <1>3, <1>6
     DEF Ready, InRun, Sound, CallsFree, Beside, OnePowerOff, Startable
<1>8. Boundary(q, s) /\ q.record = [record EXCEPT !.step_index = 1]
  <2>1. 1 \in 1 .. Len(g.record.preset)
    BY <1>2, <1>3, <1>6
  <2>2. Boundary(q, s) /\ q.record = [g.record EXCEPT !.step_index = 1]
    <3>1. g \in Runners /\ Ready(g, s)
      BY <1>6, <1>7
    <3>2. \A x \in Runners : Ready(x, s) => \A k \in 1 .. Len(x.record.preset) :
             /\ Boundary(RunStep(x, s, k, o), s)
             /\ RunStep(x, s, k, o).record = [x.record EXCEPT !.step_index = k]
      BY RunStepOrdered
    <3>. QED  BY <2>1, <3>1, <3>2
  <2> HIDE DEF q
  <2>. QED  BY <1>6, <2>2
<1>9. q.record = record
  BY <1>3, <1>8 DEF Records
<1> HIDE DEF q
<1>10. q.up /\ r.up /\ q.saves = <<>> /\ r.saves = <<>> /\ r.record.state = "scheduled"
  BY <1>8 DEF Boundary, Ready, InRun, Startable
<1>11. Ordered(q) /\ Goes(r, q) /\ q.record.state = "running"
  BY <1>3, <1>8, <1>9, <1>10 DEF Ordered, Acting, Goes, Quietly, Writes, record
<1>12. Stoppable(r, s)
  BY DEF Stoppable, Startable, Active
<1>13. LET x == Fail(r, s, FALSE, "return", o)
       IN  Ordered(x) /\ Goes(r, x) /\ x.record.state = "failed"
  BY <1>12, FailOrdered
<1>14. q.record.state = "running" => Boundary(q, s)
  BY <1>8
<1>. QED  BY <1>11, <1>13, <1>14 DEF Begin, q, g, p

-----------------------------------------------------------------------------
(* Which situation it is.                                                  *)

\* Where a task waits says which situation the runner is in.
LEMMA WhichByTask ==
    ASSUME NEW r \in Runners, Ordered(r), NEW s \in Background
    PROVE  /\ r.tasks[s].pc \in TransitionPcs => Boundary(r, s)
           /\ r.tasks[s].pc = "stepSave" => Saving(r, s)
           /\ r.tasks[s].pc = "failPress" => Failing(r, s)
           /\ r.tasks[s].pc = "finishPress" => Finishing(r, s)
           /\ r.tasks[s].pc = "recoverWait" => Recovering(r, s)
           /\ r.tasks[s].pc \in {"failSave", "finishSave"} => Resting(r)
           /\ r.tasks[s].pc \notin {"runSave", "runNowSave", "abortSave"}
<1>1. s # Nobody /\ s \in Slots
  BY Places
<1>2. ASSUME NEW t \in Background, t # s, Acting(r, t)
      PROVE  r.tasks[s].pc \in {"free", "powerOff"}
  BY <1>2 DEF Acting, Boundary, Saving, Failing, Finishing, Recovering, Ready, Beside, Alone
<1>3. CASE Steady(r) \/ Aborting(r)
  BY <1>1, <1>3 DEF Steady, Aborting, Ready, Beside, Alone, TransitionPcs
<1>4. CASE Resting(r)
  BY <1>4 DEF Resting, TransitionPcs
<1>5. CASE Acting(r, s)
  BY <1>5 DEF Acting, Boundary, Saving, Failing, Finishing, Recovering, TransitionPcs
<1>6. CASE \E t \in Background : t # s /\ Acting(r, t)
  BY <1>2, <1>6 DEF TransitionPcs
<1>. QED  BY <1>3, <1>4, <1>5, <1>6 DEF Ordered

\* So does where a service call waits.
LEMMA WhichByCall ==
    ASSUME NEW r \in Runners, Ordered(r), NEW c \in Calls
    PROVE  /\ r.tasks[c].pc = "abortPress" => Aborting(r)
           /\ r.tasks[c].pc \in {"runSave", "runNowSave", "abortSave"} => Resting(r)
           /\ r.tasks[c].pc \in CallPcs
<1>1. ASSUME NEW t \in Background, Acting(r, t)
      PROVE  r.tasks[c].pc = "free"
  BY <1>1 DEF Acting, Boundary, Saving, Failing, Finishing, Recovering, Ready, CallsFree
<1>2. CASE Steady(r) \/ Aborting(r)
  BY <1>2 DEF Steady, Aborting, Ready, CallsFree, CallPcs
<1>3. CASE Resting(r)
  BY <1>3 DEF Resting, CallPcs
<1>. QED  BY <1>1, <1>2, <1>3 DEF Ordered, CallPcs

\* So does what is armed.
LEMMA WhichByHandles ==
    ASSUME NEW r \in Runners, Ordered(r)
    PROVE  /\ r.record.state # "running" => Resting(r)
           /\ "due" \in r.unsubs => Resting(r) /\ r.record.state = "scheduled"
           /\ r.step_unsubs # {} => Steady(r)
           /\ Listening(r) => Steady(r) \/ \E t \in Background : Saving(r, t)
           /\ r.door_timer => Steady(r) \/ \E t \in Background : Saving(r, t)
           /\ "max" \in r.unsubs => \/ Steady(r)
                                    \/ \E t \in Background : Saving(r, t) \/ Boundary(r, t)
<1>1. ASSUME NEW t \in Background, Acting(r, t), ~Boundary(r, t), ~Saving(r, t)
      PROVE  r.record.state = "running" /\ Calm(r)
  BY <1>1 DEF Acting, Failing, Finishing, Recovering, Ready, InRun
<1>2. ASSUME NEW t \in Background, Boundary(r, t)
      PROVE  /\ r.record.state = "running" /\ "due" \notin r.unsubs /\ r.step_unsubs = {}
             /\ ~r.door_timer /\ r.transitioning
  BY <1>2 DEF Boundary, Ready, InRun
<1>3. ASSUME NEW t \in Background, Saving(r, t)
      PROVE  r.record.state = "running" /\ "due" \notin r.unsubs /\ r.step_unsubs = {}
  BY <1>3 DEF Saving, InRun
<1>4. Aborting(r) => r.record.state = "running" /\ Calm(r)
  BY DEF Aborting, InRun
<1>5. Steady(r) => r.record.state = "running" /\ "due" \notin r.unsubs
  BY DEF Steady, Ready, InRun
<1>6. Resting(r) => /\ r.record.state # "running" /\ r.unsubs \subseteq {"due"}
                    /\ r.step_unsubs = {} /\ ~r.door_timer
                    /\ "due" \in r.unsubs => r.record.state = "scheduled"
  BY DEF Resting
<1>. QED  BY <1>1, <1>2, <1>3, <1>4, <1>5, <1>6 DEF Ordered, Calm, Listening

\* A runner that is not up is a new one.
LEMMA DownIsNew ==
    ASSUME NEW r \in Runners, Ordered(r), ~r.up
    PROVE  r = NewRunner
  BY DEF Ordered, Acting, Boundary, Saving, Failing, Finishing, Recovering, Steady, Aborting,
         Resting, Ready, InRun

\* A task of a run that nobody else acts on, or that is only saved, may fail it.
LEMMA RunStoppable ==
    ASSUME NEW r \in Runners, NEW s \in Background,
           \/ Ready(r, s) \/ Steady(r)
           \/ \E t \in Background \ {s} : Saving(r, t) \/ Boundary(r, t)
    PROVE  Stoppable(r, s) /\ r.record.state = "running"
<1>1. ASSUME NEW t \in Background \ {s}, Saving(r, t)
      PROVE  Stoppable(r, s) /\ r.record.state = "running"
  <2>1. DOMAIN r.saves = {1} /\ r.saves[1].by = t
    BY <1>1 DEF Saving
  <2>. QED  BY <1>1, <2>1 DEF Saving, InRun, Stoppable, Active
<1>2. CASE r.saves = <<>> /\ InRun(r) /\ CallsFree(r)
  BY <1>2 DEF InRun, Stoppable, Active
<1>. QED  BY <1>1, <1>2 DEF Ready, Steady, Boundary

\* q is r but for what its tasks have been told.
Alike(r, q) ==
    /\ q.up = r.up /\ q.record = r.record /\ q.transitioning = r.transitioning
    /\ q.unsubs = r.unsubs /\ q.step_unsubs = r.step_unsubs
    /\ q.door_timer = r.door_timer /\ q.saves = r.saves
    /\ \A t \in Slots : q.tasks[t].pc = r.tasks[t].pc /\ q.tasks[t].step = r.tasks[t].step

\* Then they are in the same situation.
LEMMA AlikeOrdered ==
    ASSUME NEW r \in Runners, NEW q, Alike(r, q), Ordered(r), r.up \/ q = r
    PROVE  Ordered(q) /\ (r.up => Goes(r, q))
<1>1. Background \subseteq Slots /\ Calls \subseteq Slots
  BY Places
<1>2. /\ \A s : Beside(q, s) = Beside(r, s) /\ Alone(q, s) = Alone(r, s)
      /\ CallsFree(q) = CallsFree(r) /\ OnePowerOff(q) = OnePowerOff(r)
      /\ Calm(q) = Calm(r) /\ Orphaned(q) = Orphaned(r)
  BY <1>1 DEF Alike, Beside, Alone, CallsFree, OnePowerOff, Calm, Orphaned
<1>3. InRun(q) = InRun(r)
  BY <1>2 DEF InRun, Alike
<1>4. \A s : Ready(q, s) = Ready(r, s)
  BY <1>2, <1>3 DEF Ready, Alike
<1>5. ASSUME NEW s \in Background, Acting(r, s) PROVE Acting(q, s)
  <2>1. q.tasks[s].pc = r.tasks[s].pc /\ q.tasks[s].step = r.tasks[s].step
    BY <1>1 DEF Alike
  <2>2. Boundary(r, s) => Boundary(q, s)
    BY <1>4, <2>1 DEF Boundary, Alike
  <2>3. Saving(r, s) => Saving(q, s)
    BY <1>2, <1>3, <2>1 DEF Saving, Alike
  <2>4. /\ Failing(r, s) => Failing(q, s)
        /\ Finishing(r, s) => Finishing(q, s)
        /\ Recovering(r, s) => Recovering(q, s)
    BY <1>2, <1>3, <1>4, <2>1 DEF Failing, Finishing, Recovering
  <2>. QED  BY <1>5, <2>2, <2>3, <2>4 DEF Acting
<1>6. Steady(r) => Steady(q)
  BY <1>4 DEF Steady
<1>7. Aborting(r) => Aborting(q)
  BY <1>1, <1>2, <1>3 DEF Aborting, Alike
<1>8. ASSUME Resting(r) PROVE Resting(q)
  <2>1. Owned(q)
    <3>1. \A i \in DOMAIN r.saves : r.saves[i].by # Nobody => r.saves[i].by \in Slots
      BY WritesType
    <3>. QED  BY <1>8, <3>1 DEF Resting, Owned, Alike
  <2>2. r.record.state = "scheduled" => Attended(q)
    BY <1>1, <1>8 DEF Resting, Attended, Alike
  <2>3. ~q.up => q = NewRunner
    BY <1>8 DEF Resting, Alike
  <2>4. \A s \in Background :
            /\ q.tasks[s].pc \in {"free", "powerOff", "failSave", "finishSave"}
            /\ q.tasks[s].pc = "finishSave" => Beside(q, s)
            /\ q.tasks[s].pc = "failSave" => Alone(q, s)
    BY <1>1, <1>2, <1>8 DEF Resting, Alike
  <2>5. \A c \in Calls :
            /\ q.tasks[c].pc \in {"free", "runSave", "runNowSave", "abortSave"}
            /\ r.record.state # "scheduled" => q.tasks[c].pc # "runNowSave"
    BY <1>1, <1>8 DEF Resting, Alike
  <2>6. /\ q.record = r.record /\ q.unsubs = r.unsubs /\ q.step_unsubs = r.step_unsubs
        /\ q.door_timer = r.door_timer
    BY DEF Alike
  <2>. QED  BY <1>2, <1>8, <2>1, <2>2, <2>3, <2>4, <2>5, <2>6 DEF Resting
<1>9. Ordered(q)
  BY <1>5, <1>6, <1>7, <1>8 DEF Ordered
<1>10. r.up => Goes(r, q)
  BY <1>1 DEF Alike, Goes, Quietly, InBoundary, Writes
<1>. QED  BY <1>9, <1>10

\* Resolving futures leaves the situation as it is.
LEMMA WakeOrdered ==
    ASSUME NEW r \in Runners, Ordered(r), NEW o
    PROVE  /\ Alike(r, Wake(r, o)) /\ Ordered(Wake(r, o)) /\ (r.up => Goes(r, Wake(r, o)))
           /\ ~r.up => Wake(r, o) = r
<1> DEFINE tasks == [t \in Slots |-> [r.tasks[t] EXCEPT !.woken = @ \/ Holds(r.tasks[t].pc, o)]]
           q == Wake(r, o)
<1>1. \A t \in Slots : tasks[t].pc = r.tasks[t].pc /\ tasks[t].step = r.tasks[t].step
  BY DEF Runners, Tasks
<1>2. ~r.up => tasks = r.tasks
  <2> SUFFICES ASSUME ~r.up PROVE tasks = r.tasks
    OBVIOUS
  <2>1. r = NewRunner
    BY DownIsNew
  <2>2. r.tasks = [t \in Slots |-> NoTask]
    BY <2>1 DEF NewRunner
  <2>3. [NoTask EXCEPT !.woken = @ \/ Holds("free", o)] = NoTask
    <3>1. ~Holds("free", o)
      BY DEF Holds
    <3>2. (NoTask.woken \/ Holds("free", o)) = FALSE
      BY <3>1 DEF NoTask
    <3>3. [NoTask EXCEPT !.woken = FALSE] = NoTask
      <4>1. \A x \in Tasks : x.woken = FALSE => [x EXCEPT !.woken = FALSE] = x
        BY DEF Tasks
      <4>2. NoTask.woken = FALSE
        BY DEF NoTask
      <4>. QED  BY <4>1, <4>2, NoTaskType
    <3>. QED  BY <3>2, <3>3
  <2>4. \A t \in Slots : [r.tasks[t] EXCEPT !.woken = @ \/ Holds(r.tasks[t].pc, o)] = NoTask
    BY <2>2, <2>3 DEF NoTask
  <2>. QED  BY <2>2, <2>4
<1> HIDE DEF tasks
<1>3. q = [r EXCEPT !.tasks = tasks]
  BY DEF Wake, tasks
<1> HIDE DEF q
<1>4. Alike(r, q)
  BY <1>1, <1>3 DEF Alike, Runners
<1>5. ~r.up => q = r
  BY <1>2, <1>3 DEF Runners
<1>6. Ordered(q) /\ (r.up => Goes(r, q))
  BY <1>4, <1>5, AlikeOrdered
<1>. QED  BY <1>4, <1>5, <1>6 DEF q

-----------------------------------------------------------------------------
(* The listeners.                                                          *)

\* A running step that is being saved has not come near its end.
SavesStep(r) ==
    /\ r.record.state = "running" /\ r.record.ends # 0
    /\ Writes(r) # <<>> /\ Writes(r)[Len(Writes(r))] = r.record
Fresh(r) == SavesStep(r) => clock.step[r.record.ends] = "early"

\* What the listeners do of the oven's operation and temperature.
LEMMA CheckOrdered ==
    ASSUME NEW r \in Runners, Ordered(r), Fresh(r), HasSlot(r), r.up, NEW o
    PROVE  /\ Ordered(CheckOperation(r, o)) /\ Goes(r, CheckOperation(r, o))
           /\ Ordered(CheckTemperature(r, o)) /\ Goes(r, CheckTemperature(r, o))
<1> DEFINE n == NewTask(r)
<1>1. n \in Background /\ r.tasks[n].pc = "free"
  BY NewTaskFree
<1> HIDE DEF n
<1>2. Goes(r, r)
  BY DEF Goes, Quietly
<1>3. Steady(r) => Ready(r, n)
  BY Places DEF Steady, Ready, Beside
<1>4. Ordered(CheckOperation(r, o)) /\ Goes(r, CheckOperation(r, o))
  <2>1. CASE ~Listening(r) \/ Operation(o) # "idle"
    BY <1>2, <2>1 DEF CheckOperation
  <2>2. CASE Listening(r) /\ Operation(o) = "idle"
    <3>1. Steady(r) \/ \E t \in Background \ {n} : Saving(r, t)
      BY <1>1, <2>2, WhichByHandles DEF Saving
    <3>2. InSlack(r) => ~\E t \in Background : Saving(r, t)
      <4> SUFFICES ASSUME NEW t \in Background, Saving(r, t) PROVE ~InSlack(r)
        OBVIOUS
      <4>1. Len(r.saves) = 1 /\ r.saves[1].record = r.record
        BY DEF Saving
      <4>2. Len(Writes(r)) = 1 /\ Writes(r)[1] = r.record /\ Writes(r) # <<>>
        BY <4>1, WritesType, EmptySeq, LenProperties DEF Writes
      <4>. QED  BY <4>2 DEF Fresh, SavesStep, InSlack, HasStep
    <3>3. InSlack(r) => LET q == StepDone(r, n, o) IN Ordered(q) /\ Goes(r, q)
      BY <1>1, <1>3, <3>1, <3>2, StepDoneOrdered
    <3>4. Stoppable(r, n)
      BY <1>1, <3>1, RunStoppable
    <3>5. LET q == Fail(r, n, FALSE, "return", o) IN Ordered(q) /\ Goes(r, q)
      BY <1>1, <3>4, FailOrdered
    <3>. QED  BY <2>2, <3>3, <3>5 DEF CheckOperation, n
  <2>. QED  BY <2>1, <2>2
<1>5. Ordered(CheckTemperature(r, o)) /\ Goes(r, CheckTemperature(r, o))
  <2>1. CASE r.step_unsubs = {}
    BY <1>2, <2>1 DEF CheckTemperature
  <2>2. CASE r.step_unsubs # {}
    <3>1. Ready(r, n)
      BY <1>3, <2>2, WhichByHandles
    <3>2. LET q == StepDone(r, n, o) IN Ordered(q) /\ Goes(r, q)
      BY <1>1, <3>1, StepDoneOrdered
    <3>. QED  BY <1>2, <3>2 DEF CheckTemperature, n
  <2>. QED  BY <2>1, <2>2
<1>. QED  BY <1>4, <1>5

\* The door only starts and stops its timer.
LEMMA CheckDoorOrdered ==
    ASSUME NEW r \in Runners, Ordered(r), r.up, NEW o
    PROVE  Ordered(CheckDoor(r, o)) /\ Goes(r, CheckDoor(r, o))
<1>1. CASE ~Listening(r)
  BY <1>1 DEF CheckDoor, Goes, Quietly
<1>2. CASE Listening(r)
  <2> DEFINE q == CheckDoor(r, o)
  <2>1. /\ q.up = r.up /\ q.record = r.record /\ q.unsubs = r.unsubs /\ q.saves = r.saves
        /\ q.step_unsubs = r.step_unsubs /\ q.tasks = r.tasks
    BY <1>2 DEF CheckDoor, Runners
  <2> HIDE DEF q
  <2>2. Steady(r) => Steady(q)
    BY <2>1 DEF Steady, Ready, InRun, CallsFree, Beside, OnePowerOff
  <2>3. \A t \in Background : Saving(r, t) => Saving(q, t)
    BY <2>1 DEF Saving, InRun, CallsFree, Beside, OnePowerOff
  <2>4. Ordered(q)
    BY <1>2, <2>2, <2>3, WhichByHandles DEF Ordered, Acting
  <2>5. Goes(r, q)
    BY <2>1 DEF Goes, Quietly, InBoundary, Writes
  <2>. QED  BY <2>4, <2>5 DEF q
<1>. QED  BY <1>1, <1>2

\* The listeners leave an order, and go on as a run may.
LEMMA ObserveOrdered ==
    ASSUME TypeOK, Ordered(runner), Fresh(runner), Observe
    PROVE  /\ Ordered(runner') /\ UNCHANGED disk
           /\ runner.up => Goes(runner, runner')
           /\ ~runner.up => runner' = runner
<1> DEFINE w == Wake(runner, oven')
<1>1. runner \in Runners /\ w \in Runners
  BY WakeType DEF TypeOK
<1>2. /\ Alike(runner, w) /\ Ordered(w) /\ (runner.up => Goes(runner, w))
      /\ ~runner.up => w = runner
  BY <1>1, WakeOrdered
<1> HIDE DEF w
<1>3. Background \subseteq Slots
  BY Places
<1>4. Free(w) = Free(runner) /\ Fresh(w) /\ w.up = runner.up
  BY <1>2, <1>3 DEF Free, Alike, Fresh, SavesStep, Writes
<1>5. \A q : Goes(w, q) => Goes(runner, q)
  BY <1>2, <1>3, GoesFrom DEF Alike, InBoundary, Writes
<1>6. ~runner.up => ~Listening(runner) /\ ~Listening(w) /\ runner.step_unsubs = {}
  <2>1. ASSUME ~runner.up PROVE runner = NewRunner /\ w = runner
    BY <1>1, <1>2, <2>1, DownIsNew
  <2>. QED  BY <2>1 DEF NewRunner, NoRecord, Listening
<1>7. CASE OnOperation
  <2>1. HasSlot(w)
    BY <1>4, <1>7 DEF OnOperation, HasSlot
  <2>2. CASE runner.up
    BY <1>1, <1>2, <1>4, <1>5, <1>7, <2>1, <2>2, CheckOrdered DEF OnOperation, w
  <2>3. CASE ~runner.up
    BY <1>2, <1>6, <1>7, <2>3 DEF OnOperation, CheckOperation, w
  <2>. QED  BY <2>2, <2>3
<1>8. CASE OnLinkDrop
  <2>1. runner' = w \/ runner' = CheckDoor(w, oven')
    BY <1>8 DEF OnLinkDrop, w
  <2>2. CASE runner.up
    BY <1>1, <1>2, <1>4, <1>5, <1>8, <2>1, <2>2, CheckDoorOrdered DEF OnLinkDrop
  <2>3. CASE ~runner.up
    BY <1>2, <1>6, <1>8, <2>1, <2>3 DEF OnLinkDrop, CheckDoor
  <2>. QED  BY <2>2, <2>3
<1>9. CASE OnDoor
  <2>1. CASE runner.up
    BY <1>1, <1>9, <2>1, CheckDoorOrdered DEF OnDoor
  <2>2. CASE ~runner.up
    BY <1>6, <1>9, <2>2 DEF OnDoor, CheckDoor
  <2>. QED  BY <2>1, <2>2
<1>10. CASE OnRemoteStart
  BY <1>2, <1>10 DEF OnRemoteStart, w
<1>11. CASE OnTemperature
  <2>1. CASE runner.up
    BY <1>1, <1>11, <2>1, CheckOrdered DEF OnTemperature
  <2>2. CASE ~runner.up
    BY <1>6, <1>11, <2>2 DEF OnTemperature, CheckTemperature
  <2>. QED  BY <2>1, <2>2
<1>. QED  BY <1>7, <1>8, <1>9, <1>10, <1>11 DEF Observe

-----------------------------------------------------------------------------
(* The awaits of the background tasks.                                     *)

\* A transition whose await ends goes on, fails, or has its step running.
LEMMA TransitionOrdered ==
    ASSUME TypeOK, Ordered(runner), NEW s \in Background,
           \/ StopPress(s) \/ StopWait(s) \/ RemoteWait(s) \/ Dial(s) \/ StartPress(s)
           \/ StartTimesOut(s) \/ StepStarts(s)
    PROVE  /\ Ordered(runner') /\ UNCHANGED disk
           /\ \/ Goes(runner, runner')
              \/ StepStarts(s) /\ Starts(runner, runner')
<1>1. runner \in Runners /\ s \in Slots /\ 1 \in 0 .. StartAttempts
  BY CountsAssumption, Places DEF TypeOK
<1>2. Boundary(runner, s)
  <2>1. runner.tasks[s].pc \in TransitionPcs
    BY DEF StopPress, StopWait, RemoteWait, Dial, StartPress, StartTimesOut, StepStarts,
           Is, TransitionPcs, Dials
  <2>. QED  BY <1>1, <2>1, WhichByTask
<1>3. Ready(runner, s) /\ Stoppable(runner, s) /\ runner.record.state = "running"
  BY <1>1, <1>2, RunStoppable DEF Boundary
<1>4. ASSUME NEW q, Moved(runner, q, s, TransitionPcs)
      PROVE  Ordered(q) /\ Goes(runner, q)
  BY <1>1, <1>2, <1>4, MovedBoundary, BoundaryGoes DEF Boundary, Moved
<1>5. \A o : \A pc \in TransitionPcs :
         Ordered(Wait(runner, s, pc, o)) /\ Goes(runner, Wait(runner, s, pc, o))
  BY <1>1, <1>4, WaitMoved
<1>6. \A o : LET q == Fail(runner, s, TRUE, "unlock", o) IN Ordered(q) /\ Goes(runner, q)
  BY <1>1, <1>3, FailOrdered
<1>7. \A o : LET q == AttemptFailed(runner, s, o) IN Ordered(q) /\ Goes(runner, q)
  BY <1>1, <1>2, AttemptFailedOrdered
<1>8. CASE StopPress(s)
  <2> DEFINE q == [End(runner, s) EXCEPT !.transitioning = FALSE]
  <2>1. /\ q.tasks = End(runner, s).tasks /\ q.saves = runner.saves
        /\ q.record = runner.record /\ q.up = runner.up /\ q.unsubs = runner.unsubs
    BY <1>1 DEF End, Runners
  <2> HIDE DEF q
  <2>2. Ordered(q) /\ Goes(runner, q)
    BY <1>1, <1>3, <2>1, EndReady
  <2>. QED  BY <1>5, <1>8, <2>2 DEF StopPress, TransitionPcs, q
<1>9. CASE StopWait(s)
  <2>1. \A o : LET q == CheckRemoteStart(runner, s, o) IN Ordered(q) /\ Goes(runner, q)
    BY <1>1, <1>4, CheckRemoteStartMoved
  <2>. QED  BY <1>6, <1>9, <2>1 DEF StopWait
<1>10. CASE RemoteWait(s)
  <2>1. \A o : LET q == Attempt(runner, s, 1, o) IN Ordered(q) /\ Goes(runner, q)
    BY <1>1, <1>4, AttemptMoved
  <2>. QED  BY <1>6, <1>10, <2>1 DEF RemoteWait
<1>11. CASE Dial(s)
  <2>1. \A k, pc, o : NextDial(runner, k, pc) \in TransitionPcs
    BY DEF NextDial, TransitionPcs
  <2>2. \A k, pc, o : LET q == Issue(runner, s, NextDial(runner, k, pc), o)
                      IN  Ordered(q) /\ Goes(runner, q)
    BY <1>1, <1>4, <2>1, IssueMoved
  <2>. QED  BY <1>7, <1>11, <2>2 DEF Dial
<1>12. CASE StartPress(s)
  BY <1>5, <1>7, <1>12 DEF StartPress, TransitionPcs
<1>13. CASE StartTimesOut(s)
  BY <1>7, <1>13 DEF StartTimesOut
<1>14. CASE StepStarts(s)
  <2> DEFINE k == runner.tasks[s].step
             q == [runner EXCEPT !.transitioning = FALSE]
             ends == IF StepAt(q, k).kind = "hold" THEN 0 ELSE k
             p == [q EXCEPT !.record.ends = ends]
             c == Commit(p, s, "stepSave")
             record == [runner.record EXCEPT !.ends = ends]
  <2>1. ends \in 0 .. MaxSteps
    BY <1>1, BoundsAssumption DEF Runners, Tasks
  <2> HIDE DEF ends
  <2>2. runner.record \in Records /\ record \in Records
    BY <1>1, <2>1 DEF Runners, Records
  <2>3. /\ p.record = record /\ p.up = runner.up /\ p.unsubs = runner.unsubs
        /\ p.step_unsubs = runner.step_unsubs /\ p.tasks = runner.tasks
        /\ p.saves = runner.saves /\ p \in Runners
    <3>1. p = [runner EXCEPT !.transitioning = FALSE, !.record = record]
      BY <1>1 DEF Runners
    <3> HIDE DEF p, record
    <3>. QED  BY <1>1, <2>2, <3>1 DEF Runners
  <2>4. record.state = "running" /\ record.step_index = runner.record.step_index
        /\ record.preset = runner.record.preset
    BY <1>3, <2>2 DEF Records
  <2> HIDE DEF p
  <2>5. Asked(p, c, s, "stepSave")
    <3>1. "stepSave" \in Pcs
      BY DEF Pcs, TaskPcs
    <3>. QED  BY <1>1, <2>3, <3>1, CommitWrites
  <2> HIDE DEF c
  <2>6. c.saves = <<[record |-> c.record, by |-> s]>>
    BY <1>3, <2>3, <2>5 DEF Asked, Ready
  <2>7. \A t \in Slots \ {s} : c.tasks[t] = runner.tasks[t]
    BY <2>3, <2>5 DEF Asked
  <2>8. CallsFree(c) /\ Beside(c, s) /\ OnePowerOff(c)
    BY <1>3, <2>5, <2>7, Places DEF CallsFree, Beside, OnePowerOff, Ready, InRun, Asked
  <2>9. Sound(c.record) /\ c.record.state = "running" /\ c.record.step_index = runner.record.step_index
    BY <1>3, <2>3, <2>4, <2>5 DEF Asked, Sound, Ready, InRun
  <2>10. InRun(c)
    BY <1>3, <2>3, <2>5, <2>8, <2>9 DEF InRun, Asked, Ready
  <2>11. Saving(c, s)
    BY <1>2, <2>3, <2>5, <2>6, <2>8, <2>9, <2>10 DEF Saving, Asked, Boundary
  <2>12. ~InBoundary(c)
    BY <2>5, <2>8 DEF InBoundary, Beside, Asked, TransitionPcs
  <2>13. Writes(p) = <<>> /\ Writes(runner) = <<>>
    BY <1>1, <1>3, <2>3, WritesType DEF Ready
  <2>14. Starts(runner, c)
    BY <1>3, <2>1, <2>3, <2>5, <2>12, <2>13 DEF Starts, Asked, Ready, InRun, record
  <2>15. runner' = c
    BY <1>3, <1>14 DEF StepStarts, c, p, ends
  <2>. QED  BY <1>14, <2>11, <2>14, <2>15 DEF Ordered, Acting, StepStarts
<1>15. UNCHANGED disk
  BY DEF StopPress, StopWait, RemoteWait, Dial, StartPress, StartTimesOut, StepStarts
<1>. QED  BY <1>8, <1>9, <1>10, <1>11, <1>12, <1>13, <1>14, <1>15

\* A task that switched the oven off returns from beside whatever else is going on.
LEMMA PowerOffOrdered ==
    ASSUME NEW r \in Runners, Ordered(r), NEW s \in Background, r.tasks[s].pc = "powerOff"
    PROVE  Ordered(End(r, s)) /\ Goes(r, End(r, s))
<1> DEFINE q == End(r, s)
<1>1. s \in Slots /\ s \notin Calls /\ Slots = Background \cup Calls
  BY Places
<1>2. /\ q.up = r.up /\ q.record = r.record /\ q.transitioning = r.transitioning
      /\ q.unsubs = r.unsubs /\ q.step_unsubs = r.step_unsubs
      /\ q.door_timer = r.door_timer /\ q.saves = r.saves /\ q.tasks[s].pc = "free"
      /\ \A t \in Slots \ {s} : q.tasks[t] = r.tasks[t]
  BY <1>1 DEF End, NoTask, Runners
<1> HIDE DEF q
<1>3. r.up
  <2>1. NewRunner.tasks[s].pc = "free"
    BY <1>1 DEF NewRunner, NoTask
  <2>. QED  BY <2>1, DownIsNew
<1>4. /\ \A t : (Beside(r, t) => Beside(q, t)) /\ (Alone(r, t) => Alone(q, t))
      /\ CallsFree(r) => CallsFree(q)
      /\ OnePowerOff(r) => OnePowerOff(q)
      /\ Calm(r) => Calm(q)
      /\ Orphaned(r) => Orphaned(q)
  BY <1>1, <1>2 DEF Beside, Alone, CallsFree, OnePowerOff, Calm, Orphaned
<1>5. InRun(r) => InRun(q)
  BY <1>2, <1>4 DEF InRun
<1>6. \A t : Ready(r, t) => Ready(q, t)
  BY <1>2, <1>4, <1>5 DEF Ready
<1>7. ASSUME NEW t \in Background, Acting(r, t) PROVE Acting(q, t)
  <2>1. t # s
    BY <1>7 DEF Acting, Boundary, Saving, Failing, Finishing, Recovering, TransitionPcs
  <2>2. q.tasks[t] = r.tasks[t]
    BY <1>1, <1>2, <2>1
  <2>3. Boundary(r, t) => Boundary(q, t)
    BY <1>2, <1>6, <2>2 DEF Boundary
  <2>4. Saving(r, t) => Saving(q, t)
    BY <1>2, <1>4, <1>5, <2>2 DEF Saving
  <2>5. /\ Failing(r, t) => Failing(q, t)
        /\ Finishing(r, t) => Finishing(q, t)
        /\ Recovering(r, t) => Recovering(q, t)
    BY <1>4, <1>5, <1>6, <2>2 DEF Failing, Finishing, Recovering
  <2>. QED  BY <1>7, <2>3, <2>4, <2>5 DEF Acting
<1>8. Steady(r) => Steady(q)
  BY <1>6 DEF Steady
<1>9. ~Aborting(r)
  BY Places DEF Aborting, Alone
<1>10. ASSUME Resting(r) PROVE Resting(q)
  <2>1. Owned(q)
    <3>1. \A i \in DOMAIN r.saves : r.saves[i].by # Nobody => r.saves[i].by \in Slots \ {s}
      BY <1>10, WritesType DEF Resting, Owned, SavePcs
    <3>. QED  BY <1>2, <1>10, <3>1 DEF Resting, Owned, SavePcs
  <2>2. r.record.state = "scheduled" => Attended(q)
    BY <1>1, <1>2, <1>10 DEF Resting, Attended
  <2>3. \A t \in Background :
            /\ q.tasks[t].pc \in {"free", "powerOff", "failSave", "finishSave"}
            /\ q.tasks[t].pc = "finishSave" => Beside(q, t)
            /\ q.tasks[t].pc = "failSave" => Alone(q, t)
    BY <1>1, <1>2, <1>4, <1>10 DEF Resting
  <2>4. \A c \in Calls :
            /\ q.tasks[c].pc \in {"free", "runSave", "runNowSave", "abortSave"}
            /\ r.record.state # "scheduled" => q.tasks[c].pc # "runNowSave"
    BY <1>1, <1>2, <1>10 DEF Resting
  <2>. QED  BY <1>2, <1>3, <1>4, <1>10, <2>1, <2>2, <2>3, <2>4 DEF Resting
<1>11. Ordered(q)
  BY <1>7, <1>8, <1>9, <1>10 DEF Ordered
<1>12. Goes(r, q)
  BY <1>1, <1>2, <1>3 DEF Goes, Quietly, InBoundary, Writes, TransitionPcs
<1>. QED  BY <1>11, <1>12 DEF q

\* A restarted runner that has heard of its oven arms its guards and goes on.
LEMMA RecoverWaitOrdered ==
    ASSUME TypeOK, Ordered(runner), NEW s \in Background, RecoverWait(s)
    PROVE  Ordered(runner') /\ Goes(runner, runner')
<1> DEFINE g == ArmRunGuards(runner)
<1>1. runner \in Runners /\ g \in Runners
  BY ArmRunGuardsType DEF TypeOK
<1>2. Ready(runner, s) /\ runner.record.state = "running"
  BY <1>1, WhichByTask DEF RecoverWait, Is, Recovering, Ready, InRun
<1>3. /\ g.up = runner.up /\ g.record = runner.record /\ g.tasks = runner.tasks
      /\ g.saves = runner.saves /\ ("due" \in g.unsubs => "due" \in runner.unsubs)
  BY <1>1 DEF ArmRunGuards, Runners
<1> HIDE DEF g
<1>4. Ready(g, s) /\ Stoppable(g, s) /\ Stoppable(runner, s)
  <2>1. Ready(g, s)
    BY <1>2, <1>3 DEF Ready, InRun, CallsFree, Beside, OnePowerOff
  <2>. QED  BY <1>1, <1>2, <2>1, RunStoppable
<1>5. \A q : Goes(g, q) => Goes(runner, q)
  <2>1. Writes(g) = Writes(runner) /\ (InBoundary(g) => InBoundary(runner))
    BY <1>3 DEF Writes, InBoundary
  <2>. QED  BY <1>3, <2>1, GoesFrom
<1>6. LET q == Fail(runner, s, TRUE, "powerOff", oven) IN Ordered(q) /\ Goes(runner, q)
  BY <1>1, <1>2, <1>4, FailOrdered
<1>7. LET q == Fail(g, s, FALSE, "return", oven) IN Ordered(q) /\ Goes(runner, q)
  BY <1>1, <1>4, <1>5, FailOrdered
<1>8. LET q == StepDone(g, s, oven) IN Ordered(q) /\ Goes(runner, q)
  BY <1>1, <1>4, <1>5, StepDoneOrdered
<1>9. \A k : LET q == ArmStep(g, s, k, oven) IN Ordered(q) /\ Goes(runner, q)
  BY <1>1, <1>4, <1>5, ArmStepOrdered
<1>. QED  BY <1>6, <1>7, <1>8, <1>9 DEF RecoverWait, g

\* Every await of a background task that ends leaves an order.
LEMMA ResumeOrdered ==
    ASSUME TypeOK, Ordered(runner), NEW s \in Background, Resume(s)
    PROVE  /\ Ordered(runner') /\ UNCHANGED disk
           /\ \/ Goes(runner, runner')
              \/ StepStarts(s) /\ Starts(runner, runner')
<1>1. runner \in Runners
  BY DEF TypeOK
<1>2. CASE FailPress(s)
  <2>1. Failing(runner, s)
    BY <1>1, <1>2, WhichByTask DEF FailPress, Is
  <2>. QED  BY <1>1, <1>2, <2>1, FailedOrdered DEF FailPress, Failing, InRun, Active, Ordered
<1>3. CASE FinishPress(s)
  <2>1. Finishing(runner, s)
    BY <1>1, <1>3, WhichByTask DEF FinishPress, Is
  <2>. QED  BY <1>1, <1>3, <2>1, FinishedOrdered DEF FinishPress, Finishing, Ordered
<1>4. CASE PowerOff(s)
  BY <1>1, <1>4, PowerOffOrdered DEF PowerOff, Is
<1>5. CASE RecoverWait(s)
  BY <1>5, RecoverWaitOrdered DEF RecoverWait
<1>. QED  BY <1>2, <1>3, <1>4, <1>5, TransitionOrdered DEF Resume

-----------------------------------------------------------------------------
(* The writes.                                                             *)

\* What is left when the oldest write has landed.
LEMMA LandedFacts ==
    ASSUME runner \in Runners, runner.saves # <<>>
    PROVE  /\ Landed \in Runners /\ Landed.saves = Tail(runner.saves)
           /\ Landed.up = runner.up /\ Landed.record = runner.record
           /\ Landed.transitioning = runner.transitioning
           /\ Landed.unsubs = runner.unsubs /\ Landed.step_unsubs = runner.step_unsubs
           /\ Landed.door_timer = runner.door_timer /\ Landed.tasks = runner.tasks
           /\ Len(runner.saves) \in Nat \ {0} /\ DOMAIN runner.saves = 1 .. Len(runner.saves)
           /\ Len(Landed.saves) = Len(runner.saves) - 1
           /\ DOMAIN Landed.saves = 1 .. (Len(runner.saves) - 1)
           /\ \A i \in DOMAIN Landed.saves : Landed.saves[i] = runner.saves[i + 1]
           /\ Head(runner.saves) = runner.saves[1]
           /\ Writes(runner) # <<>> /\ Head(Writes(runner)) = Head(runner.saves).record
           /\ Writes(Landed) = Tail(Writes(runner))
<1>1. /\ Landed \in Runners /\ Landed.saves = Tail(runner.saves)
      /\ Landed.up = runner.up /\ Landed.record = runner.record
      /\ Landed.transitioning = runner.transitioning
      /\ Landed.unsubs = runner.unsubs /\ Landed.step_unsubs = runner.step_unsubs
      /\ Landed.door_timer = runner.door_timer /\ Landed.tasks = runner.tasks
  BY LandedType DEF Landed, Runners
<1>2. runner.saves \in Seq([record : Records, by : Slots \cup {Nobody}])
  BY WritesType
<1>3. /\ Len(runner.saves) \in Nat \ {0} /\ DOMAIN runner.saves = 1 .. Len(runner.saves)
      /\ Len(Landed.saves) = Len(runner.saves) - 1
      /\ DOMAIN Landed.saves = 1 .. (Len(runner.saves) - 1)
      /\ \A i \in DOMAIN Landed.saves : Landed.saves[i] = runner.saves[i + 1]
      /\ Head(runner.saves) = runner.saves[1]
  BY <1>1, <1>2, HeadTailProperties, EmptySeq, LenProperties
<1>4. /\ Writes(runner) \in Seq(Records) /\ Len(Writes(runner)) = Len(runner.saves)
      /\ \A i \in 1 .. Len(runner.saves) : Writes(runner)[i] = runner.saves[i].record
  BY <1>1, <1>3, WritesType DEF Writes
<1>5. /\ Writes(Landed) \in Seq(Records) /\ Len(Writes(Landed)) = Len(runner.saves) - 1
      /\ \A i \in 1 .. (Len(runner.saves) - 1) : Writes(Landed)[i] = runner.saves[i + 1].record
  BY <1>1, <1>3, WritesType DEF Writes
<1>6. Writes(runner) # <<>> /\ Head(Writes(runner)) = runner.saves[1].record
  BY <1>3, <1>4, HeadTailProperties, EmptySeq, LenProperties
<1>7. Writes(Landed) = Tail(Writes(runner))
  <2> DEFINE a == Writes(Landed)
             b == Tail(Writes(runner))
  <2>1. /\ b \in Seq(Records) /\ Len(b) = Len(runner.saves) - 1
        /\ \A i \in 1 .. (Len(runner.saves) - 1) : b[i] = runner.saves[i + 1].record
    BY <1>3, <1>4, <1>6, HeadTailProperties
  <2> HIDE DEF a, b
  <2>2. a \in Seq(Records) /\ Len(a) = Len(runner.saves) - 1
    BY <1>5 DEF a
  <2>3. \A i \in 1 .. Len(a) : a[i] = b[i]
    BY <1>3, <1>5, <2>1, <2>2 DEF a
  <2>4. a = b
    BY <2>1, <2>2, <2>3, SeqEqual
  <2>. QED  BY <2>4 DEF a, b
<1>. QED  BY <1>1, <1>3, <1>6, <1>7

\* Who is left then still has its write.
LEMMA LandedOwned ==
    ASSUME runner \in Runners, runner.saves # <<>>, Owned(runner),
           NEW s, s = Head(runner.saves).by
    PROVE  OwnedBeside(Landed, s)
<1>1. \A i \in DOMAIN Landed.saves :
          /\ i + 1 \in DOMAIN runner.saves /\ i + 1 # 1
          /\ Landed.saves[i] = runner.saves[i + 1]
  BY LandedFacts
<1>2. /\ 1 \in DOMAIN runner.saves /\ runner.saves[1].by = s /\ Landed.tasks = runner.tasks
      /\ \A i \in DOMAIN runner.saves \ {1} : i - 1 \in DOMAIN Landed.saves
      /\ \A i \in DOMAIN runner.saves : i \in Nat
  BY LandedFacts
<1>3. \A i \in DOMAIN Landed.saves : Landed.saves[i].by # Nobody =>
         Landed.saves[i].by # s /\ Landed.tasks[Landed.saves[i].by].pc \in SavePcs
  BY <1>1, <1>2 DEF Owned
<1>4. \A i, j \in DOMAIN Landed.saves :
          Landed.saves[i].by = Landed.saves[j].by => i = j \/ Landed.saves[i].by = Nobody
  <2> TAKE i, j \in DOMAIN Landed.saves
  <2>1. i \in Nat /\ j \in Nat
    BY LandedFacts
  <2>2. Landed.saves[i].by = Landed.saves[j].by => i + 1 = j + 1 \/ Landed.saves[i].by = Nobody
    BY <1>1 DEF Owned
  <2>. QED  BY <2>1, <2>2
<1>5. ASSUME NEW t \in Slots \ {s}, Landed.tasks[t].pc \in SavePcs
      PROVE  \E i \in DOMAIN Landed.saves : Landed.saves[i].by = t
  <2>1. PICK i \in DOMAIN runner.saves : runner.saves[i].by = t
    BY <1>2, <1>5 DEF Owned
  <2>2. i # 1 /\ i \in Nat /\ i - 1 \in DOMAIN Landed.saves
    BY <1>2, <2>1
  <2>3. Landed.saves[i - 1] = runner.saves[i]
    BY <1>1, <2>2
  <2>. QED  BY <2>1, <2>2, <2>3
<1>. QED  BY <1>3, <1>4, <1>5 DEF OwnedBeside

\* q is what is left when the coroutine s, or nobody, takes the oldest write as
\* landed, and s returns or, after a failure, switches the oven off.
Returned(q, s) ==
    /\ q.up = runner.up /\ q.record = runner.record
    /\ q.unsubs = runner.unsubs /\ q.step_unsubs = runner.step_unsubs
    /\ q.door_timer = runner.door_timer /\ q.saves = Landed.saves
    /\ \A t \in Slots \ {s} : q.tasks[t] = runner.tasks[t]
    /\ s \in Slots => \/ q.tasks[s].pc = "free"
                      \/ runner.tasks[s].pc = "failSave" /\ q.tasks[s].pc = "powerOff"

\* A runner at rest stays so when a write lands that no run waits for.
LEMMA ReturnRests ==
    ASSUME runner \in Runners, Resting(runner), runner.saves # <<>>,
           NEW s \in Slots \cup {Nobody}, s = Head(runner.saves).by,
           s \in Slots => runner.tasks[s].pc \in SavePcs \ {"runNowSave"},
           NEW q, Returned(q, s)
    PROVE  Resting(q) /\ Goes(Landed, q)
<1>1. Slots = Background \cup Calls /\ Background \cap Calls = {} /\ Nobody \notin Slots
  BY Places
<1>2. runner.up
  BY DEF Resting, NewRunner
<1>3. OwnedBeside(Landed, s) /\ Landed.tasks = runner.tasks
  BY LandedFacts, LandedOwned DEF Resting
<1>4. Owned(q)
  <2>1. s \in Slots => q.tasks[s].pc \notin SavePcs
    BY DEF Returned, SavePcs
  <2>2. \A i \in DOMAIN Landed.saves : Landed.saves[i].by \in Slots \cup {Nobody}
    BY LandedFacts, WritesType
  <2>3. /\ \A i \in DOMAIN q.saves :
              q.saves[i].by # Nobody => q.tasks[q.saves[i].by].pc \in SavePcs
        /\ \A i, j \in DOMAIN q.saves :
              q.saves[i].by = q.saves[j].by => i = j \/ q.saves[i].by = Nobody
    BY <1>1, <1>3, <2>2 DEF Returned, OwnedBeside
  <2>4. \A t \in Slots : q.tasks[t].pc \in SavePcs => \E i \in DOMAIN q.saves : q.saves[i].by = t
    BY <1>3, <2>1 DEF Returned, OwnedBeside
  <2>. QED  BY <2>3, <2>4 DEF Owned
<1>5. ASSUME runner.record.state = "scheduled" PROVE Attended(q)
  <2>1. \A c \in Calls : q.tasks[c].pc = "runNowSave" => runner.tasks[c].pc = "runNowSave"
    BY <1>1 DEF Returned
  <2>2. CASE \E c \in Calls : q.tasks[c].pc = "runNowSave"
    <3>1. PICK c \in Calls : runner.tasks[c].pc = "runNowSave" /\ c # s
      BY <1>1, <2>1, <2>2
    <3>2. /\ runner.unsubs = {} /\ runner.saves[Len(runner.saves)].by \in Calls
      BY <1>5, <3>1 DEF Resting, Attended
    <3>3. PICK i \in DOMAIN runner.saves : runner.saves[i].by = c
      BY <1>1, <3>1 DEF Resting, Owned, SavePcs
    <3>4. i # 1 /\ i \in 1 .. Len(runner.saves) /\ Len(runner.saves) \in Nat
      BY <3>1, <3>3, LandedFacts
    <3> DEFINE n == Len(Landed.saves)
    <3>5. n \in DOMAIN Landed.saves /\ n + 1 = Len(runner.saves)
      BY <3>4, LandedFacts
    <3>6. Landed.saves[n].by \in Calls
      <4>1. Landed.saves[n] = runner.saves[n + 1]
        BY <3>5, LandedFacts
      <4>. QED  BY <3>2, <3>5, <4>1
    <3>7. Landed.saves # <<>>
      <4>1. DOMAIN Landed.saves # {}
        BY <3>5
      <4>. QED  BY <4>1, EmptySeq
    <3>. QED  BY <2>2, <3>2, <3>6, <3>7 DEF Returned, Attended
  <2>3. CASE ~\E c \in Calls : q.tasks[c].pc = "runNowSave"
    <3>1. \A c \in Calls : runner.tasks[c].pc # "runNowSave"
      BY <1>1, <2>3 DEF Returned
    <3>2. "due" \in runner.unsubs
      BY <1>5, <3>1 DEF Resting, Attended
    <3>. QED  BY <2>3, <3>2 DEF Returned, Attended
  <2>. QED  BY <2>2, <2>3
<1>6. OnePowerOff(q)
  <2>1. CASE s \in Background /\ runner.tasks[s].pc = "failSave"
    BY <1>1, <2>1 DEF Resting, Alone, OnePowerOff, Returned
  <2>2. CASE s \notin Background \/ runner.tasks[s].pc # "failSave"
    <3>1. \A t \in Background : q.tasks[t].pc = "powerOff" => runner.tasks[t].pc = "powerOff"
      BY <1>1, <2>2 DEF Returned
    <3>. QED  BY <3>1 DEF OnePowerOff, Resting
  <2>. QED  BY <2>1, <2>2
<1>7. ASSUME NEW t \in Background
      PROVE  /\ q.tasks[t].pc \in {"free", "powerOff", "failSave", "finishSave"}
             /\ q.tasks[t].pc = "finishSave" => Beside(q, t)
             /\ q.tasks[t].pc = "failSave" => Alone(q, t)
  <2>1. \A x \in Background :
           q.tasks[x] = runner.tasks[x] \/ q.tasks[x].pc \in {"free", "powerOff"}
    BY <1>1 DEF Returned
  <2>2. runner.tasks[t].pc \in {"free", "powerOff", "failSave", "finishSave"}
    BY DEF Resting
  <2>3. ASSUME q.tasks[t].pc = "finishSave" PROVE Beside(q, t)
    <3>1. q.tasks[t] = runner.tasks[t]
      BY <2>1, <2>3
    <3>2. Beside(runner, t)
      BY <2>3, <3>1 DEF Resting
    <3>. QED  BY <2>1, <3>2 DEF Beside
  <2>4. ASSUME q.tasks[t].pc = "failSave" PROVE Alone(q, t)
    <3>1. q.tasks[t] = runner.tasks[t]
      BY <2>1, <2>4
    <3>2. Alone(runner, t)
      BY <2>4, <3>1 DEF Resting
    <3>3. \A x \in Background \ {t} : q.tasks[x].pc = "free"
      BY <1>1, <3>2 DEF Alone, Returned
    <3>. QED  BY <3>3 DEF Alone
  <2>. QED  BY <2>1, <2>2, <2>3, <2>4
<1>8. ASSUME NEW c \in Calls
      PROVE  /\ q.tasks[c].pc \in {"free", "runSave", "runNowSave", "abortSave"}
             /\ runner.record.state # "scheduled" => q.tasks[c].pc # "runNowSave"
  BY <1>1 DEF Resting, Returned
<1>9. Resting(q)
  BY <1>2, <1>4, <1>5, <1>6, <1>7, <1>8 DEF Resting, Returned
<1>10. ~InBoundary(q)
  BY <1>7 DEF InBoundary, TransitionPcs
<1>11. Goes(Landed, q)
  BY <1>2, <1>10, LandedFacts DEF Goes, Quietly, Returned, Writes
<1>. QED  BY <1>9, <1>11

\* A run for now is begun when its own record has landed.
LEMMA RunNowSavedOrdered ==
    ASSUME OneCall, TypeOK, Ordered(runner), NEW s \in Slots, RunNowSaved(s)
    PROVE  /\ Ordered(runner') /\ Goes(Landed, runner')
           /\ runner'.record.state \in {"running", "failed"}
           /\ runner'.record.state = "running" => InBoundary(runner')
<1> DEFINE e == End(Landed, s)
           n == NewTask(runner)
<1>1. runner \in Runners /\ runner.saves # <<>> /\ Head(runner.saves).by = s
  BY DEF TypeOK, RunNowSaved, Lands
<1>2. runner.tasks[s].pc = "runNowSave" /\ n \in Background /\ runner.tasks[n].pc = "free"
  BY NewTaskFree DEF RunNowSaved, Lands, Is
<1>3. s \in Calls /\ s \notin Background /\ Slots = Background \cup Calls /\ s # Nobody
  BY <1>1, <1>2, WhichByTask, Places
<1>4. Resting(runner)
  BY <1>1, <1>2, <1>3, WhichByCall
<1>5. runner.up /\ runner.record.state = "scheduled"
  BY <1>1, <1>2, <1>3, <1>4 DEF Resting, NewRunner
<1>6. runner.unsubs = {} /\ runner.saves[Len(runner.saves)].by = s
  BY <1>2, <1>3, <1>4, <1>5, Places DEF Resting, Attended
<1>7. Len(runner.saves) = 1
  <2>1. /\ runner.saves[1].by = s /\ 1 \in DOMAIN runner.saves
        /\ Len(runner.saves) \in DOMAIN runner.saves
    BY <1>1, LandedFacts
  <2>2. Owned(runner)
    BY <1>4 DEF Resting
  <2>3. 1 = Len(runner.saves) \/ runner.saves[1].by = Nobody
    BY <1>6, <2>1, <2>2 DEF Owned
  <2>. QED  BY <1>3, <2>1, <2>3
<1>8. Landed.saves = <<>> /\ Landed \in Runners
  BY <1>1, <1>7, LandedFacts, EmptySeq, WritesType
<1>9. \A t \in Background : runner.tasks[t].pc \in {"free", "powerOff"}
  <2> TAKE t \in Background
  <2>1. ASSUME runner.tasks[t].pc \in SavePcs PROVE FALSE
    <3>1. PICK i \in DOMAIN runner.saves : runner.saves[i].by = t
      BY <1>3, <1>4, <2>1 DEF Resting, Owned
    <3>2. i = 1
      BY <1>1, <1>7, <3>1, LandedFacts
    <3>. QED  BY <1>1, <1>3, <3>1, <3>2, LandedFacts
  <2>. QED  BY <1>4, <2>1 DEF Resting, SavePcs
<1>10. /\ e \in Runners /\ e.up = runner.up /\ e.record = runner.record
       /\ e.unsubs = runner.unsubs /\ e.saves = <<>> /\ e.tasks[s].pc = "free"
       /\ \A t \in Slots \ {s} : e.tasks[t] = runner.tasks[t]
  <2>1. e \in Runners
    BY <1>8, EndType
  <2>. QED  BY <1>1, <1>8, <2>1, LandedFacts DEF End, NoTask, Runners
<1> HIDE DEF e, n
<1>11. Startable(e, n)
  <2>1. CallsFree(e)
    BY <1>3, <1>10, Places DEF CallsFree
  <2>2. Beside(e, n) /\ OnePowerOff(e)
    BY <1>3, <1>4, <1>9, <1>10 DEF Beside, OnePowerOff, Resting
  <2>. QED  BY <1>4, <1>5, <1>6, <1>10, <2>1, <2>2 DEF Startable, Resting
<1>12. PICK home : runner' = Begin(e, n, oven, home)
  <2>1. Begins(e, n)
    BY DEF RunNowSaved, e, n
  <2>. QED  BY <2>1 DEF Begins
<1>13. /\ Ordered(runner') /\ Goes(e, runner')
       /\ runner'.record.state \in {"running", "failed"}
       /\ runner'.record.state = "running" => InBoundary(runner')
  BY <1>2, <1>10, <1>11, <1>12, BeginOrdered DEF Boundary, InBoundary
<1>14. Writes(e) = Writes(Landed) /\ ~InBoundary(e)
  BY <1>3, <1>8, <1>9, <1>10 DEF Writes, InBoundary, TransitionPcs
<1>15. Goes(Landed, runner')
  BY <1>1, <1>10, <1>13, <1>14, LandedFacts, GoesFrom
<1>. QED  BY <1>13, <1>15

\* Every write that lands leaves an order.
LEMMA SaveOrdered ==
    ASSUME OneCall, TypeOK, Ordered(runner), Save
    PROVE  /\ Ordered(runner') /\ Goes(Landed, runner') /\ runner.up
           /\ runner.saves # <<>> /\ disk' = Head(runner.saves).record
<1>1. runner \in Runners /\ runner.saves # <<>> /\ disk' = Head(runner.saves).record
  BY DEF TypeOK, Save, StepSaved, FailSaved, RunNowSaved, LastSaved, Lands, OrphanSaved
<1>2. runner.up
  BY <1>1, DownIsNew DEF NewRunner
<1>3. Slots = Background \cup Calls /\ Background \cap Calls = {} /\ Nobody \notin Slots
  BY Places
<1>4. /\ Landed.up = runner.up /\ Landed.record = runner.record
      /\ Landed.unsubs = runner.unsubs /\ Landed.step_unsubs = runner.step_unsubs
      /\ Landed.door_timer = runner.door_timer /\ Landed.tasks = runner.tasks
      /\ Landed \in Runners
  BY <1>1, LandedFacts
<1>5. ASSUME NEW s \in Slots, StepSaved(s) PROVE Ordered(runner') /\ Goes(Landed, runner')
  <2>1. s \in Background /\ Saving(runner, s)
    BY <1>1, <1>3, <1>5, WhichByTask, WhichByCall DEF StepSaved, Lands, Is, CallPcs
  <2>2. Len(runner.saves) = 1
    BY <2>1 DEF Saving
  <2>3. Landed.saves = <<>>
    BY <1>1, <1>4, <2>2, LandedFacts, EmptySeq, WritesType
  <2>4. Ready(Landed, s)
    BY <1>4, <2>1, <2>3 DEF Saving, Ready, InRun, CallsFree, Beside, OnePowerOff
  <2>. QED  BY <1>4, <1>5, <2>1, <2>4, ArmStepOrdered DEF StepSaved
<1>6. ASSUME NEW s \in Slots, FailSaved(s) PROVE Ordered(runner') /\ Goes(Landed, runner')
  <2>1. Head(runner.saves).by = s /\ runner.tasks[s].pc = "failSave"
    BY <1>6 DEF FailSaved, Lands, Is
  <2>2. s \in Background /\ Resting(runner)
    BY <1>1, <1>3, <2>1, WhichByTask, WhichByCall DEF CallPcs
  <2>3. Returned(At(Landed, s, "powerOff"), s)
    BY <1>4, <2>1 DEF Returned, At, Runners, Tasks
  <2>4. \A v : Returned([End(Landed, s) EXCEPT !.transitioning = v], s)
    BY <1>4 DEF Returned, End, NoTask, Runners
  <2>5. Returned(runner', s)
    BY <1>6, <2>3, <2>4 DEF FailSaved
  <2>. QED  BY <1>1, <2>1, <2>2, <2>5, ReturnRests DEF SavePcs, Ordered
<1>7. ASSUME NEW s \in Slots, RunNowSaved(s) PROVE Ordered(runner') /\ Goes(Landed, runner')
  BY <1>7, RunNowSavedOrdered
<1>8. ASSUME NEW s \in Slots, LastSaved(s) PROVE Ordered(runner') /\ Goes(Landed, runner')
  <2>1. /\ Head(runner.saves).by = s
        /\ runner.tasks[s].pc \in {"finishSave", "runSave", "abortSave"}
    BY <1>8 DEF LastSaved, Lands, Is
  <2>2. Resting(runner)
    BY <1>1, <1>3, <2>1, WhichByTask, WhichByCall DEF CallPcs
  <2>3. Returned(End(Landed, s), s)
    BY <1>4 DEF Returned, End, NoTask, Runners
  <2>. QED  BY <1>1, <1>8, <2>1, <2>2, <2>3, ReturnRests DEF LastSaved, SavePcs, Ordered
<1>9. ASSUME OrphanSaved PROVE Ordered(runner') /\ Goes(Landed, runner')
  <2>1. Head(runner.saves).by = Nobody /\ runner' = Landed
    BY <1>9 DEF OrphanSaved
  <2>2. CASE Resting(runner)
    <3>1. Returned(Landed, Nobody)
      BY <1>3, <1>4 DEF Returned
    <3>. QED  BY <1>1, <1>3, <2>1, <2>2, <3>1, ReturnRests DEF Ordered
  <2>3. Orphaned(runner) => Orphaned(Landed)
    <3>1. \A i \in DOMAIN Landed.saves :
             i + 1 \in DOMAIN runner.saves /\ Landed.saves[i] = runner.saves[i + 1]
      BY <1>1, LandedFacts
    <3>. QED  BY <3>1 DEF Orphaned
  <2>4. /\ InRun(runner) => InRun(Landed)
        /\ CallsFree(runner) => CallsFree(Landed)
        /\ Calm(runner) => Calm(Landed)
        /\ \A t : Alone(runner, t) => Alone(Landed, t)
    BY <1>4 DEF InRun, CallsFree, Calm, Alone, OnePowerOff
  <2>5. CASE Aborting(runner)
    BY <1>4, <2>1, <2>3, <2>4, <2>5 DEF Aborting, Ordered, Goes, Quietly, InRun
  <2>6. ASSUME NEW t \in Background, Acting(runner, t) PROVE Failing(runner, t)
    <3>1. ~Ready(runner, t)
      BY <1>1 DEF Ready
    <3>2. ~Saving(runner, t)
      BY <1>3, <2>1, LandedFacts, <1>1 DEF Saving
    <3>. QED  BY <2>6, <3>1, <3>2 DEF Acting, Boundary, Finishing, Recovering
  <2>7. ASSUME NEW t \in Background, Failing(runner, t) PROVE Ordered(runner') /\ Goes(Landed, runner')
    <3>1. Failing(Landed, t)
      BY <1>4, <2>3, <2>4, <2>7 DEF Failing
    <3>2. Goes(Landed, Landed)
      BY <1>2, <1>4 DEF Goes, Quietly
    <3>. QED  BY <2>1, <3>1, <3>2 DEF Ordered, Acting
  <2>8. ~Steady(runner)
    BY <1>1 DEF Steady, Ready
  <2>. QED  BY <2>2, <2>5, <2>6, <2>7, <2>8 DEF Ordered
<1>. QED  BY <1>1, <1>2, <1>5, <1>6, <1>7, <1>8, <1>9 DEF Save

-----------------------------------------------------------------------------
(* The service calls.                                                      *)

\* A run service asks for its schedule to be written.
LEMMA CallRunOrdered ==
    ASSUME OneCall, TypeOK, Ordered(runner),
           NEW c \in Calls, NEW p \in Presets, NEW later \in BOOLEAN, CallRun(c, p, later)
    PROVE  Ordered(runner') /\ Goes(runner, runner')
<1> DEFINE record == [NoRecord EXCEPT !.state = "scheduled", !.preset = p]
           unsubs == IF later THEN runner.unsubs \cup {"due"} ELSE runner.unsubs
           pc == IF later THEN "runSave" ELSE "runNowSave"
           q == [runner EXCEPT !.record = record, !.unsubs = unsubs]
           f == Commit(q, c, pc)
<1>1. runner \in Runners /\ c \in Slots /\ c \notin Background /\ Slots = Background \cup Calls
  BY Places DEF TypeOK
<1>2. Resting(runner) /\ runner.up /\ runner.record.state \notin Active
  BY <1>1, WhichByHandles DEF CallRun, Active
<1>3. /\ record \in Records /\ record.state = "scheduled" /\ record.preset = p /\ p # <<>>
  <2>1. p # <<>>
    BY PresetsAssumption
  <2>2. 0 \in 0 .. MaxSteps
    BY BoundsAssumption
  <2>. QED  BY <2>1, <2>2 DEF NoRecord, Records, States
<1>4. unsubs = IF later THEN {"due"} ELSE {}
  BY <1>2 DEF Resting, Active
<1>5. pc \in SavePcs /\ pc \in Pcs
  BY DEF SavePcs, Pcs, CallPcs
<1>6. runner' = f
  <2>1. later => runner' = f
    <3>1. [[runner EXCEPT !.record = record] EXCEPT !.unsubs = @ \cup {"due"}]
             = [runner EXCEPT !.record = record, !.unsubs = runner.unsubs \cup {"due"}]
      BY <1>1 DEF Runners
    <3>. QED  BY <3>1 DEF CallRun
  <2>2. ~later => runner' = f
    <3>1. [runner EXCEPT !.record = record]
             = [runner EXCEPT !.record = record, !.unsubs = runner.unsubs]
      BY <1>1 DEF Runners
    <3>. QED  BY <3>1 DEF CallRun
  <2>. QED  BY <2>1, <2>2
<1> HIDE DEF record
<1>7. /\ q \in Runners /\ q.record = record /\ q.up = runner.up /\ q.unsubs = unsubs
      /\ q.tasks = runner.tasks /\ q.saves = runner.saves
      /\ q.step_unsubs = runner.step_unsubs /\ q.door_timer = runner.door_timer
  <2>1. unsubs \in SUBSET Handlers
    BY <1>4 DEF Handlers
  <2> HIDE DEF unsubs
  <2>. QED  BY <1>1, <1>3, <2>1 DEF Runners
<1> HIDE DEF q, pc, unsubs
<1>8. runner.tasks[c].pc = "free" /\ \A e \in Calls : e = c
  BY Places DEF CallRun, Is
<1>9. OwnedBeside(q, c)
  <2>1. Owned(runner)
    BY <1>2 DEF Resting
  <2>. QED  BY <1>7, <1>8, <2>1 DEF Owned, OwnedBeside, SavePcs
<1>10. Asked(q, f, c, pc) /\ Owned(f)
  BY <1>1, <1>5, <1>7, <1>9, CommitWrites, CommitOwned
<1> HIDE DEF f
<1>11. f.saves # <<>> /\ f.saves[Len(f.saves)].by = c
  <2> DEFINE w == [record |-> q.record, by |-> c]
  <2>1. w \in [record : Records, by : Slots \cup {Nobody}]
    BY <1>1, <1>3, <1>7
  <2>2. q.saves \in Seq([record : Records, by : Slots \cup {Nobody}])
    BY <1>7, WritesType
  <2>3. f.saves = Append(q.saves, w) /\ w.by = c
    BY <1>10 DEF Asked
  <2> HIDE DEF w
  <2>. QED  BY <2>1, <2>2, <2>3, AppendProperties
<1>12. /\ f.up /\ f.record = record /\ f.unsubs = unsubs /\ f.step_unsubs = {} /\ ~f.door_timer
       /\ f.tasks[c].pc = pc /\ \A t \in Background : f.tasks[t] = runner.tasks[t]
  BY <1>1, <1>2, <1>7, <1>10 DEF Asked, Resting
<1>13. Attended(f)
  BY <1>4, <1>8, <1>11, <1>12 DEF Attended, pc
<1>14. \A t : (Beside(runner, t) => Beside(f, t)) /\ (Alone(runner, t) => Alone(f, t))
  BY <1>12 DEF Beside, Alone
<1>15. OnePowerOff(f)
  BY <1>2, <1>12 DEF OnePowerOff, Resting
<1>16. Resting(f)
  <2>1. Sound(f.record) /\ f.record.state # "running"
    BY <1>3, <1>12 DEF Sound
  <2>2. \A t \in Background :
            /\ f.tasks[t].pc \in {"free", "powerOff", "failSave", "finishSave"}
            /\ f.tasks[t].pc = "finishSave" => Beside(f, t)
            /\ f.tasks[t].pc = "failSave" => Alone(f, t)
    BY <1>2, <1>12, <1>14 DEF Resting
  <2>3. \A e \in Calls : f.tasks[e].pc \in {"free", "runSave", "runNowSave", "abortSave"}
    BY <1>8, <1>12 DEF pc
  <2>. QED  BY <1>3, <1>4, <1>10, <1>12, <1>13, <1>15, <2>1, <2>2, <2>3 DEF Resting
<1>17. Goes(runner, f)
  <2>1. Writes(q) = Writes(runner)
    BY <1>7 DEF Writes
  <2>. QED  BY <1>2, <1>3, <1>10, <1>12, <2>1 DEF Goes, Asking, Asked
<1>. QED  BY <1>6, <1>16, <1>17 DEF Ordered

\* An abort that is saved leaves nothing but its write.
LEMMA AbortRests ==
    ASSUME OneCall, NEW r \in Runners, NEW c \in Calls, NEW record \in Records,
           record.state = "idle", r.up, Calm(r), Orphaned(r), Alone(r, Nobody)
    PROVE  LET q == Commit([r EXCEPT !.record = record], c, "abortSave")
           IN  /\ Resting(q) /\ q.record = record /\ q.up
               /\ Writes(q) = Append(Writes(r), q.record)
<1> DEFINE p == [r EXCEPT !.record = record]
           q == Commit(p, c, "abortSave")
<1>1. c \in Slots /\ c \notin Background /\ Slots = Background \cup Calls /\ Nobody \notin Slots
  BY Places
<1>2. /\ p \in Runners /\ p.record = record /\ p.up = r.up /\ p.unsubs = r.unsubs
      /\ p.tasks = r.tasks /\ p.saves = r.saves
      /\ p.step_unsubs = r.step_unsubs /\ p.door_timer = r.door_timer
  BY DEF Runners
<1> HIDE DEF p
<1>3. \A t \in Background : p.tasks[t].pc = "free"
  BY <1>1, <1>2 DEF Alone
<1>4. \A e \in Calls : e = c
  BY Places
<1>5. Asked(p, q, c, "abortSave") /\ Owned(q)
  <2>1. "abortSave" \in Pcs /\ "abortSave" \in SavePcs
    BY DEF Pcs, CallPcs, SavePcs
  <2>2. OwnedBeside(p, c)
    BY <1>1, <1>2, <1>3, <1>4, OrphanedOwned DEF Orphaned, SavePcs
  <2>. QED  BY <1>1, <1>2, <2>1, <2>2, CommitWrites, CommitOwned
<1> HIDE DEF q
<1>6. \A t \in Background : q.tasks[t].pc = "free"
  BY <1>1, <1>3, <1>5 DEF Asked
<1>7. Resting(q)
  BY <1>2, <1>4, <1>5, <1>6 DEF Resting, Asked, Calm, OnePowerOff, Sound, Active
<1>8. Writes(p) = Writes(r)
  BY <1>2 DEF Writes
<1>. QED  BY <1>2, <1>5, <1>7, <1>8 DEF Asked, q, p

\* With no call in progress only background tasks await writes.
LEMMA NoCallWrites ==
    ASSUME NEW r \in Runners, Ordered(r), CallsFree(r)
    PROVE  \A i \in DOMAIN r.saves : r.saves[i].by \in Background \cup {Nobody}
<1>1. CASE r.saves = <<>> \/ Orphaned(r)
  BY <1>1 DEF Orphaned
<1>2. ASSUME NEW t \in Background, Saving(r, t)
      PROVE  \A i \in DOMAIN r.saves : r.saves[i].by \in Background \cup {Nobody}
  <2>1. DOMAIN r.saves = {1} /\ r.saves[1].by = t
    BY <1>2 DEF Saving
  <2>. QED  BY <2>1
<1>3. CASE Resting(r)
  <2>1. \A i \in DOMAIN r.saves : r.saves[i].by \in Slots \cup {Nobody}
    BY WritesType
  <2>. QED  BY <1>3, <2>1, Places DEF Resting, Owned, CallsFree, SavePcs
<1>. QED  BY <1>1, <1>2, <1>3 DEF Ordered, Acting, Boundary, Failing, Finishing, Recovering,
                                   Steady, Aborting, Ready

\* An abort service ends what is going on, or has the oven stop first.
LEMMA CallAbortOrdered ==
    ASSUME OneCall, TypeOK, Ordered(runner), NEW c \in Calls, CallAbort(c)
    PROVE  /\ Ordered(runner') /\ Goes(runner, runner')
           /\ runner'.record.state \in {"running", "idle"}
<1> DEFINE x == CancelTasks(runner, Nobody)
           h == ClearHandlers(x)
           q == [h EXCEPT !.transitioning = FALSE]
<1>1. /\ runner \in Runners /\ c \in Slots /\ c \notin Background /\ Nobody \notin Slots
      /\ Slots = Background \cup Calls /\ Background \cap Calls = {}
  BY Places DEF TypeOK
<1>2. runner.up /\ runner.tasks[c].pc = "free" /\ \A e \in Calls : e = c
  BY Places DEF CallAbort, Is
<1>3. CallsFree(runner)
  BY <1>2 DEF CallsFree
<1>4. x \in Runners /\ Cancelled(runner, x, Nobody)
  BY <1>1, CancelType, CancelFacts DEF CancelTasks
<1> HIDE DEF x
<1>5. /\ h \in Runners /\ h.record = x.record /\ h.up = x.up /\ h.tasks = x.tasks
      /\ h.saves = x.saves /\ Calm(h)
  BY <1>4, ClearHandlersType DEF ClearHandlers, ClearStepHandlers, Runners, Calm
<1> HIDE DEF h
<1>6. /\ q \in Runners /\ q.record = runner.record /\ q.up /\ q.tasks = x.tasks
      /\ q.saves = x.saves /\ Calm(q)
  BY <1>2, <1>4, <1>5 DEF Runners, Calm, Cancelled
<1> HIDE DEF q
<1>7. /\ Orphaned(q) /\ Writes(q) = Writes(runner)
  <2>1. \A i \in DOMAIN runner.saves : runner.saves[i].by \in Background \cup {Nobody}
    BY <1>1, <1>3, NoCallWrites
  <2>. QED  BY <1>1, <1>4, <1>6, <2>1 DEF Orphaned, Cancelled, Writes
<1>8. Alone(q, Nobody) /\ CallsFree(q)
  BY <1>1, <1>3, <1>4, <1>6 DEF Alone, CallsFree, Cancelled, NoTask
<1>9. runner.record \in Records /\ Sound(runner.record)
  <2>1. Sound(runner.record)
    BY DEF Ordered, Acting, Boundary, Saving, Failing, Finishing, Recovering, Steady, Aborting,
           Resting, Ready, InRun
  <2>. QED  BY <1>1, <2>1 DEF Runners
<1>10. ASSUME runner.record.state = "running"
       PROVE  LET f == At(q, c, "abortPress")
              IN  Ordered(f) /\ Goes(runner, f) /\ f.record.state = "running"
  <2> DEFINE f == At(q, c, "abortPress")
  <2>1. Moved(q, f, c, {"abortPress"})
    BY <1>1, <1>6, WaitMoved
  <2> HIDE DEF f
  <2>2. Alone(f, Nobody) /\ Orphaned(f) /\ Calm(f)
    BY <1>1, <1>6, <1>7, <1>8, <2>1 DEF Moved, Alone, Orphaned, Calm
  <2>3. InRun(f)
    BY <1>1, <1>6, <1>9, <1>10, <2>1, <2>2 DEF InRun, Moved, Calm, Alone, OnePowerOff
  <2>4. Aborting(f)
    BY <1>2, <2>1, <2>2, <2>3 DEF Aborting, Moved
  <2>5. ~InBoundary(f)
    BY <1>1, <2>2 DEF InBoundary, Alone, TransitionPcs
  <2>6. Goes(runner, f)
    BY <1>2, <1>6, <1>7, <2>1, <2>5 DEF Goes, Quietly, Moved, Writes
  <2>. QED  BY <2>3, <2>4, <2>6 DEF Ordered, InRun, f
<1>11. ASSUME NEW record \in Records, record.state = "idle", runner.record.state # "idle"
       PROVE  LET f == Commit([q EXCEPT !.record = record], c, "abortSave")
              IN  Ordered(f) /\ Goes(runner, f) /\ f.record.state = "idle"
  <2> DEFINE f == Commit([q EXCEPT !.record = record], c, "abortSave")
  <2>1. Resting(f) /\ f.record = record /\ f.up /\ Writes(f) = Append(Writes(q), f.record)
    BY <1>6, <1>7, <1>8, <1>11, AbortRests
  <2> HIDE DEF f
  <2>2. Goes(runner, f)
    BY <1>2, <1>7, <1>9, <1>11, <2>1 DEF Goes, Asking, Active, Records, States
  <2>. QED  BY <1>11, <2>1, <2>2 DEF Ordered, f
<1>12. ASSUME runner.record.state # "idle"
       PROVE  /\ Ordered(Aborted(q, c)) /\ Goes(runner, Aborted(q, c))
              /\ Aborted(q, c).record.state = "idle"
  <2> DEFINE record == [runner.record EXCEPT !.state = "idle"]
  <2>1. record \in Records /\ record.state = "idle"
    BY <1>9 DEF Records, States
  <2>2. [q EXCEPT !.record.state = "idle"] = [q EXCEPT !.record = record]
    BY <1>6 DEF Runners
  <2> HIDE DEF record
  <2>. QED  BY <1>11, <1>12, <2>1, <2>2 DEF Aborted
<1>13. ASSUME runner.record.state # "idle"
       PROVE  LET f == Commit([q EXCEPT !.record = NoRecord], c, "abortSave")
              IN  Ordered(f) /\ Goes(runner, f) /\ f.record.state = "idle"
  <2>1. NoRecord \in Records /\ NoRecord.state = "idle"
    BY BoundsAssumption DEF NoRecord, Records, States
  <2>. QED  BY <1>11, <1>13, <2>1
<1>14. ASSUME runner.record.state = "idle"
       PROVE  Ordered(q) /\ Goes(runner, q) /\ q.record.state = "idle"
  <2>1. Owned(q)
    BY <1>1, <1>7, <1>8 DEF Owned, Orphaned, Alone, CallsFree, SavePcs
  <2>2. Resting(q)
    BY <1>1, <1>6, <1>8, <1>9, <1>14, <2>1
       DEF Resting, Alone, CallsFree, Calm, OnePowerOff
  <2>3. ~InBoundary(q)
    BY <1>1, <1>8 DEF InBoundary, Alone, TransitionPcs
  <2>. QED  BY <1>2, <1>6, <1>7, <1>14, <2>2, <2>3 DEF Ordered, Goes, Quietly
<1>15. /\ runner' = IF runner.record.state = "running" /\ Busy(oven) THEN At(q, c, "abortPress")
                    ELSE IF runner.record.state \in Active THEN Aborted(q, c)
                    ELSE IF runner.record.state = "idle" THEN q
                    ELSE Commit([q EXCEPT !.record = NoRecord], c, "abortSave")
  BY DEF CallAbort, q, h, x
<1>. QED  BY <1>10, <1>12, <1>13, <1>14, <1>15 DEF Active

\* Once the oven was told to stop the abort is saved.
LEMMA AbortPressOrdered ==
    ASSUME OneCall, TypeOK, Ordered(runner), NEW c \in Calls, AbortPress(c)
    PROVE  Ordered(runner') /\ Goes(runner, runner')
<1> DEFINE record == [runner.record EXCEPT !.state = "idle"]
           f == Commit([runner EXCEPT !.record = record], c, "abortSave")
<1>1. runner \in Runners /\ Aborting(runner)
  BY WhichByCall DEF TypeOK, AbortPress, Is
<1>2. runner.up /\ runner.record.state = "running"
  BY <1>1 DEF Aborting, InRun
<1>3. record \in Records /\ record.state = "idle"
  BY <1>1 DEF Records, States, Runners
<1>4. runner' = f
  <2>1. [runner EXCEPT !.record.state = "idle"] = [runner EXCEPT !.record = record]
    BY <1>1 DEF Runners
  <2>. QED  BY <2>1 DEF AbortPress, Aborted
<1> HIDE DEF record
<1>5. Resting(f) /\ f.record = record /\ f.up /\ Writes(f) = Append(Writes(runner), f.record)
  BY <1>1, <1>2, <1>3, AbortRests DEF Aborting
<1> HIDE DEF f
<1>6. Goes(runner, f)
  BY <1>2, <1>3, <1>5 DEF Goes, Asking, Active
<1>. QED  BY <1>4, <1>5, <1>6 DEF Ordered

\* What the service calls do leaves an order.
LEMMA CommandOrdered ==
    ASSUME OneCall, TypeOK, Ordered(runner), Command
    PROVE  Ordered(runner') /\ Goes(runner, runner') /\ UNCHANGED disk
<1>1. PICK c \in Calls :
         \/ \E p \in Presets, later \in BOOLEAN : CallRun(c, p, later)
         \/ CallAbort(c) \/ AbortPress(c)
  BY DEF Command
<1>2. UNCHANGED disk
  BY <1>1 DEF CallRun, CallAbort, AbortPress
<1>. QED  BY <1>1, <1>2, CallRunOrdered, CallAbortOrdered, AbortPressOrdered

-----------------------------------------------------------------------------
(* The timers and the passing of time.                                     *)

\* The schedule's own record has been written when its time has come.
Written == 
    runner.record.state = "scheduled" /\ "due" \in runner.unsubs /\ clock.start # "future"
        => runner.saves = <<>>

\* A schedule that is due is begun, with nobody else about.
LEMMA StartOrdered ==
    ASSUME TypeOK, Ordered(runner), Written, StartComes
    PROVE  /\ Ordered(runner') /\ Goes(runner, runner')
           /\ runner'.record.state \in {"running", "failed"}
           /\ runner'.record.state = "running" => InBoundary(runner')
<1> DEFINE q == [runner EXCEPT !.unsubs = @ \ {"due"}]
           n == NewTask(runner)
<1>1. runner \in Runners /\ n \in Background /\ runner.tasks[n].pc = "free"
  BY NewTaskFree DEF TypeOK, StartComes
<1>2. Slots = Background \cup Calls
  BY Places
<1>3. Resting(runner) /\ runner.record.state = "scheduled" /\ "due" \in runner.unsubs
  BY <1>1, WhichByHandles DEF StartComes
<1>4. runner.saves = <<>>
  BY <1>3 DEF StartComes, Written
<1>5. \A t \in Slots : runner.tasks[t].pc \notin SavePcs
  <2>1. DOMAIN runner.saves = {}
    BY <1>1, <1>4
  <2>. QED  BY <1>3, <2>1 DEF Resting, Owned
<1>6. /\ q \in Runners /\ q.up = runner.up /\ q.record = runner.record
      /\ "due" \notin q.unsubs /\ q.tasks = runner.tasks /\ q.saves = runner.saves
  BY <1>1 DEF Runners
<1>7. runner.up
  BY <1>3 DEF Resting, NewRunner, NoRecord
<1> HIDE DEF q, n
<1>8. Startable(q, n)
  BY <1>2, <1>3, <1>4, <1>5, <1>6, <1>7
     DEF Startable, Resting, CallsFree, Beside, OnePowerOff, SavePcs
<1>9. PICK home : runner' = Begin(q, n, oven, home)
  <2>1. Begins(q, n)
    BY DEF StartComes, q, n
  <2>. QED  BY <2>1 DEF Begins
<1>10. /\ Ordered(runner') /\ Goes(q, runner')
       /\ runner'.record.state \in {"running", "failed"}
       /\ runner'.record.state = "running" => InBoundary(runner')
  BY <1>1, <1>6, <1>8, <1>9, BeginOrdered DEF Boundary, InBoundary
<1>11. Writes(q) = Writes(runner) /\ (InBoundary(q) => InBoundary(runner))
  BY <1>6 DEF Writes, InBoundary
<1>. QED  BY <1>6, <1>10, <1>11, GoesFrom

\* The other timers end a step, or the run.
LEMMA TimerOrdered ==
    ASSUME TypeOK, Ordered(runner), Written, Timer
    PROVE  Ordered(runner') /\ Goes(runner, runner') /\ UNCHANGED disk
<1> DEFINE n == NewTask(runner)
<1>1. /\ runner \in Runners /\ n \in Background /\ runner.tasks[n].pc = "free"
  BY NewTaskFree
     DEF TypeOK, Timer, StartComes, StepTimer, PreheatTimeout, MaxReached, DoorGraceOver
<1> HIDE DEF n
<1>2. Steady(runner) => Ready(runner, n)
  BY Places DEF Steady, Ready, Beside
<1>3. \A t \in Background : Saving(runner, t) \/ Boundary(runner, t) => t # n
  BY <1>1 DEF Saving, Boundary, TransitionPcs
<1>4. CASE StepTimer
  <2>1. PICK h \in runner.step_unsubs :
           runner' = StepDone([runner EXCEPT !.step_unsubs = @ \ {h}], n, oven)
    BY <1>4 DEF StepTimer, n
  <2> DEFINE q == [runner EXCEPT !.step_unsubs = @ \ {h}]
  <2>2. /\ q \in Runners /\ q.up = runner.up /\ q.record = runner.record
        /\ q.unsubs = runner.unsubs /\ q.tasks = runner.tasks /\ q.saves = runner.saves
    BY <1>1 DEF Runners
  <2> HIDE DEF q
  <2>3. Ready(runner, n)
    BY <1>1, <1>2, WhichByHandles
  <2>4. Ready(q, n)
    BY <2>2, <2>3 DEF Ready, InRun, CallsFree, Beside, OnePowerOff
  <2>5. Ordered(runner') /\ Goes(q, runner')
    BY <1>1, <2>1, <2>2, <2>4, StepDoneOrdered DEF q
  <2>6. Writes(q) = Writes(runner) /\ (InBoundary(q) => InBoundary(runner))
    BY <2>2 DEF Writes, InBoundary
  <2>7. Goes(runner, runner')
    BY <2>2, <2>5, <2>6, GoesFrom
  <2>. QED  BY <1>4, <2>5, <2>7 DEF StepTimer
<1>5. CASE PreheatTimeout
  <2>1. runner' = Fail(runner, n, TRUE, "return", oven) /\ runner.step_unsubs # {}
    BY <1>5 DEF PreheatTimeout, n
  <2>2. Stoppable(runner, n) /\ runner.record.state = "running"
    BY <1>1, <2>1, WhichByHandles, RunStoppable
  <2>. QED  BY <1>1, <1>5, <2>1, <2>2, FailOrdered DEF PreheatTimeout
<1>6. CASE MaxReached
  <2>1. runner' = Fail(runner, n, TRUE, "powerOff", oven) /\ "max" \in runner.unsubs
    BY <1>6 DEF MaxReached, n
  <2>2. Stoppable(runner, n) /\ runner.record.state = "running"
    BY <1>1, <1>3, <2>1, WhichByHandles, RunStoppable
  <2>. QED  BY <1>1, <1>6, <2>1, <2>2, FailOrdered DEF MaxReached
<1>7. CASE DoorGraceOver
  <2> DEFINE q == [runner EXCEPT !.door_timer = FALSE]
  <2>1. runner' = Fail(q, n, TRUE, "return", oven) /\ runner.door_timer
    BY <1>7 DEF DoorGraceOver, n
  <2>2. Stoppable(runner, n) /\ runner.record.state = "running"
    BY <1>1, <1>3, <2>1, WhichByHandles, RunStoppable
  <2>3. /\ q \in Runners /\ q.up = runner.up /\ q.record = runner.record
        /\ q.tasks = runner.tasks /\ q.saves = runner.saves
    BY <1>1 DEF Runners
  <2> HIDE DEF q
  <2>4. Stoppable(q, n) /\ q.record.state = "running"
    BY <2>2, <2>3 DEF Stoppable, CallsFree
  <2>5. Ordered(runner') /\ Goes(q, runner')
    BY <1>1, <2>1, <2>3, <2>4, FailOrdered
  <2>6. Writes(q) = Writes(runner) /\ (InBoundary(q) => InBoundary(runner))
    BY <2>3 DEF Writes, InBoundary
  <2>7. Goes(runner, runner')
    BY <2>3, <2>5, <2>6, GoesFrom
  <2>. QED  BY <1>7, <2>5, <2>7 DEF DoorGraceOver
<1>8. CASE StartComes
  BY <1>8, StartOrdered DEF StartComes
<1>. QED  BY <1>4, <1>5, <1>6, <1>7, <1>8 DEF Timer

-----------------------------------------------------------------------------
(* The restart.                                                            *)

\* A new runner rests.
LEMMA NewRests == Resting(NewRunner) /\ ~NewRunner.up /\ NewRunner.record = NoRecord
<1>1. Slots = Background \cup Calls
  BY Places
<1>2. \A t \in Slots : NewRunner.tasks[t].pc = "free"
  BY DEF NewRunner, NoTask
<1>3. DOMAIN NewRunner.saves = {}
  BY DEF NewRunner
<1>4. Owned(NewRunner)
  BY <1>2, <1>3 DEF Owned, SavePcs
<1>5. Sound(NewRunner.record) /\ NewRunner.record.state = "idle"
  BY DEF NewRunner, NoRecord, Sound, Active
<1>6. /\ NewRunner.unsubs = {} /\ NewRunner.step_unsubs = {} /\ ~NewRunner.door_timer
      /\ ~NewRunner.up /\ NewRunner.record = NoRecord
  BY DEF NewRunner
<1>7. OnePowerOff(NewRunner)
  BY <1>1, <1>2 DEF OnePowerOff
<1>. QED  BY <1>1, <1>2, <1>4, <1>5, <1>6, <1>7 DEF Resting

\* A setup finds the record that was saved, and nothing under way.
LEMMA LoadedFacts ==
    ASSUME TypeOK, Ordered(runner), ~runner.up
    PROVE  /\ Loaded \in Runners /\ Loaded.up /\ Loaded.record = disk
           /\ Loaded.unsubs = {} /\ Loaded.step_unsubs = {} /\ ~Loaded.door_timer
           /\ Loaded.saves = <<>> /\ \A t \in Slots : Loaded.tasks[t].pc = "free"
<1>1. runner = NewRunner /\ runner \in Runners /\ disk \in Records
  BY DownIsNew DEF TypeOK
<1>2. /\ runner.unsubs = {} /\ runner.step_unsubs = {} /\ ~runner.door_timer
      /\ runner.saves = <<>> /\ \A t \in Slots : runner.tasks[t].pc = "free"
  BY <1>1 DEF NewRunner, NoTask
<1>3. /\ Loaded \in Runners /\ Loaded.up /\ Loaded.record = disk
      /\ Loaded.unsubs = runner.unsubs /\ Loaded.step_unsubs = runner.step_unsubs
      /\ Loaded.door_timer = runner.door_timer
      /\ Loaded.saves = runner.saves /\ Loaded.tasks = runner.tasks
  BY <1>1 DEF Loaded, Runners
<1>. QED  BY <1>2, <1>3

\* It goes on from that record.
LEMMA SetupOrdered ==
    ASSUME TypeOK, Ordered(runner), Sound(disk), Setup
    PROVE  /\ Ordered(runner') /\ UNCHANGED disk /\ ~runner.up
           /\ runner' = Loaded \/ Goes(Loaded, runner')
           /\ \/ runner'.record = disk /\ runner'.saves = <<>> /\ ~InBoundary(runner')
              \/ disk.state = "scheduled" /\ runner'.record.state \in {"running", "failed"}
<1> DEFINE n == NewTask(runner)
<1>1. n \in Background /\ ~runner.up
  BY NewTaskFree DEF Setup, SetupInactive, SetupRunning, SetupScheduled
<1>2. Slots = Background \cup Calls /\ Nobody \notin Slots /\ Background \cap Calls = {}
  BY Places
<1> HIDE DEF n
<1> DEFINE l == Loaded
<1>3. /\ l \in Runners /\ l.up /\ l.record = disk
      /\ l.unsubs = {} /\ l.step_unsubs = {} /\ ~l.door_timer
      /\ l.saves = <<>> /\ \A t \in Slots : l.tasks[t].pc = "free"
  BY <1>1, LoadedFacts
<1> HIDE DEF l
<1>4. /\ CallsFree(l) /\ OnePowerOff(l) /\ ~InBoundary(l)
      /\ \A t : Beside(l, t) /\ Alone(l, t)
  BY <1>2, <1>3 DEF CallsFree, OnePowerOff, InBoundary, Beside, Alone, TransitionPcs
<1>5. DOMAIN l.saves = {}
  BY <1>3
<1>6. Owned(l)
  BY <1>3, <1>5 DEF Owned, SavePcs
<1>7. CASE SetupInactive
  <2>1. Resting(l)
    BY <1>2, <1>3, <1>4, <1>6, <1>7 DEF Resting, SetupInactive, Active
  <2>. QED  BY <1>1, <1>3, <1>4, <1>7, <2>1 DEF SetupInactive, Ordered, l
<1>8. CASE SetupRunning
  <2> DEFINE q == Wait(l, n, "recoverWait", oven)
  <2>1. Moved(l, q, n, {"recoverWait"})
    BY <1>1, <1>2, <1>3, WaitMoved
  <2> HIDE DEF q
  <2>2. \A t \in Slots \ {n} : q.tasks[t].pc = "free"
    BY <1>3, <2>1 DEF Moved
  <2>3. /\ CallsFree(q) /\ OnePowerOff(q) /\ ~InBoundary(q) /\ Beside(q, n) /\ Alone(q, n)
    BY <1>1, <1>2, <2>1, <2>2
       DEF CallsFree, OnePowerOff, InBoundary, Beside, Alone, TransitionPcs, Moved
  <2>4. Recovering(q, n)
    BY <1>3, <1>8, <2>1, <2>3 DEF Recovering, Ready, InRun, Calm, Moved, SetupRunning
  <2>5. Goes(l, q) /\ q.record = disk /\ q.saves = <<>>
    BY <1>3, <2>1, <2>3 DEF Goes, Quietly, Moved, Writes
  <2>. QED  BY <1>1, <1>8, <2>3, <2>4, <2>5
            DEF SetupRunning, Ordered, Acting, l, q, n
<1>9. CASE SetupScheduled
  <2>1. l.record.state = "scheduled" /\ Sound(l.record)
    BY <1>3, <1>9 DEF SetupScheduled
  <2>2. CASE clock.start = "future"
    <3> DEFINE q == [l EXCEPT !.unsubs = {"due"}]
    <3>1. /\ q.up = l.up /\ q.record = l.record /\ q.unsubs = {"due"}
          /\ q.step_unsubs = l.step_unsubs /\ q.door_timer = l.door_timer
          /\ q.tasks = l.tasks /\ q.saves = l.saves
      BY <1>3 DEF Runners
    <3> HIDE DEF q
    <3>2. Resting(q)
      BY <1>2, <1>3, <1>4, <1>6, <2>1, <3>1
         DEF Resting, Attended, Owned, OnePowerOff, Beside, Alone
    <3>3. Goes(l, q) /\ q.record = disk /\ q.saves = <<>> /\ ~InBoundary(q)
      BY <1>3, <1>4, <3>1 DEF Goes, Quietly, InBoundary, Writes
    <3>. QED  BY <1>1, <1>9, <2>2, <3>2, <3>3 DEF SetupScheduled, Ordered, l, q
  <2>3. CASE clock.start = "due"
    <3>1. PICK home : runner' = Begin(l, n, oven, home)
      BY <1>9, <2>3 DEF SetupScheduled, Begins, l, n
    <3>2. Startable(l, n)
      BY <1>3, <1>4, <2>1 DEF Startable
    <3>3. /\ Ordered(runner') /\ Goes(l, runner')
          /\ runner'.record.state \in {"running", "failed"}
      BY <1>1, <1>3, <3>1, <3>2, BeginOrdered
    <3>. QED  BY <1>1, <1>9, <3>3 DEF SetupScheduled, l
  <2>4. CASE clock.start = "missed"
    <3>1. runner' = Fail(l, n, FALSE, "return", oven)
      BY <1>9, <2>4 DEF SetupScheduled, l, n
    <3>2. Stoppable(l, n)
      BY <1>3, <1>4, <1>5, <2>1 DEF Stoppable, Active
    <3>3. Ordered(runner') /\ Goes(l, runner') /\ runner'.record.state = "failed"
      BY <1>1, <1>3, <3>1, <3>2, FailOrdered
    <3>. QED  BY <1>1, <1>9, <3>3 DEF SetupScheduled, l
  <2>5. clock.start \in {"future", "due", "missed"}
    BY DEF TypeOK, Clocks
  <2>. QED  BY <2>2, <2>3, <2>4, <2>5
<1>. QED  BY <1>7, <1>8, <1>9 DEF Setup

-----------------------------------------------------------------------------
(* A step.                                                                 *)

\* What a step does to the record and the writes: nothing; it goes on; a step
\* runs; a write lands and the coroutine goes on; a crash; a restart.
Course ==
    \/ UNCHANGED <<runner, disk>>
    \/ UNCHANGED disk /\ Goes(runner, runner')
    \/ UNCHANGED disk /\ Starts(runner, runner') /\ \E s \in Background : StepStarts(s)
    \/ /\ runner.up /\ runner.saves # <<>> /\ disk' = Head(runner.saves).record
       /\ Goes(Landed, runner')
    \/ UNCHANGED disk /\ runner.up /\ runner' = NewRunner
    \/ /\ UNCHANGED disk /\ ~runner.up /\ runner'.up
       /\ \/ runner'.record = disk /\ runner'.saves = <<>> /\ ~InBoundary(runner')
          \/ /\ Goes(Loaded, runner')
             /\ disk.state = "scheduled" /\ runner'.record.state \in {"running", "failed"}

\* Every step leaves an order and follows that course.
LEMMA StepOrdered ==
    ASSUME OneCall, TypeOK, Ordered(runner), Fresh(runner), Written, Sound(disk), Next
    PROVE  Ordered(runner') /\ Course
<1>1. CASE Observe
  <2>1. /\ Ordered(runner') /\ UNCHANGED disk
        /\ runner.up => Goes(runner, runner')
        /\ ~runner.up => runner' = runner
    BY <1>1, ObserveOrdered
  <2>. QED  BY <2>1 DEF Course
<1>2. CASE \E s \in Background : Resume(s)
  BY <1>2, ResumeOrdered DEF Course
<1>3. CASE Save
  BY <1>3, SaveOrdered DEF Course
<1>4. CASE Command
  BY <1>4, CommandOrdered DEF Course
<1>5. CASE Timer
  BY <1>5, TimerOrdered DEF Course
<1>6. CASE TimePasses
  <2>1. UNCHANGED <<runner, disk>>
    BY <1>6 DEF TimePasses, StartPasses, StepPasses, MaxPasses
  <2>. QED  BY <2>1 DEF Course
<1>7. CASE Crash
  <2>1. runner.up /\ runner' = NewRunner /\ UNCHANGED disk
    BY <1>7 DEF Crash
  <2>. QED  BY <2>1, NewRests DEF Course, Ordered
<1>8. CASE Setup
  <2>1. /\ Ordered(runner') /\ UNCHANGED disk /\ ~runner.up
        /\ runner' = Loaded \/ Goes(Loaded, runner')
        /\ \/ runner'.record = disk /\ runner'.saves = <<>> /\ ~InBoundary(runner')
           \/ disk.state = "scheduled" /\ runner'.record.state \in {"running", "failed"}
    BY <1>8, SetupOrdered
  <2>2. Loaded.up /\ Loaded.record = disk
    BY <2>1, LoadedFacts
  <2>3. runner'.up
    BY <2>1, <2>2 DEF Goes
  <2>4. runner' = Loaded => disk.state # "scheduled" \/ runner'.record.state = "scheduled"
    BY <2>2
  <2>. QED  BY <2>1, <2>3, <2>4 DEF Course
<1>. QED  BY <1>1, <1>2, <1>3, <1>4, <1>5, <1>6, <1>7, <1>8 DEF Next

-----------------------------------------------------------------------------
(* The record and the youngest one asked to be written.                    *)

Youngest(saved, writes) == IF writes = <<>> THEN saved ELSE writes[Len(writes)]

\* The youngest record to be written says what the run is, but that a run's start
\* and its step are not written before the step runs.
Keeps(young, r) ==
    /\ r.record.state # "running" => young.state = r.record.state
    /\ r.record.state = "running" =>
          /\ young.state \in Active
          /\ young.state = "running" =>
                /\ young.step_index <= r.record.step_index
                /\ InBoundary(r) => young.step_index < r.record.step_index

Stored(saved, r) ==
    /\ Sound(saved) /\ \A i \in DOMAIN Writes(r) : Sound(Writes(r)[i])
    /\ r.up => Keeps(Youngest(saved, Writes(r)), r)

\* Whatever was asked for is a record.
LEMMA YoungestType ==
    ASSUME NEW r \in Runners, NEW saved \in Records
    PROVE  Youngest(saved, Writes(r)) \in Records
<1>1. Writes(r) \in Seq(Records)
  BY WritesType
<1>. QED  BY <1>1, EmptySeq, LenProperties, ElementOfSeq DEF Youngest

\* A run that goes on keeps to what is stored.
LEMMA GoesStored ==
    ASSUME NEW r \in Runners, NEW q \in Runners, NEW saved \in Records,
           Stored(saved, r), Sound(q.record), Goes(r, q) \/ Starts(r, q)
    PROVE  Stored(saved, q)
<1> DEFINE y == Youngest(saved, Writes(r))
<1>1. y \in Records /\ r.record \in Records /\ q.record \in Records
  BY YoungestType DEF Runners
<1>2. Keeps(y, r) /\ r.up /\ q.up
  BY DEF Stored, Goes, Starts
<1>3. ASSUME Quietly(r, q), Writes(q) = Writes(r) PROVE Stored(saved, q)
  <2>1. /\ y.step_index \in Int /\ r.record.step_index \in Int
    BY <1>1, BoundsAssumption DEF Records
  <2> HIDE DEF y
  <2>2. Keeps(y, q)
    <3>1. CASE q.record = r.record /\ (InBoundary(q) => InBoundary(r))
      BY <1>2, <3>1 DEF Keeps
    <3>2. CASE /\ r.record.state = "scheduled"
               /\ q.record = [r.record EXCEPT !.state = "running", !.step_index = 1]
      BY <1>1, <1>2, <3>2 DEF Keeps, Active, Records
    <3>3. CASE /\ r.record.state = "running"
               /\ q.record = [r.record EXCEPT !.step_index = @ + 1]
      BY <1>1, <1>2, <2>1, <3>3 DEF Keeps, Records
    <3>. QED  BY <1>3, <3>1, <3>2, <3>3 DEF Quietly
  <2>. QED  BY <1>3, <2>2 DEF Stored, y
<1>4. ASSUME Writes(q) = Append(Writes(r), q.record), q.record.state = "running" => ~InBoundary(q)
      PROVE  Stored(saved, q)
  <2>1. /\ Writes(r) \in Seq(Records) /\ Writes(q) \in Seq(Records)
    BY WritesType
  <2>2. /\ Len(Writes(q)) = Len(Writes(r)) + 1 /\ Len(Writes(r)) \in Nat
        /\ \A i \in 1 .. Len(Writes(r)) : Writes(q)[i] = Writes(r)[i]
        /\ Writes(q)[Len(Writes(r)) + 1] = q.record
        /\ DOMAIN Writes(q) = 1 .. (Len(Writes(r)) + 1)
        /\ DOMAIN Writes(r) = 1 .. Len(Writes(r))
    BY <1>1, <1>4, <2>1, AppendProperties, LenProperties
  <2>3. Writes(q) # <<>>
    BY <2>2, EmptySeq
  <2>4. Youngest(saved, Writes(q)) = q.record
    BY <2>2, <2>3 DEF Youngest
  <2>5. Keeps(q.record, q)
    <3>1. q.record.step_index \in Int
      BY <1>1, BoundsAssumption DEF Records
    <3>. QED  BY <1>4, <3>1 DEF Keeps, Active
  <2>6. \A i \in DOMAIN Writes(q) : Sound(Writes(q)[i])
    BY <2>2 DEF Stored
  <2>. QED  BY <2>4, <2>5, <2>6 DEF Stored
<1>5. Goes(r, q) => \/ Quietly(r, q) /\ Writes(q) = Writes(r)
                    \/ Writes(q) = Append(Writes(r), q.record) /\ q.record.state # "running"
  BY DEF Goes, Asking
<1>6. Starts(r, q) => Writes(q) = Append(Writes(r), q.record) /\ ~InBoundary(q)
  BY DEF Starts
<1>. QED  BY <1>3, <1>4, <1>5, <1>6

\* What lands was the oldest of what is stored.
LEMMA LandedStored ==
    ASSUME TypeOK, Stored(disk, runner), runner.saves # <<>>
    PROVE  Stored(Head(runner.saves).record, Landed)
<1> DEFINE n == Len(runner.saves)
           w == Writes(runner)
           l == Writes(Landed)
<1>1. runner \in Runners /\ Landed \in Runners
  BY LandedFacts DEF TypeOK
<1>2. n \in Nat \ {0} /\ Len(w) = n /\ Len(l) = n - 1 /\ w \in Seq(Records) /\ l \in Seq(Records)
  BY <1>1, LandedFacts, WritesType
<1>3. l = Tail(w) /\ Head(w) = Head(runner.saves).record /\ w # <<>>
  BY <1>1, LandedFacts
<1>4. /\ \A i \in 1 .. (n - 1) : l[i] = w[i + 1]
      /\ Head(w) = w[1] /\ DOMAIN w = 1 .. n /\ DOMAIN l = 1 .. (n - 1)
  BY <1>2, <1>3, HeadTailProperties, LenProperties
<1> HIDE DEF n, w, l
<1>5. Youngest(Head(w), l) = Youngest(disk, w)
  <2>1. CASE n = 1
    BY <1>2, <1>3, <1>4, <2>1, EmptySeq DEF Youngest
  <2>2. CASE n > 1
    <3>1. l # <<>>
      BY <1>2, <2>2, EmptySeq
    <3>2. l[n - 1] = w[(n - 1) + 1]
      BY <1>2, <1>4, <2>2
    <3>. QED  BY <1>2, <1>3, <3>1, <3>2 DEF Youngest
  <2>. QED  BY <1>2, <2>1, <2>2
<1>6. Sound(Head(w)) /\ \A i \in DOMAIN l : Sound(l[i])
  <2>1. \A i \in DOMAIN w : Sound(w[i])
    BY DEF Stored, w
  <2>2. 1 \in DOMAIN w /\ \A i \in DOMAIN l : i + 1 \in DOMAIN w
    BY <1>2, <1>4
  <2>. QED  BY <1>4, <2>1, <2>2
<1>7. \A y : Keeps(y, Landed) = Keeps(y, runner)
  BY <1>1, LandedFacts DEF Keeps, InBoundary
<1>8. Landed.up = runner.up
  BY <1>1, LandedFacts
<1>. QED  BY <1>3, <1>5, <1>6, <1>7, <1>8 DEF Stored, w, l

\* In every situation the record is sound.
LEMMA OrderedSound ==
    ASSUME NEW r, Ordered(r)
    PROVE  Sound(r.record)
  BY DEF Ordered, Acting, Boundary, Saving, Failing, Finishing, Recovering, Steady, Aborting,
         Resting, Ready, InRun

\* Every step keeps to what is stored.
LEMMA CourseStored ==
    ASSUME TypeOK, TypeOK', Ordered(runner), Ordered(runner'), Stored(disk, runner), Course
    PROVE  Stored(disk', runner')
<1>1. runner \in Runners /\ runner' \in Runners /\ disk \in Records /\ Sound(runner'.record)
  BY OrderedSound DEF TypeOK
<1>2. CASE UNCHANGED <<runner, disk>>
  BY <1>2
<1>3. CASE UNCHANGED disk /\ (Goes(runner, runner') \/ Starts(runner, runner'))
  BY <1>1, <1>3, GoesStored
<1>4. CASE /\ runner.up /\ runner.saves # <<>> /\ disk' = Head(runner.saves).record
           /\ Goes(Landed, runner')
  <2>1. Landed \in Runners /\ Head(runner.saves).record \in Records
    BY <1>1, <1>4, LandedType
  <2>2. Stored(Head(runner.saves).record, Landed)
    BY <1>4, LandedStored
  <2>. QED  BY <1>1, <1>4, <2>1, <2>2, GoesStored
<1>5. ASSUME Sound(disk), runner'.saves = <<>>, ~runner'.up \/ Keeps(disk, runner'), UNCHANGED disk
      PROVE  Stored(disk', runner')
  <2>1. Writes(runner') = <<>>
    BY <1>1, <1>5, WritesType
  <2>. QED  BY <1>5, <2>1, EmptySeq DEF Stored, Youngest
<1>6. CASE UNCHANGED disk /\ runner.up /\ runner' = NewRunner
  <2>1. runner'.saves = <<>> /\ ~runner'.up
    BY <1>6 DEF NewRunner
  <2>. QED  BY <1>5, <1>6, <2>1 DEF Stored
<1>7. ASSUME UNCHANGED disk, runner'.record = disk, runner'.saves = <<>>, ~InBoundary(runner')
      PROVE  Stored(disk', runner')
  <2>1. disk.step_index \in Int
    BY <1>1, BoundsAssumption DEF Records
  <2>2. Keeps(disk, runner')
    BY <1>7, <2>1 DEF Keeps, Active
  <2>. QED  BY <1>5, <1>7, <2>2 DEF Stored
<1>8. ASSUME UNCHANGED disk, ~runner.up, Goes(Loaded, runner'), disk.state = "scheduled"
      PROVE  Stored(disk', runner')
  <2>1. /\ Loaded \in Runners /\ Loaded.up /\ Loaded.record = disk /\ Loaded.saves = <<>>
    BY <1>8, LoadedFacts
  <2>2. Writes(Loaded) = <<>>
    BY <2>1, WritesType
  <2>3. Stored(disk, Loaded)
    BY <1>8, <2>1, <2>2, EmptySeq DEF Stored, Youngest, Keeps
  <2>. QED  BY <1>1, <1>8, <2>1, <2>3, GoesStored
<1>. QED  BY <1>2, <1>3, <1>4, <1>6, <1>7, <1>8 DEF Course

-----------------------------------------------------------------------------
(* A step that is being saved.                                             *)

\* A run that goes on does not ask for its step to be written.
LEMMA GoesSaves ==
    ASSUME NEW r \in Runners, NEW q \in Runners, NEW saved \in Records,
           Stored(saved, r), Goes(r, q), SavesStep(q)
    PROVE  SavesStep(r) /\ q.record = r.record
<1> DEFINE y == Youngest(saved, Writes(r))
<1>1. y \in Records /\ r.record \in Records /\ Keeps(y, r)
  BY YoungestType DEF Runners, Stored, Goes
<1>2. Quietly(r, q) /\ Writes(q) = Writes(r)
  BY DEF Goes, Asking, SavesStep
<1>3. y = q.record
  BY <1>2 DEF SavesStep, Youngest
<1> HIDE DEF y
<1>4. y.step_index \in Int /\ r.record.step_index \in Int
  BY <1>1, BoundsAssumption DEF Records
<1>5. ~ /\ r.record.state = "scheduled"
        /\ q.record = [r.record EXCEPT !.state = "running", !.step_index = 1]
  BY <1>1, <1>3 DEF Keeps, SavesStep
<1>6. ~ /\ r.record.state = "running"
        /\ q.record = [r.record EXCEPT !.step_index = @ + 1]
  <2> SUFFICES ASSUME r.record.state = "running",
                      q.record = [r.record EXCEPT !.step_index = @ + 1]
               PROVE  FALSE
    OBVIOUS
  <2>1. y.state = "running" /\ y.step_index = r.record.step_index + 1
    BY <1>1, <1>3 DEF Records
  <2>. QED  BY <1>1, <1>4, <2>1 DEF Keeps
<1>7. q.record = r.record
  BY <1>2, <1>5, <1>6 DEF Quietly
<1>. QED  BY <1>2, <1>7 DEF SavesStep

\* Only a start, and time, move the clock of a step.
LEMMA ClockSteps ==
    ASSUME TypeOK, Next
    PROVE  clock'.step = clock.step \/ StepPasses \/ \E s \in Background : StepStarts(s)
<1>1. clock \in Clocks
  BY DEF TypeOK
<1>2. [clock EXCEPT !.max = FALSE].step = clock.step
  BY <1>1 DEF Clocks
<1>3. \A r, s : Begins(r, s) => clock'.step = clock.step
  BY <1>2 DEF Begins
<1>4. CASE Observe
  BY <1>4 DEF Observe, OnOperation, OnLinkDrop, OnDoor, OnRemoteStart, OnTemperature
<1>5. ASSUME NEW s \in Background, Resume(s), ~StepStarts(s) PROVE clock'.step = clock.step
  BY <1>5 DEF Resume, StopPress, StopWait, RemoteWait, Dial, StartPress, StartTimesOut,
              FailPress, FinishPress, PowerOff, RecoverWait
<1>6. CASE Save
  BY <1>3, <1>6 DEF Save, StepSaved, FailSaved, RunNowSaved, LastSaved, OrphanSaved
<1>7. CASE Command
  BY <1>1, <1>7 DEF Command, CallRun, CallAbort, AbortPress, Clocks
<1>8. CASE Timer
  BY <1>3, <1>8 DEF Timer, StartComes, StepTimer, PreheatTimeout, MaxReached, DoorGraceOver
<1>9. CASE StartPasses \/ MaxPasses
  BY <1>1, <1>9 DEF StartPasses, MaxPasses, Clocks
<1>10. CASE Crash
  BY <1>10 DEF Crash
<1>11. CASE Setup
  <2>1. SetupScheduled => clock'.step = clock.step
    <3>1. clock.start \in {"future", "due", "missed"}
      BY <1>1 DEF Clocks
    <3>. QED  BY <1>3, <3>1 DEF SetupScheduled
  <2>. QED  BY <1>11, <2>1 DEF Setup, SetupInactive, SetupRunning
<1>. QED  BY <1>4, <1>5, <1>6, <1>7, <1>8, <1>9, <1>10, <1>11 DEF Next, TimePasses

\* A step that starts is further from its end than the end slack.
LEMMA StartsFresh ==
    ASSUME NoBriefSteps, TypeOK, Ordered(runner), NEW s \in Background, StepStarts(s),
           runner'.record.ends # 0
    PROVE  clock'.step[runner'.record.ends] = "early"
<1> DEFINE k == runner.tasks[s].step
           q == [runner EXCEPT !.transitioning = FALSE]
           ends == IF StepAt(q, k).kind = "hold" THEN 0 ELSE k
           p == [q EXCEPT !.record.ends = ends]
           record == [runner.record EXCEPT !.ends = ends]
<1>1. runner \in Runners /\ s \in Slots /\ clock \in Clocks
  BY Places DEF TypeOK
<1>2. Boundary(runner, s)
  <2>1. runner.tasks[s].pc \in TransitionPcs
    BY DEF StepStarts, Is, TransitionPcs
  <2>. QED  BY <1>1, <2>1, WhichByTask
<1>3. /\ runner.record.state = "running" /\ runner.record \in Records
      /\ k = runner.record.step_index /\ k \in 1 .. Len(runner.record.preset)
      /\ runner.record.preset # <<>>
  BY <1>1, <1>2 DEF Boundary, Ready, InRun, Sound, Runners, Active
<1>4. runner.record.preset \in Presets /\ k \in 1 .. MaxSteps
  BY <1>3, PresetsAssumption, BoundsAssumption DEF Records
<1>5. q.record = runner.record
  BY <1>1 DEF Runners
<1>6. ~StepAt(q, k).brief
  BY <1>3, <1>4, <1>5 DEF NoBriefSteps, StepAt
<1>7. runner' = Commit(p, s, "stepSave") /\ clock' = [clock EXCEPT !.step[k] = "early"]
  BY <1>3, <1>6 DEF StepStarts
<1> HIDE DEF ends, q
<1>8. runner'.record = p.record
  <2>1. Commit(p, s, "stepSave").record = p.record
    <3>1. DOMAIN p = DOMAIN q /\ DOMAIN q = DOMAIN runner
      BY DEF q
    <3>. QED  BY <1>1, <3>1 DEF Commit, At, Runners
  <2>. QED  BY <1>7, <2>1
<1>9. p.record.ends = ends
  <2>1. p.record = [q.record EXCEPT !.ends = ends]
    <3>1. DOMAIN q = DOMAIN runner
      BY DEF q
    <3>. QED  BY <1>1, <3>1 DEF Runners
  <2>. QED  BY <1>3, <1>5, <2>1 DEF Records
<1>10. ends = k
  BY <1>8, <1>9 DEF ends
<1>11. clock'.step[k] = "early"
  BY <1>1, <1>4, <1>7 DEF Clocks
<1>. QED  BY <1>8, <1>9, <1>10, <1>11

\* A step that is being saved stays clear of its end.
LEMMA FreshKept ==
    ASSUME NoBriefSteps, TypeOK, TypeOK', Ordered(runner), Stored(disk, runner),
           Fresh(runner), Next, Course
    PROVE  SavesStep(runner') => clock'.step[runner'.record.ends] = "early"
<1> SUFFICES ASSUME SavesStep(runner') PROVE clock'.step[runner'.record.ends] = "early"
  OBVIOUS
<1>1. /\ runner \in Runners /\ runner' \in Runners /\ disk \in Records
      /\ runner'.record.ends # 0 /\ runner'.record.state = "running" /\ Writes(runner') # <<>>
  BY DEF TypeOK, SavesStep
<1>2. CASE \E s \in Background : StepStarts(s)
  BY <1>1, <1>2, StartsFresh
<1>3. CASE ~\E s \in Background : StepStarts(s)
  <2>1. SavesStep(runner) /\ runner'.record = runner.record
    <3>1. CASE UNCHANGED <<runner, disk>>
      BY <3>1
    <3>2. CASE Goes(runner, runner')
      BY <1>1, <3>2, GoesSaves
    <3>3. CASE /\ runner.up /\ runner.saves # <<>> /\ disk' = Head(runner.saves).record
               /\ Goes(Landed, runner')
      <4> DEFINE w == Writes(runner)
                 l == Writes(Landed)
      <4>1. Landed \in Runners /\ Head(runner.saves).record \in Records
        BY <1>1, <3>3, LandedType
      <4>2. Stored(Head(runner.saves).record, Landed)
        BY <3>3, LandedStored
      <4>3. SavesStep(Landed) /\ runner'.record = Landed.record
        BY <1>1, <3>3, <4>1, <4>2, GoesSaves
      <4>4. Landed.record = runner.record /\ l = Tail(w) /\ w \in Seq(Records) /\ w # <<>>
            /\ l # <<>>
        BY <1>1, <3>3, <4>3, LandedFacts, WritesType DEF SavesStep
      <4> HIDE DEF w, l
      <4>5. /\ Len(w) \in Nat \ {0} /\ Len(l) = Len(w) - 1 /\ Len(l) # 0
            /\ \A i \in 1 .. Len(l) : l[i] = w[i + 1]
        BY <4>4, HeadTailProperties, EmptySeq, LenProperties
      <4>6. l[Len(l)] = w[Len(w)]
        BY <4>5
      <4>. QED  BY <4>3, <4>4, <4>6 DEF SavesStep, w, l
    <3>4. CASE runner' = NewRunner
      BY <1>1, <3>4, NewRests DEF NoRecord
    <3>5. CASE runner'.saves = <<>>
      BY <1>1, <3>5, WritesType
    <3>6. CASE Goes(Loaded, runner') /\ ~runner.up /\ disk.state = "scheduled"
      <4>1. Loaded \in Runners /\ Loaded.record = disk
        BY <3>6, LoadedFacts
      <4>2. Loaded.saves = <<>>
        BY <3>6, LoadedFacts
      <4>3. Writes(Loaded) = <<>>
        BY <4>1, <4>2, WritesType
      <4>4. Stored(disk, Loaded)
        BY <3>6, <4>1, <4>3, EmptySeq DEF Stored, Youngest, Keeps
      <4>5. SavesStep(Loaded)
        BY <1>1, <3>6, <4>1, <4>4, GoesSaves
      <4>. QED  BY <4>3, <4>5 DEF SavesStep
    <3>. QED  BY <1>3, <3>1, <3>2, <3>3, <3>4, <3>5, <3>6 DEF Course
  <2>2. ~StepPasses
    <3>1. runner.saves # <<>>
      BY <1>1, <2>1, WritesType DEF SavesStep
    <3>. QED  BY <3>1 DEF StepPasses
  <2>3. clock'.step = clock.step
    BY <1>3, <2>2, ClockSteps
  <2>. QED  BY <2>1, <2>3 DEF Fresh
<1>. QED  BY <1>2, <1>3

-----------------------------------------------------------------------------
(* A schedule that waits for its time.                                     *)

\* Nothing but a run service makes a runner at rest a scheduled one, or arms the
\* timer of its start.
LEMMA RestKept ==
    ASSUME OneCall, TypeOK, Ordered(runner), Written, Resting(runner), runner.up, Next,
           ~\E c \in Calls, p \in Presets, later \in BOOLEAN : CallRun(c, p, later),
           runner'.record.state = "scheduled"
    PROVE  /\ runner'.record = runner.record /\ runner'.unsubs = runner.unsubs
           /\ runner.saves = <<>> => runner'.saves = <<>>
<1>1. /\ runner \in Runners /\ Slots = Background \cup Calls /\ Background \cap Calls = {}
  BY Places DEF TypeOK
<1>2. /\ runner.record.state # "running" /\ runner.step_unsubs = {} /\ ~runner.door_timer
      /\ "max" \notin runner.unsubs
      /\ \A s \in Background :
            runner.tasks[s].pc \in {"free", "powerOff", "failSave", "finishSave"}
      /\ \A c \in Calls : runner.tasks[c].pc \in {"free", "runSave", "runNowSave", "abortSave"}
  BY DEF Resting
<1>3. CASE Observe
  <2> DEFINE w == Wake(runner, oven')
  <2>1. Alike(runner, w)
    BY <1>1, WakeOrdered
  <2> HIDE DEF w
  <2>2. ~Listening(runner) /\ ~Listening(w) /\ w.step_unsubs = {}
    BY <1>2, <2>1 DEF Listening, Alike
  <2>3. runner' \in {runner, w}
    BY <1>2, <1>3, <2>2
       DEF Observe, OnOperation, OnLinkDrop, OnDoor, OnRemoteStart, OnTemperature,
           CheckOperation, CheckDoor, CheckTemperature, w
  <2>. QED  BY <2>1, <2>3 DEF Alike
<1>4. ASSUME NEW s \in Background, Resume(s)
      PROVE  runner'.record = runner.record /\ runner'.unsubs = runner.unsubs
             /\ runner'.saves = runner.saves
  <2>1. PowerOff(s)
    BY <1>2, <1>4 DEF Resume, StopPress, StopWait, RemoteWait, Dial, Dials, StartPress,
                      StartTimesOut, StepStarts, FailPress, FinishPress, RecoverWait, Is
  <2>. QED  BY <1>1, <2>1 DEF PowerOff, End, Runners
<1>5. CASE Save
  <2>1. /\ runner.saves # <<>> /\ Landed \in Runners
        /\ Landed.record = runner.record /\ Landed.unsubs = runner.unsubs
    <3>1. runner.saves # <<>>
      BY <1>5 DEF Save, StepSaved, FailSaved, RunNowSaved, LastSaved, Lands, OrphanSaved
    <3>. QED  BY <1>1, <3>1, LandedFacts
  <2>2. ASSUME NEW s \in Slots, StepSaved(s) PROVE FALSE
    BY <1>1, <1>2, <2>2 DEF StepSaved, Lands, Is
  <2>3. ASSUME NEW s \in Slots, RunNowSaved(s) PROVE FALSE
    BY <2>3, RunNowSavedOrdered
  <2>4. ASSUME NEW s \in Slots, FailSaved(s)
        PROVE  runner'.record = runner.record /\ runner'.unsubs = runner.unsubs
    <3>1. \A v : /\ [End(Landed, s) EXCEPT !.transitioning = v].record = Landed.record
                 /\ [End(Landed, s) EXCEPT !.transitioning = v].unsubs = Landed.unsubs
      BY <2>1 DEF End, Runners
    <3>2. /\ At(Landed, s, "powerOff").record = Landed.record
          /\ At(Landed, s, "powerOff").unsubs = Landed.unsubs
      BY <2>1 DEF At, Runners
    <3>. QED  BY <2>1, <2>4, <3>1, <3>2 DEF FailSaved
  <2>5. ASSUME NEW s \in Slots, LastSaved(s)
        PROVE  runner'.record = runner.record /\ runner'.unsubs = runner.unsubs
    BY <2>1, <2>5 DEF LastSaved, End, Runners
  <2>6. CASE OrphanSaved
    BY <2>1, <2>6 DEF OrphanSaved
  <2>. QED  BY <1>5, <2>1, <2>2, <2>3, <2>4, <2>5, <2>6 DEF Save
<1>6. ~Command
  <2> SUFFICES ASSUME Command PROVE FALSE
    OBVIOUS
  <2>1. PICK c \in Calls : CallAbort(c) \/ AbortPress(c)
    BY DEF Command
  <2>2. ~AbortPress(c)
    BY <1>2 DEF AbortPress, Is
  <2>3. runner'.record.state \in {"running", "idle"}
    BY <2>1, <2>2, CallAbortOrdered
  <2>. QED  BY <2>3
<1>7. ~Timer
  <2> SUFFICES ASSUME Timer PROVE FALSE
    OBVIOUS
  <2>1. StartComes
    BY <1>2 DEF Timer, StepTimer, PreheatTimeout, MaxReached, DoorGraceOver
  <2>. QED  BY <2>1, StartOrdered
<1>8. CASE TimePasses
  BY <1>8 DEF TimePasses, StartPasses, StepPasses, MaxPasses
<1>9. ~Crash
  BY NewRests DEF Crash, NoRecord
<1>10. ~Setup
  BY DEF Setup, SetupInactive, SetupRunning, SetupScheduled
<1>. QED  BY <1>3, <1>4, <1>5, <1>6, <1>7, <1>8, <1>9, <1>10 DEF Next

\* Only time, and a run service, move the clock of the start.
LEMMA ClockStart ==
    ASSUME TypeOK, Next,
           ~\E c \in Calls, p \in Presets, later \in BOOLEAN : CallRun(c, p, later)
    PROVE  clock'.start = clock.start \/ StartPasses
<1>1. clock \in Clocks
  BY DEF TypeOK
<1>2. [clock EXCEPT !.max = FALSE].start = clock.start
  BY <1>1 DEF Clocks
<1>3. \A r, s : Begins(r, s) => clock'.start = clock.start
  BY <1>2 DEF Begins
<1>4. CASE Observe
  BY <1>4 DEF Observe, OnOperation, OnLinkDrop, OnDoor, OnRemoteStart, OnTemperature
<1>5. ASSUME NEW s \in Background, Resume(s) PROVE clock'.start = clock.start
  <2>1. StepStarts(s) => clock'.start = clock.start
    BY <1>1 DEF StepStarts, Clocks
  <2>. QED
    BY <1>5, <2>1 DEF Resume, StopPress, StopWait, RemoteWait, Dial, StartPress, StartTimesOut,
                FailPress, FinishPress, PowerOff, RecoverWait
<1>6. CASE Save
  BY <1>3, <1>6 DEF Save, StepSaved, FailSaved, RunNowSaved, LastSaved, OrphanSaved
<1>7. CASE Command
  BY <1>7 DEF Command, CallAbort, AbortPress
<1>8. CASE Timer
  BY <1>3, <1>8 DEF Timer, StartComes, StepTimer, PreheatTimeout, MaxReached, DoorGraceOver
<1>9. CASE StepPasses \/ MaxPasses
  BY <1>1, <1>9 DEF StepPasses, MaxPasses, Clocks
<1>10. CASE Crash
  BY <1>10 DEF Crash
<1>11. CASE Setup
  <2>1. SetupScheduled => clock'.start = clock.start
    <3>1. clock.start \in {"future", "due", "missed"}
      BY <1>1 DEF Clocks
    <3>. QED  BY <1>3, <3>1 DEF SetupScheduled
  <2>. QED  BY <1>11, <2>1 DEF Setup, SetupInactive, SetupRunning
<1>. QED  BY <1>4, <1>5, <1>6, <1>7, <1>8, <1>9, <1>10, <1>11 DEF Next, TimePasses

\* A schedule that is due has been written.
LEMMA WrittenKept ==
    ASSUME OneCall, TypeOK, Ordered(runner), Written, Next, Course
    PROVE  Written'
<1> SUFFICES ASSUME runner'.record.state = "scheduled", "due" \in runner'.unsubs,
                    clock'.start # "future"
             PROVE  runner'.saves = <<>>
  BY DEF Written
<1>1. runner \in Runners /\ clock \in Clocks
  BY DEF TypeOK
<1>2. CASE \E c \in Calls, p \in Presets, later \in BOOLEAN : CallRun(c, p, later)
  <2>1. PICK c \in Calls, p \in Presets, later \in BOOLEAN : CallRun(c, p, later)
    BY <1>2
  <2>2. runner.unsubs = {}
    <3>1. Resting(runner) /\ runner.record.state # "scheduled"
      BY <1>1, <2>1, WhichByHandles DEF CallRun, Active
    <3>. QED  BY <3>1 DEF Resting
  <2>3. CASE later
    BY <1>1, <2>1, <2>3 DEF CallRun, Clocks
  <2>4. CASE ~later
    <3> DEFINE record == [NoRecord EXCEPT !.state = "scheduled", !.preset = p]
    <3>1. runner' = Commit([runner EXCEPT !.record = record], c, "runNowSave")
      BY <2>1, <2>4 DEF CallRun
    <3> HIDE DEF record
    <3>2. runner'.unsubs = runner.unsubs
      BY <1>1, <3>1 DEF Commit, At, Runners
    <3>. QED  BY <2>2, <3>2
  <2>. QED  BY <2>3, <2>4
<1>3. CASE ~\E c \in Calls, p \in Presets, later \in BOOLEAN : CallRun(c, p, later)
  <2>1. clock'.start = clock.start \/ StartPasses
    BY <1>3, ClockStart
  <2>2. CASE StartPasses
    BY <2>2 DEF StartPasses
  <2>3. CASE UNCHANGED runner /\ clock'.start = clock.start
    BY <2>3 DEF Written
  <2>4. CASE runner.up /\ Resting(runner) /\ clock'.start = clock.start
    BY <1>3, <2>4, RestKept DEF Written
  <2>5. CASE runner.up /\ runner.record.state = "running"
    <3>1. CASE Goes(runner, runner') \/ Starts(runner, runner')
      <4>1. runner.record \in Records
        BY <1>1 DEF Runners
      <4>. QED  BY <2>5, <3>1, <4>1 DEF Goes, Quietly, Asking, Starts, Active, Records
    <3>2. CASE runner.saves # <<>> /\ Goes(Landed, runner')
      <4>1. Landed.record = runner.record /\ runner.record \in Records
        BY <1>1, <3>2, LandedFacts DEF Runners
      <4>. QED  BY <2>5, <3>2, <4>1 DEF Goes, Quietly, Asking, Active, Records
    <3>. QED  BY <2>5, <3>1, <3>2, NewRests DEF Course, NoRecord
  <2>6. CASE ~runner.up
    BY <1>1, <2>1, <2>2, <2>3, <2>6 DEF Course, Goes, Starts
  <2>. QED  BY <1>1, <2>1, <2>2, <2>4, <2>5, <2>6, WhichByHandles
<1>. QED  BY <1>2, <1>3

-----------------------------------------------------------------------------
(* The invariant and what follows from it.                                 *)

OrderInv == Ordered(runner) /\ Fresh(runner) /\ Written /\ Stored(disk, runner)

\* It holds initially.
LEMMA InitOrder == Init => OrderInv
<1> SUFFICES ASSUME Init PROVE OrderInv
  OBVIOUS
<1>1. TypeOK
  BY InitTypeOK
<1>2. NewRunner \in Runners /\ runner = [NewRunner EXCEPT !.up = TRUE] /\ disk = NoRecord
  BY <1>1, NewRunnerType DEF Init
<1>3. /\ runner.up /\ runner.record = NoRecord /\ runner.unsubs = {} /\ runner.step_unsubs = {}
      /\ ~runner.door_timer /\ runner.saves = <<>> /\ \A t \in Slots : runner.tasks[t].pc = "free"
  <2>1. \A t \in Slots : NewRunner.tasks[t].pc = "free"
    BY DEF NewRunner, NoTask
  <2>2. /\ runner.up /\ runner.record = NewRunner.record /\ runner.unsubs = NewRunner.unsubs
        /\ runner.step_unsubs = NewRunner.step_unsubs /\ runner.door_timer = NewRunner.door_timer
        /\ runner.saves = NewRunner.saves /\ runner.tasks = NewRunner.tasks
    BY <1>2 DEF Runners
  <2>. QED  BY <2>1, <2>2 DEF NewRunner
<1>4. Slots = Background \cup Calls
  BY Places
<1>5. Owned(runner) /\ OnePowerOff(runner)
  <2>1. DOMAIN runner.saves = {}
    BY <1>3
  <2>. QED  BY <1>3, <1>4, <2>1 DEF Owned, SavePcs, OnePowerOff
<1>6. Sound(NoRecord) /\ NoRecord.state = "idle"
  BY DEF NoRecord, Sound, Active
<1>7. Resting(runner)
  BY <1>3, <1>4, <1>5, <1>6 DEF Resting
<1>8. Writes(runner) = <<>>
  BY <1>1, <1>3, WritesType DEF TypeOK
<1>9. Stored(disk, runner)
  BY <1>2, <1>3, <1>6, <1>8, EmptySeq DEF Stored, Youngest, Keeps
<1>. QED  BY <1>3, <1>6, <1>7, <1>8, <1>9 DEF OrderInv, Ordered, Fresh, SavesStep, Written

\* Every step keeps it, and follows the course.
LEMMA NextOrder ==
    ASSUME OneCall, NoBriefSteps, TypeOK, TypeOK', OrderInv, [Next]_vars
    PROVE  OrderInv' /\ Course
<1>1. CASE UNCHANGED vars
  <2>1. UNCHANGED <<runner, disk, clock>>
    BY <1>1 DEF vars
  <2>. QED
    BY <2>1 DEF OrderInv, Course, Ordered, Acting, Boundary, Saving, Failing, Finishing,
                Recovering, Steady, Aborting, Resting, Ready, InRun, Fresh, Written, Stored
<1>2. CASE Next
  <2>1. Ordered(runner') /\ Course
    BY <1>2, StepOrdered DEF OrderInv, Stored
  <2>2. Stored(disk', runner')
    BY <2>1, CourseStored DEF OrderInv
  <2>3. SavesStep(runner') => clock'.step[runner'.record.ends] = "early"
    BY <1>2, <2>1, FreshKept DEF OrderInv
  <2>4. Written'
    BY <1>2, <2>1, WrittenKept DEF OrderInv
  <2>. QED  BY <2>1, <2>2, <2>3, <2>4 DEF OrderInv, Fresh
<1>. QED  BY <1>1, <1>2

\* While one service call is in progress at a time and no step is shorter than the
\* end slack, the runner's tasks, timers and writes are always in one of the eight
\* situations, and the record on its way to the disk says what the run is.
THEOREM OrderKept ==
    ASSUME OneCall, NoBriefSteps
    PROVE  Spec => []OrderInv
<1>1. Init => OrderInv
  BY InitOrder
<1>2. TypeOK /\ TypeOK' /\ OrderInv /\ [Next]_vars => OrderInv'
  BY NextOrder
<1>. QED  BY <1>1, <1>2, TypeCorrect, PTL DEF Spec

\* In an order, a transition is the only one, and for the step the run is at.
LEMMA OrderedTransition ==
    ASSUME runner \in Runners, Ordered(runner)
    PROVE  OneTransition
<1>1. Slots = Background \cup Calls
  BY Places
<1>2. \A c \in Calls : runner.tasks[c].pc \notin TransitionPcs
  BY WhichByCall DEF CallPcs, TransitionPcs
<1> SUFFICES ASSUME NEW s \in Background, runner.tasks[s].pc \in TransitionPcs
             PROVE  /\ runner.record.state = "running" /\ runner.transitioning
                    /\ runner.tasks[s].step = runner.record.step_index
                    /\ \A t \in Slots \ {s} : runner.tasks[t].pc \notin TransitionPcs
  BY <1>1, <1>2 DEF OneTransition
<1>3. Boundary(runner, s)
  BY WhichByTask
<1>4. \A t \in Background \ {s} : runner.tasks[t].pc \notin TransitionPcs
  BY <1>3 DEF Boundary, Ready, Beside, TransitionPcs
<1>. QED  BY <1>1, <1>2, <1>3, <1>4 DEF Boundary, Ready, InRun

\* _cancel_tasks leaves no task behind that starts the oven for a run that failed,
\* finished or was aborted: a transition on its way to pressing start is the only
\* one, and is for the step the run is at.
THEOREM NoOtherStart ==
    ASSUME OneCall, NoBriefSteps
    PROVE  Spec => []OneTransition
<1>1. TypeOK /\ OrderInv => OneTransition
  BY OrderedTransition DEF TypeOK, OrderInv
<1>. QED  BY <1>1, TypeCorrect, OrderKept, PTL

\* _clear_handlers: once a run is over none of its timers and listeners is left to
\* act on the next run.
THEOREM NothingLeftArmed ==
    ASSUME OneCall, NoBriefSteps
    PROVE  Spec => []QuietWhenOver
<1>1. ASSUME runner \in Runners, Ordered(runner) PROVE QuietWhenOver
  <2> SUFFICES ASSUME runner.record.state \notin Active
               PROVE  runner.unsubs = {} /\ runner.step_unsubs = {} /\ ~runner.door_timer
    BY DEF QuietWhenOver
  <2>1. Resting(runner) /\ runner.record.state # "scheduled"
    BY <1>1, WhichByHandles DEF Active
  <2>. QED  BY <2>1 DEF Resting
<1>2. TypeOK /\ OrderInv => QuietWhenOver
  BY <1>1 DEF TypeOK, OrderInv
<1>. QED  BY <1>2, TypeCorrect, OrderKept, PTL

\* A scheduled run is not forgotten, across crashes too: its timer is armed or the
\* call that made it is about to begin it.
THEOREM ScheduleNotForgotten ==
    ASSUME OneCall, NoBriefSteps
    PROVE  Spec => []ScheduleAttended
<1>1. ASSUME runner \in Runners, Ordered(runner) PROVE ScheduleAttended
  <2>1. runner.record.state = "scheduled" => Attended(runner)
    BY <1>1, WhichByHandles DEF Resting
  <2>2. Calls \subseteq Slots
    BY Places
  <2>. QED  BY <2>1, <2>2 DEF ScheduleAttended, Attended, Alive
<1>2. TypeOK /\ OrderInv => ScheduleAttended
  BY <1>1 DEF TypeOK, OrderInv
<1>. QED  BY <1>2, TypeCorrect, OrderKept, PTL

\* The commit after each step: a step the disk knows to be running is never started
\* again, wherever Home Assistant died.
THEOREM NoStepTwice ==
    ASSUME OneCall, NoBriefSteps
    PROVE  Spec => []SavedStepNotRestarted
<1>1. ASSUME TypeOK, OrderInv PROVE SavedStepNotRestarted
  <2>1. runner \in Runners /\ Ordered(runner) /\ Stored(disk, runner)
    BY <1>1 DEF TypeOK, OrderInv
  <2> SUFFICES ASSUME NEW s \in Slots, runner.tasks[s].pc \in TransitionPcs
               PROVE  /\ disk.state \in Active
                      /\ disk.state = "running" => disk.step_index < runner.tasks[s].step
    BY DEF SavedStepNotRestarted
  <2>2. s \in Background
    BY <2>1, Places, WhichByCall DEF CallPcs, TransitionPcs
  <2>3. Boundary(runner, s)
    BY <2>1, <2>2, WhichByTask
  <2>4. /\ InBoundary(runner) /\ runner.record.state = "running" /\ runner.up
        /\ runner.saves = <<>> /\ runner.tasks[s].step = runner.record.step_index
    BY <2>2, <2>3 DEF Boundary, InBoundary, Ready, InRun
  <2>5. Writes(runner) = <<>>
    BY <2>1, <2>4, WritesType
  <2>6. Keeps(disk, runner)
    BY <2>1, <2>4, <2>5 DEF Stored, Youngest
  <2>. QED  BY <2>4, <2>6 DEF Keeps
<1>2. TypeOK /\ OrderInv => SavedStepNotRestarted
  BY <1>1
<1>. QED  BY <1>2, TypeCorrect, OrderKept, PTL

\* Three slots for tasks always suffice: they do not pile up.
THEOREM SlotsSuffice ==
    ASSUME OneCall, NoBriefSteps, MaxTasks >= 3
    PROVE  Spec => []NoTaskPileUp
<1>1. ASSUME runner \in Runners, Ordered(runner), ~HasSlot(runner) PROVE FALSE
  <2>1. {1, 2, 3} \subseteq Background /\ Background \subseteq Slots /\ Nobody \notin Slots
    BY Places, CountsAssumption DEF Background
  <2>2. \A s \in Background : runner.tasks[s].pc # "free"
    BY <1>1 DEF HasSlot, Free
  <2>3. \A s : ~Beside(runner, s) \/ ~OnePowerOff(runner)
    <3> SUFFICES ASSUME NEW s, Beside(runner, s), OnePowerOff(runner) PROVE FALSE
      OBVIOUS
    <3>1. \A t \in Background \ {s} : runner.tasks[t].pc = "powerOff"
      BY <2>2 DEF Beside
    <3>2. PICK t \in {1, 2, 3}, u \in {1, 2, 3} : t # u /\ t # s /\ u # s
      OBVIOUS
    <3>. QED  BY <2>1, <3>1, <3>2 DEF OnePowerOff
  <2>4. \A s : ~Alone(runner, s)
    BY <2>1, <2>2 DEF Alone
  <2>5. ASSUME NEW s \in Background, Acting(runner, s) PROVE FALSE
    BY <2>3, <2>4, <2>5 DEF Acting, Boundary, Saving, Failing, Finishing, Recovering, Ready, InRun
  <2>6. Steady(runner) \/ Aborting(runner) => FALSE
    BY <2>3, <2>4 DEF Steady, Aborting, Ready, InRun
  <2>7. ASSUME Resting(runner) PROVE FALSE
    <3>1. \A s \in Background : runner.tasks[s].pc = "powerOff"
      BY <2>2, <2>3, <2>4, <2>7 DEF Resting
    <3>. QED  BY <2>1, <2>7, <3>1 DEF Resting, OnePowerOff
  <2>. QED  BY <1>1, <2>5, <2>6, <2>7 DEF Ordered
<1>2. TypeOK /\ OrderInv => NoTaskPileUp
  BY <1>1 DEF TypeOK, OrderInv, NoTaskPileUp
<1>. QED  BY <1>2, TypeCorrect, OrderKept, PTL

\* A run that was stopped stays stopped until somebody runs a preset again.
THEOREM StoppedStays ==
    ASSUME OneCall, NoBriefSteps
    PROVE  Spec => AbortSticks
<1>1. ASSUME TypeOK, Course, runner.up, runner.record.state = "idle"
      PROVE  runner'.record.state # "running"
  <2>1. runner \in Runners /\ runner.record \in Records
    BY <1>1 DEF TypeOK, Runners
  <2>2. Goes(runner, runner') => runner'.record.state # "running"
    BY <1>1, <2>1 DEF Goes, Quietly, Asking, Active
  <2>3. runner.saves # <<>> /\ Goes(Landed, runner') => runner'.record.state # "running"
    <3>1. runner.saves # <<>> => Landed.record = runner.record
      BY <2>1, LandedFacts
    <3>. QED  BY <1>1, <2>1, <3>1 DEF Goes, Quietly, Asking, Active
  <2>4. ~Starts(runner, runner') /\ NewRunner.record.state = "idle"
    BY <1>1 DEF Starts, NewRunner, NoRecord
  <2>. QED  BY <1>1, <2>2, <2>3, <2>4 DEF Course
<1>2. TypeOK /\ TypeOK' /\ OrderInv /\ [Next]_vars
        => [runner.up /\ runner.record.state = "idle" => runner'.record.state # "running"]_vars
  BY <1>1, NextOrder
<1>. QED  BY <1>2, TypeCorrect, OrderKept, PTL DEF Spec, AbortSticks

-----------------------------------------------------------------------------
(* The refinement of RunLifecycle.                                         *)

\* What RunLifecycle sees of a runner.
Queue(r) == [i \in DOMAIN r.saves |-> r.saves[i].record.state]

\* The queue is the states of the records to be written.
LEMMA QueueType ==
    ASSUME NEW r \in Runners
    PROVE  /\ Queue(r) \in Seq(States) /\ Len(Queue(r)) = Len(Writes(r))
           /\ Writes(r) \in Seq(Records)
           /\ \A i \in 1 .. Len(Writes(r)) : Queue(r)[i] = Writes(r)[i].state
<1>1. /\ Writes(r) \in Seq(Records) /\ Len(Writes(r)) = Len(r.saves)
      /\ r.saves \in Seq([record : Records, by : Slots \cup {Nobody}])
  BY WritesType
<1>2. DOMAIN r.saves = 1 .. Len(r.saves) /\ Len(r.saves) \in Nat
  BY <1>1, LenProperties
<1>3. \A i \in 1 .. Len(r.saves) :
         r.saves[i].record \in Records /\ Writes(r)[i] = r.saves[i].record
  BY <1>1, <1>2, ElementOfSeq DEF Writes
<1>4. \A i \in 1 .. Len(r.saves) : Queue(r)[i] = Writes(r)[i].state /\ Queue(r)[i] \in States
  BY <1>2, <1>3 DEF Queue, Records
<1>5. Queue(r) \in [1 .. Len(r.saves) -> States]
  BY <1>2, <1>4 DEF Queue
<1>6. Queue(r) \in Seq(States)
  BY <1>2, <1>5, SeqDef
<1>7. Len(Queue(r)) = Len(r.saves)
  BY <1>2, <1>5, <1>6, LenProperties
<1>. QED  BY <1>1, <1>4, <1>6, <1>7

\* It moves as they do.
LEMMA QueueMoves ==
    ASSUME NEW r \in Runners, NEW q \in Runners
    PROVE  /\ Writes(q) = Writes(r) => Queue(q) = Queue(r)
           /\ Writes(q) = Append(Writes(r), q.record) =>
                 Queue(q) = Queue(r) \o <<q.record.state>>
           /\ r.saves = <<>> => Queue(r) = <<>>
<1> DEFINE a == Queue(q)
           b == Queue(r)
           v == Writes(q)
           w == Writes(r)
<1>1. /\ a \in Seq(States) /\ Len(a) = Len(v) /\ v \in Seq(Records)
      /\ \A i \in 1 .. Len(v) : a[i] = v[i].state
  BY QueueType
<1>2. /\ b \in Seq(States) /\ Len(b) = Len(w) /\ w \in Seq(Records)
      /\ \A i \in 1 .. Len(w) : b[i] = w[i].state
  BY QueueType
<1>3. q.record \in Records /\ q.record.state \in States
  BY DEF Runners, Records
<1>4. r.saves = <<>> => b = <<>>
  BY DEF Queue
<1> HIDE DEF a, b, v, w
<1>5. Len(w) \in Nat
  BY <1>2, LenProperties
<1>6. v = w => a = b
  BY <1>1, <1>2, SeqEqual
<1>7. ASSUME v = Append(w, q.record) PROVE a = b \o <<q.record.state>>
  <2> DEFINE e == <<q.record.state>>
             c == b \o e
  <2>1. Len(v) = Len(w) + 1 /\ v[Len(w) + 1] = q.record
        /\ \A i \in 1 .. Len(w) : v[i] = w[i]
    BY <1>2, <1>3, <1>7, AppendProperties
  <2>2. e \in Seq(States) /\ Len(e) = 1 /\ e[1] = q.record.state
    BY <1>3
  <2>3. /\ c \in Seq(States) /\ Len(c) = Len(b) + 1
        /\ \A i \in 1 .. Len(c) : c[i] = IF i <= Len(b) THEN b[i] ELSE e[i - Len(b)]
    BY <1>2, <2>2, ConcatProperties
  <2> HIDE DEF e, c
  <2>4. ASSUME NEW i \in 1 .. Len(a) PROVE a[i] = c[i]
    <3>1. a[i] = v[i].state
      BY <1>1
    <3>2. CASE i <= Len(w)
      BY <1>1, <1>2, <1>5, <2>1, <2>3, <3>1, <3>2
    <3>3. CASE i = Len(w) + 1
      <4>1. c[i] = e[1]
        BY <1>1, <1>2, <1>5, <2>1, <2>3, <3>3
      <4>. QED  BY <2>1, <2>2, <3>1, <3>3, <4>1
    <3>. QED  BY <1>1, <1>5, <2>1, <3>2, <3>3
  <2>5. a = c
    BY <1>1, <1>2, <2>1, <2>3, <2>4, SeqEqual
  <2>. QED  BY <2>5 DEF e, c
<1>. QED  BY <1>4, <1>6, <1>7 DEF a, b, v, w

\* When a write lands its state leaves the queue.
LEMMA QueueLands ==
    ASSUME runner \in Runners, runner.saves # <<>>
    PROVE  /\ Queue(runner) # <<>> /\ Queue(runner) \in Seq(States)
           /\ Head(Queue(runner)) = Head(runner.saves).record.state
           /\ Queue(Landed) = Tail(Queue(runner))
<1> DEFINE n == Len(runner.saves)
           a == Queue(runner)
           b == Queue(Landed)
<1>1. /\ Landed \in Runners /\ n \in Nat \ {0}
      /\ DOMAIN runner.saves = 1 .. n /\ DOMAIN Landed.saves = 1 .. (n - 1)
      /\ \A i \in 1 .. (n - 1) : Landed.saves[i] = runner.saves[i + 1]
      /\ Head(runner.saves) = runner.saves[1]
  BY LandedFacts
<1>2. /\ a \in Seq(States) /\ Len(a) = n /\ \A i \in 1 .. n : a[i] = runner.saves[i].record.state
  BY <1>1, QueueType, WritesType DEF Queue
<1>3. /\ b \in Seq(States) /\ Len(b) = n - 1
      /\ \A i \in 1 .. (n - 1) : b[i] = runner.saves[i + 1].record.state
  <2>1. /\ b \in Seq(States) /\ Len(b) = Len(Landed.saves)
    BY <1>1, QueueType, WritesType
  <2>2. Len(Landed.saves) = n - 1
    BY LandedFacts
  <2>. QED  BY <1>1, <2>1, <2>2 DEF Queue
<1> HIDE DEF n, a, b
<1>4. a # <<>> /\ Head(a) = runner.saves[1].record.state
  BY <1>1, <1>2, EmptySeq, HeadTailProperties
<1>5. /\ Tail(a) \in Seq(States) /\ Len(Tail(a)) = n - 1
      /\ \A i \in 1 .. (n - 1) : Tail(a)[i] = a[i + 1]
  BY <1>1, <1>2, <1>4, HeadTailProperties
<1>6. ASSUME NEW i \in 1 .. (n - 1) PROVE b[i] = Tail(a)[i]
  <2>1. i + 1 \in 1 .. n
    BY <1>1
  <2>. QED  BY <1>2, <1>3, <1>5, <2>1
<1>7. b = Tail(a)
  BY <1>3, <1>5, <1>6, SeqEqual
<1>. QED  BY <1>1, <1>2, <1>4, <1>7 DEF a, b

\* The states and the writes of a runner that goes on, while the writes change by
\* what Queues allows.
LEMMA GoesLifecycle ==
    ASSUME NEW r \in Runners, NEW q \in Runners, Goes(r, q) \/ Starts(r, q)
    PROVE  \/ q.record.state = r.record.state /\ Queue(q) = Queue(r)
           \/ /\ r.record.state = "scheduled" /\ q.record.state = "running"
              /\ Queue(q) = Queue(r)
           \/ /\ Queue(q) = Queue(r) \o <<q.record.state>>
              /\ \/ r.record.state = "running" /\ q.record.state = "running"
                 \/ r.record.state = "running" /\ q.record.state = "finished"
                 \/ r.record.state \in Active /\ q.record.state \in {"failed", "idle"}
                 \/ r.record.state \in {"finished", "failed"} /\ q.record.state = "idle"
                 \/ /\ r.record.state \in {"idle", "finished", "failed"}
                    /\ q.record.state = "scheduled"
<1>1. r.record \in Records /\ q.record \in Records
  BY DEF Runners
<1>2. ASSUME Quietly(r, q), Writes(q) = Writes(r)
      PROVE  /\ Queue(q) = Queue(r)
             /\ \/ q.record.state = r.record.state
                \/ r.record.state = "scheduled" /\ q.record.state = "running"
  BY <1>1, <1>2, QueueMoves DEF Quietly, Records
<1>3. ASSUME Asking(r, q), Writes(q) = Append(Writes(r), q.record)
      PROVE  /\ Queue(q) = Queue(r) \o <<q.record.state>>
             /\ \/ r.record.state = "running" /\ q.record.state = "finished"
                \/ r.record.state \in Active /\ q.record.state \in {"failed", "idle"}
                \/ r.record.state \in {"finished", "failed"} /\ q.record.state = "idle"
                \/ /\ r.record.state \in {"idle", "finished", "failed"}
                   /\ q.record.state = "scheduled"
  BY <1>1, <1>3, QueueMoves DEF Asking, Records, States, Active
<1>4. ASSUME Starts(r, q)
      PROVE  /\ Queue(q) = Queue(r) \o <<q.record.state>>
             /\ r.record.state = "running" /\ q.record.state = "running"
  BY <1>1, <1>4, QueueMoves DEF Starts, Records
<1>. QED  BY <1>2, <1>3, <1>4 DEF Goes

\* Every step of the runner is one of RunLifecycle's, or none of its business.
LEMMA CourseLifecycle ==
    ASSUME TypeOK, TypeOK', Ordered(runner), Course
    PROVE  [Lifecycle!LifecycleNext]_(Lifecycle!lifecycleVars)
<1>1. runner \in Runners /\ runner' \in Runners /\ disk \in Records /\ disk' \in Records
  BY DEF TypeOK
<1>2. /\ runner.record.state \in States /\ runner'.record.state \in States
      /\ disk.state \in States
  BY <1>1 DEF Runners, Records
<1>3. Queue(runner) \in Seq(States) /\ Queue(runner') \in Seq(States)
  BY <1>1, QueueType
<1>4. CASE UNCHANGED <<runner, disk>>
  BY <1>4 DEF Lifecycle!lifecycleVars
<1>5. ASSUME runner.up, runner'.up, NEW more,
             \/ UNCHANGED disk /\ Queue(runner') = Queue(runner) \o more
             \/ /\ runner.saves # <<>> /\ disk' = Head(runner.saves).record
                /\ Queue(runner') = Tail(Queue(runner)) \o more
      PROVE  Lifecycle!Queues(more)
  BY <1>1, <1>5, QueueLands DEF Lifecycle!Queues, Queue
<1>6. ASSUME NEW r \in Runners, r.up = runner.up, r.record = runner.record,
             Goes(r, runner') \/ Starts(r, runner'),
             \/ UNCHANGED disk /\ Queue(r) = Queue(runner)
             \/ /\ runner.saves # <<>> /\ disk' = Head(runner.saves).record
                /\ Queue(r) = Tail(Queue(runner))
      PROVE  [Lifecycle!LifecycleNext]_(Lifecycle!lifecycleVars)
  <2> DEFINE x == runner.record.state
             y == runner'.record.state
  <2>1. runner.up /\ runner'.up /\ Queue(r) \o <<>> = Queue(r)
    BY <1>1, <1>6, QueueType, ConcatEmptySeq DEF Goes, Starts
  <2>2. ASSUME NEW more, Queue(runner') = Queue(r) \o more PROVE Lifecycle!Queues(more)
    BY <1>5, <1>6, <2>1, <2>2
  <2>3. CASE y = x /\ Queue(runner') = Queue(r)
    <3>1. CASE UNCHANGED disk /\ Queue(r) = Queue(runner)
      BY <2>1, <2>3, <3>1 DEF Lifecycle!lifecycleVars, Queue
    <3>2. CASE runner.saves # <<>>
      <4>1. Queue(runner) # <<>>
        BY <1>1, <3>2, QueueLands
      <4>2. Lifecycle!Queues(<<>>)
        BY <2>1, <2>2, <2>3
      <4>. QED
        BY <2>1, <2>3, <4>1, <4>2 DEF Lifecycle!LifecycleNext, Lifecycle!Written, Queue
    <3>. QED  BY <1>6, <3>1, <3>2
  <2>4. CASE x = "scheduled" /\ y = "running" /\ Queue(runner') = Queue(r)
    BY <2>1, <2>2, <2>4 DEF Lifecycle!LifecycleNext, Lifecycle!Start
  <2>5. CASE /\ Queue(runner') = Queue(r) \o <<y>>
             /\ \/ x = "running" /\ y = "running"
                \/ x = "running" /\ y = "finished"
                \/ x \in Active /\ y \in {"failed", "idle"}
                \/ x \in {"finished", "failed"} /\ y = "idle"
                \/ x \in {"idle", "finished", "failed"} /\ y = "scheduled"
    <3>1. ASSUME NEW z, y = z PROVE Lifecycle!Queues(<<z>>)
      <4>1. Queue(runner') = Queue(r) \o <<z>>
        BY <2>5, <3>1
      <4>. QED  BY <2>2, <4>1
    <3>2. CASE y = "running"
      <4>1. Lifecycle!Queues(<<"running">>)
        BY <3>1, <3>2
      <4>. QED  BY <2>1, <2>5, <3>2, <4>1 DEF Lifecycle!LifecycleNext, Lifecycle!StepRuns
    <3>3. CASE y = "finished"
      <4>1. Lifecycle!Queues(<<"finished">>)
        BY <3>1, <3>3
      <4>. QED  BY <2>1, <2>5, <3>3, <4>1 DEF Lifecycle!LifecycleNext, Lifecycle!Finish
    <3>4. CASE y = "failed"
      <4>1. Lifecycle!Queues(<<"failed">>)
        BY <3>1, <3>4
      <4>. QED
        BY <2>1, <2>5, <3>4, <4>1
        DEF Active, Lifecycle!LifecycleNext, Lifecycle!Live, Lifecycle!GiveUp
    <3>5. CASE y = "idle"
      <4>1. Lifecycle!Queues(<<"idle">>)
        BY <3>1, <3>5
      <4>. QED
        BY <2>1, <2>5, <3>5, <4>1
        DEF Active, Lifecycle!LifecycleNext, Lifecycle!Live, Lifecycle!Abort, Lifecycle!Dismiss
    <3>6. CASE y = "scheduled"
      <4>1. Lifecycle!Queues(<<"scheduled">>)
        BY <3>1, <3>6
      <4>. QED
        BY <2>1, <2>5, <3>6, <4>1 DEF Lifecycle!LifecycleNext, Lifecycle!Over, Lifecycle!Schedule
    <3>. QED  BY <2>5, <3>2, <3>3, <3>4, <3>5, <3>6
  <2>. QED  BY <1>1, <1>6, <2>3, <2>4, <2>5, GoesLifecycle
<1>7. CASE /\ runner.up /\ runner.saves # <<>> /\ disk' = Head(runner.saves).record
           /\ Goes(Landed, runner')
  <2>1. /\ Landed \in Runners /\ Landed.up = runner.up /\ Landed.record = runner.record
        /\ Queue(Landed) = Tail(Queue(runner))
    BY <1>1, <1>7, LandedFacts, QueueLands
  <2>. QED  BY <1>6, <1>7, <2>1
<1>8. CASE UNCHANGED disk /\ runner.up /\ runner' = NewRunner
  <2>1. ~runner'.up /\ runner'.saves = <<>>
    BY <1>8 DEF NewRunner
  <2>2. Queue(runner') = <<>>
    BY <1>1, <2>1, QueueMoves
  <2>3. runner.record.state # "down"
    BY <1>2 DEF States
  <2>. QED  BY <1>8, <2>1, <2>2, <2>3 DEF Lifecycle!LifecycleNext, Lifecycle!Dies, Queue
<1>9. ASSUME UNCHANGED disk, ~runner.up, runner'.up,
             runner'.record = disk /\ runner'.saves = <<>>
      PROVE  Lifecycle!Returns
  <2>1. Queue(runner') = <<>>
    BY <1>1, <1>9, QueueMoves
  <2>. QED  BY <1>9, <2>1 DEF Lifecycle!Returns, Queue
<1>10. ASSUME UNCHANGED disk, ~runner.up, Goes(Loaded, runner'), disk.state = "scheduled",
              runner'.record.state \in {"running", "failed"}
       PROVE  Lifecycle!Returns
  <2>1. Loaded \in Runners /\ Loaded.record = disk /\ Loaded.saves = <<>>
    BY <1>10, LoadedFacts
  <2>2. Queue(Loaded) = <<>>
    BY <2>1, QueueMoves
  <2>3. <<>> \o <<runner'.record.state>> = <<runner'.record.state>>
    BY <1>2, ConcatEmptySeq
  <2>4. \/ runner'.record.state = "running" /\ Queue(runner') = <<>>
        \/ runner'.record.state = "failed" /\ Queue(runner') = <<"failed">>
    BY <1>1, <1>10, <2>1, <2>2, <2>3, GoesLifecycle
  <2>5. runner'.up
    BY <1>10 DEF Goes
  <2>. QED  BY <1>10, <2>4, <2>5 DEF Lifecycle!Returns, Queue
<1>. QED
  BY <1>1, <1>4, <1>6, <1>7, <1>8, <1>9, <1>10 DEF Course, Lifecycle!LifecycleNext

\* The runner's states, its writes and its restarts are those of RunLifecycle.
THEOREM FollowsItsLifecycle ==
    ASSUME OneCall, NoBriefSteps
    PROVE  Spec => FollowsLifecycle
<1>1. Init => Lifecycle!LifecycleInit
  <2> SUFFICES ASSUME Init PROVE Lifecycle!LifecycleInit
    OBVIOUS
  <2>1. runner.up /\ runner.record = NoRecord /\ runner.saves = <<>> /\ disk = NoRecord
    BY NewRunnerType DEF Init, NewRunner, Runners
  <2>2. [i \in DOMAIN runner.saves |-> runner.saves[i].record.state] = <<>>
    BY <2>1
  <2>. QED  BY <2>1, <2>2 DEF Lifecycle!LifecycleInit, NoRecord
<1>2. TypeOK /\ TypeOK' /\ OrderInv /\ [Next]_vars
        => [Lifecycle!LifecycleNext]_(Lifecycle!lifecycleVars)
  BY NextOrder, CourseLifecycle DEF OrderInv
<1>. QED
  BY <1>1, <1>2, TypeCorrect, OrderKept, PTL
  DEF Spec, FollowsLifecycle, Lifecycle!LifecycleSpec

===============================================================================
