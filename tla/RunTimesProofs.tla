---------------------------- MODULE RunTimesProofs ----------------------------
(***************************************************************************)
(* The times of a run, for any presets, options, delays and any number of  *)
(* runs, changes of the options and restarts: types, limit, the end of a   *)
(* step and the oven's own, the hold's dead-man's switch, the schedule and *)
(* the estimates.  The invariant says what each phase of a transition      *)
(* leaves to the next one and what of it a restart finds on disk.          *)
(***************************************************************************)
EXTENDS RunTimes, LeastNumber, SequenceTheorems, TLAPS

StepOf(record) == record.preset[record.step_index]
InTransition == runner.phase \in {"stopping", "starting"}

\* At a step that has not been started and will not be, but for a restart.
Stranded == Steady /\ runner.record.step_index \in history.lost

\* What the timed steps before the present one need, and with it.
Needed(record) == Sums(LeastTimes(record.preset, history.lost))
Before(record) == Needed(record)[record.step_index - 1]

-----------------------------------------------------------------------------
(* The records, and the runner object from phase to phase.                 *)

\* Of a record, in memory or on disk.
Recorded(record) ==
    /\ record.state \in Active => record.preset \in Presets /\ record.last_error = "none"
    /\ record.state = "scheduled" /\ record.ready_at # None =>
          record.start_at = record.ready_at - Planned(record.preset, history.planned)
    /\ record.state = "running" =>
          /\ record.step_index \in 1 .. Len(record.preset)
          /\ record.started_at = history.began /\ history.began \in 0 .. now
          /\ history.transitions > 0

\* What is on disk is a step that has started; memory is ahead of it during a
\* transition, and after one that was lost.
Saved ==
    /\ runner.up /\ ~InTransition /\ ~Stranded => runner.record = disk
    /\ Stranded =>
          /\ disk.state = "running" /\ runner.record.preset = disk.preset
          /\ runner.record.step_ends_at = disk.step_ends_at
    /\ disk.state = "running" =>
          /\ disk.step_index \notin history.lost
          /\ disk.step_started_at \in disk.started_at + Before(disk) .. now
          /\ disk.step_ends_at = IF StepOf(disk).kind = "hold" THEN None
                                 ELSE disk.step_started_at + StepOf(disk).minutes

Phases ==
    /\ ~runner.up => runner = NewRunner
    /\ runner.phase # "steady" =>
          /\ runner.up /\ runner.record.state = "running"
          /\ runner.due = None /\ runner.timer = None
          /\ now <= runner.deadline
    /\ runner.phase = "recovering" => runner.limit = None
    /\ runner.due # None => runner.up /\ runner.record.state = "scheduled"
    /\ runner.timer # None => StepRuns

\* The timers: of the schedule, of the run, of the step.
Timers ==
    /\ history.began # None => options.max_total \in history.limits
    /\ LimitKept
    /\ runner.due # None =>
          /\ now <= runner.due
          /\ runner.record.start_at - Immediate <= runner.due
          /\ runner.due <= runner.record.start_at + MissedGrace
    /\ StepRuns => runner.timer = disk.step_ends_at
    /\ StepRuns /\ StepOf(disk).kind = "timed" => now <= runner.timer

-----------------------------------------------------------------------------
(* A transition.                                                           *)

\* It is made, or was lost, when the step on disk is at its end, never from a hold.
Left ==
    InTransition \/ Stranded =>
        /\ now >= history.began + Before(runner.record)
        /\ disk.state = "running" =>
              /\ disk.step_index < runner.record.step_index
              /\ StepOf(disk).kind # "hold"
              /\ StepOf(disk).kind = "timed" => now >= disk.step_ends_at - EndSlack

\* Each attempt has its time, and all are for the same duration.
Attempts ==
    runner.phase = "starting" =>
        /\ runner.attempt > 0
        /\ runner.deadline <= now + runner.attempt * StartTimeout
        /\ StepOf(runner.record).kind # "hold" =>
              runner.seconds = Earlier(StepOf(runner.record).minutes, oven.upper)
        /\ StepOf(runner.record).kind = "hold" =>
              \E m \in history.limits :
                 runner.deadline + runner.seconds
                    <= history.began + m + ShortestHold + runner.attempt * StartTimeout

-----------------------------------------------------------------------------
(* The oven.                                                               *)

Programmes ==
    /\ \A p \in {oven.of, oven.dialled, oven.ran_out} :
          /\ p <= history.transitions
          /\ runner.phase = "stopping" \/ Stranded => p < history.transitions
    /\ oven.pressed # None =>
          oven.of = NoProgramme /\ oven.seen # "running" /\ now <= oven.pressed

HoldEnd(m) ==
    history.began + m + ShortestHold + StartAttempts * StartTimeout + OvenDelay

\* A start that is accepted and not acted on yet.
Accepting ==
    oven.pressed # None /\ oven.dialled = history.transitions =>
        /\ runner.phase = "starting" => oven.duration = runner.seconds
        /\ disk.state = "running" /\ StepOf(disk).kind = "timed" =>
              ~StepRuns /\ now >= disk.step_ends_at - EndSlack
        /\ Record.state = "running" /\ StepOf(Record).kind = "hold" =>
              \E m \in history.limits : oven.pressed + oven.duration <= HoldEnd(m)

\* A programme seen within the attempts ends within the slack of its step.
Seeing ==
    runner.phase = "starting" =>
        LET step == StepOf(runner.record)
            spent == runner.attempt * StartTimeout
        IN  step.kind = "timed" /\ Uncapped(step) =>
               /\ RunsThisStep => /\ oven.until <= now + step.minutes
                                  /\ runner.deadline + step.minutes <= oven.until + spent
               /\ oven.ran_out = history.transitions =>
                     runner.deadline + step.minutes <= now + spent

\* The same of the step on disk, unless a transition from it has begun.
Running ==
    disk.state = "running" /\ StepOf(disk).kind = "timed" /\ Uncapped(StepOf(disk)) =>
        /\ RunsThisStep /\ (StepRuns \/ now < disk.step_ends_at - EndSlack) =>
              disk.step_ends_at - EndSlack <= oven.until /\ oven.until <= disk.step_ends_at
        /\ oven.ran_out = history.transitions => now >= disk.step_ends_at - EndSlack

RunInv == Recorded(runner.record) /\ Recorded(disk) /\ Saved /\ Phases
StepInv == Timers /\ Left /\ Attempts
OvenInv == Programmes /\ Accepting /\ Seeing /\ Running /\ HoldStopsByItself
TimesInv == TimesTypeOK /\ RunInv /\ StepInv /\ OvenInv

-----------------------------------------------------------------------------
(* Sums, by induction over the numbers that are added.                     *)

AddUp(f, terms, n) ==
    f = [k \in 0 .. n |-> IF k = 0 THEN 0 ELSE f[k - 1] + terms[k]]

\* There are partial sums of the first n terms.
LEMMA SumsExist ==
    ASSUME NEW terms, NEW n \in Nat, \A k \in 1 .. n : terms[k] \in Int
    PROVE  \E f : AddUp(f, terms, n)
<1> DEFINE without == {m \in 0 .. n : ~ \E f : AddUp(f, terms, m)}
<1>1. SUFFICES ASSUME without # {} PROVE FALSE
  <2>1. n \in 0 .. n
    OBVIOUS
  <2>. QED  BY <1>1, <2>1
<1>2. PICK m \in without : \A other \in without : m <= other
  <2>1. without \in SUBSET Nat
    OBVIOUS
  <2>. HIDE DEF without
  <2>. QED  BY <1>1, <2>1, HasLeast
<1>3. CASE m = 0
  <2>1. AddUp([k \in 0 .. 0 |-> 0], terms, 0)
    BY DEF AddUp
  <2>. QED  BY <1>3, <2>1
<1>4. CASE m # 0
  <2>1. m - 1 \in 0 .. n /\ m - 1 \notin without
    BY <1>2, <1>4
  <2>2. PICK f : AddUp(f, terms, m - 1)
    BY <2>1
  <2> DEFINE g == [k \in 0 .. m |-> IF k = m THEN f[m - 1] + terms[m] ELSE f[k]]
  <2>3. \A k \in 0 .. m - 1 : f[k] = IF k = 0 THEN 0 ELSE f[k - 1] + terms[k]
    BY <2>2 DEF AddUp
  <2>4. \A k \in 0 .. m : g[k] = IF k = 0 THEN 0 ELSE g[k - 1] + terms[k]
    BY <1>4, <2>1, <2>3
  <2>5. g = [k \in 0 .. m |-> g[k]]
    OBVIOUS
  <2>. HIDE DEF g
  <2>6. AddUp(g, terms, m)
    BY <2>4, <2>5 DEF AddUp
  <2>. QED  BY <2>6
<1>. QED  BY <1>3, <1>4

\* Sums are what their definition says: the next adds the next term.
LEMMA SumsDef ==
    ASSUME NEW terms \in Seq(Int)
    PROVE  /\ Sums(terms)[0] = 0
           /\ \A k \in 1 .. Len(terms) : Sums(terms)[k] = Sums(terms)[k - 1] + terms[k]
<1>1. Len(terms) \in Nat /\ \A k \in 1 .. Len(terms) : terms[k] \in Int
  BY LenProperties, ElementOfSeq
<1>2. \E f : AddUp(f, terms, Len(terms))
  BY <1>1, SumsExist
<1>3. AddUp(Sums(terms), terms, Len(terms))
  BY <1>2 DEF Sums, AddUp
<1>. QED  BY <1>1, <1>3 DEF AddUp

\* What holds of 0, and of a sum if it holds of the one before, holds of each.
LEMMA SumsIn ==
    ASSUME NEW terms \in Seq(Int), NEW S, 0 \in S,
           \A k \in 1 .. Len(terms), n \in S : n + terms[k] \in S
    PROVE  \A k \in 0 .. Len(terms) : Sums(terms)[k] \in S
<1> DEFINE outside == {k \in 0 .. Len(terms) : Sums(terms)[k] \notin S}
<1>1. SUFFICES ASSUME outside # {} PROVE FALSE
  OBVIOUS
<1>2. PICK k \in outside : \A other \in outside : k <= other
  <2>1. outside \in SUBSET Nat
    OBVIOUS
  <2>. HIDE DEF outside
  <2>. QED  BY <1>1, <2>1, HasLeast
<1>3. k # 0
  BY SumsDef
<1>4. Len(terms) \in Nat
  BY LenProperties
<1>5. k - 1 \in 0 .. Len(terms) /\ k - 1 \notin outside /\ k \in 1 .. Len(terms)
  BY <1>2, <1>3, <1>4
<1>6. Sums(terms)[k] = Sums(terms)[k - 1] + terms[k]
  BY <1>5, SumsDef
<1>. QED  BY <1>5, <1>6

\* Sums of terms none of which is greater are not greater.
LEMMA SumsLess ==
    ASSUME NEW terms \in Seq(Int), NEW other \in Seq(Int), Len(terms) = Len(other),
           NEW n \in 0 .. Len(terms), \A k \in 1 .. n : terms[k] <= other[k]
    PROVE  Sums(terms)[n] <= Sums(other)[n]
<1> DEFINE above == {k \in 0 .. n : ~(Sums(terms)[k] <= Sums(other)[k])}
<1>1. Len(terms) \in Nat /\ n \in Nat /\ n <= Len(terms)
  BY LenProperties
<1>2. SUFFICES ASSUME ~(Sums(terms)[n] <= Sums(other)[n]) PROVE FALSE
  OBVIOUS
<1>3. PICK k \in above : \A m \in above : k <= m
  <2>1. above \in SUBSET Nat
    OBVIOUS
  <2>2. n \in 0 .. n
    BY <1>1
  <2>3. n \in above
    BY <1>2, <2>2
  <2>. HIDE DEF above
  <2>. QED  BY <2>1, <2>3, HasLeast
<1>4. k # 0
  BY SumsDef
<1>5. k - 1 \in 0 .. n /\ k - 1 \notin above /\ k \in 1 .. n /\ k \in 1 .. Len(terms)
  BY <1>1, <1>3, <1>4
<1>6. /\ Sums(terms)[k] = Sums(terms)[k - 1] + terms[k]
      /\ Sums(other)[k] = Sums(other)[k - 1] + other[k]
  BY <1>5, SumsDef
<1>7. /\ Sums(terms)[k - 1] \in Int /\ Sums(other)[k - 1] \in Int
      /\ terms[k] \in Int /\ other[k] \in Int
  <2>1. \A seq \in {terms, other} : \A m \in 1 .. Len(seq) : seq[m] \in Int
    BY ElementOfSeq
  <2>2. \A seq \in {terms, other} : \A m \in 1 .. Len(seq), i \in Int : i + seq[m] \in Int
    BY <2>1
  <2>3. ASSUME NEW seq \in {terms, other}
        PROVE  \A m \in 0 .. Len(seq) : Sums(seq)[m] \in Int
    <3>1. seq \in Seq(Int) /\ 0 \in Int
      OBVIOUS
    <3>2. \A m \in 1 .. Len(seq), i \in Int : i + seq[m] \in Int
      BY <2>2
    <3>. QED  BY <3>1, <3>2, SumsIn
  <2>4. k - 1 \in 0 .. Len(terms)
    BY <1>1, <1>5
  <2>. QED  BY <1>5, <2>1, <2>3, <2>4
<1>8. Sums(terms)[k - 1] <= Sums(other)[k - 1] /\ terms[k] <= other[k]
  BY <1>5
<1>9. ~(Sums(terms)[k] <= Sums(other)[k])
  BY <1>3
<1>. HIDE DEF above
<1>. QED  BY <1>6, <1>7, <1>8, <1>9

-----------------------------------------------------------------------------
(* Presets and plans.                                                      *)

LEMMA StepType ==
    ASSUME NEW p \in Presets, NEW k \in 1 .. Len(p)
    PROVE  p[k] \in Steps
BY TimedPresets, ElementOfSeq

LEMMA PresetLen ==
    ASSUME NEW p \in Presets
    PROVE  p \in Seq(Steps) /\ Len(p) \in Nat /\ 1 \in 1 .. Len(p) /\ DOMAIN p = 1 .. Len(p)
<1>1. p \in Seq(Steps) /\ p # <<>>
  BY TimedPresets
<1>2. Len(p) \in Nat /\ DOMAIN p = 1 .. Len(p)
  BY <1>1, LenProperties
<1>3. Len(p) # 0
  BY <1>1, EmptySeq
<1>. QED  BY <1>1, <1>2, <1>3

\* However many steps, their planned time is a number.
LEMMA PlannedType ==
    ASSUME NEW steps \in Seq(Steps), NEW preheat \in Nat
    PROVE  Planned(steps, preheat) \in Nat
<1> DEFINE terms == [i \in DOMAIN steps |-> PlannedStep(steps[i], preheat)]
<1>1. /\ Len(steps) \in Nat /\ DOMAIN steps = 1 .. Len(steps)
      /\ \A i \in 1 .. Len(steps) : steps[i] \in Steps
  BY LenProperties, ElementOfSeq
<1>2. \A i \in 1 .. Len(steps) : terms[i] \in Nat
  BY <1>1 DEF PlannedStep, Steps
<1>3. terms \in [1 .. Len(steps) -> Nat] /\ terms \in [1 .. Len(steps) -> Int]
  BY <1>1, <1>2
<1>. HIDE DEF terms
<1>4. terms \in Seq(Int) /\ Len(terms) = Len(steps)
  BY <1>1, <1>3, SeqDef, LenProperties
<1>5. \A k \in 0 .. Len(terms) : Sums(terms)[k] \in Nat
  <2>1. \A k \in 1 .. Len(terms), n \in Nat : n + terms[k] \in Nat
    BY <1>3, <1>4
  <2>. QED  BY <1>4, <2>1, SumsIn
<1>. QED  BY <1>1, <1>4, <1>5 DEF Planned, Total, terms

LEMMA LeastTimesSeq ==
    ASSUME NEW p \in Presets, NEW lost
    PROVE  /\ LeastTimes(p, lost) \in Seq(Int) /\ Len(LeastTimes(p, lost)) = Len(p)
           /\ \A k \in 1 .. Len(p) :
                 /\ LeastTimes(p, lost)[k] \in Nat
                 /\ LeastTimes(p, lost)[k] =
                       IF p[k].kind = "timed" /\ k \notin lost
                       THEN Later(0, p[k].minutes - EndSlack) ELSE 0
<1>1. /\ p \in Seq(Steps) /\ Len(p) \in Nat /\ DOMAIN p = 1 .. Len(p)
      /\ \A i \in 1 .. Len(p) : p[i] \in Steps
  BY PresetLen, StepType
<1>2. EndSlack \in Nat
  BY DelaysAssumption
<1>3. \A i \in 1 .. Len(p) : LeastTimes(p, lost)[i] \in Nat
  BY <1>1, <1>2 DEF LeastTimes, Later, Steps
<1>4. LeastTimes(p, lost) \in [1 .. Len(p) -> Int]
  BY <1>1, <1>3 DEF LeastTimes
<1>5. LeastTimes(p, lost) \in Seq(Int) /\ Len(LeastTimes(p, lost)) = Len(p)
  BY <1>1, <1>4, SeqDef, LenProperties
<1>. QED  BY <1>1, <1>3, <1>5 DEF LeastTimes

\* The time the steps before the k-th need adds up step by step.
LEMMA LeastTimesAdd ==
    ASSUME NEW p \in Presets, NEW lost
    PROVE  /\ Sums(LeastTimes(p, lost))[0] = 0
           /\ Total(LeastTimes(p, lost)) = Sums(LeastTimes(p, lost))[Len(p)]
           /\ \A k \in 0 .. Len(p) : Sums(LeastTimes(p, lost))[k] \in Nat
           /\ \A k \in 1 .. Len(p) :
                 Sums(LeastTimes(p, lost))[k] =
                    Sums(LeastTimes(p, lost))[k - 1]
                      + (IF p[k].kind = "timed" /\ k \notin lost
                         THEN Later(0, p[k].minutes - EndSlack) ELSE 0)
<1>1. \A k \in 0 .. Len(p) : Sums(LeastTimes(p, lost))[k] \in Nat
  <2>1. \A k \in 1 .. Len(p), n \in Nat : n + LeastTimes(p, lost)[k] \in Nat
    BY LeastTimesSeq
  <2>. QED  BY <2>1, LeastTimesSeq, SumsIn
<1>. QED  BY <1>1, LeastTimesSeq, SumsDef DEF Total

\* The more of them were lost, the less time the first k steps need.
LEMMA LeastTimesLess ==
    ASSUME NEW p \in Presets, NEW k \in 0 .. Len(p), NEW fewer, NEW more,
           fewer \cap (1 .. k) \subseteq more
    PROVE  Sums(LeastTimes(p, more))[k] <= Sums(LeastTimes(p, fewer))[k]
<1>1. Len(p) \in Nat /\ EndSlack \in Nat /\ \A i \in 1 .. Len(p) : p[i] \in Steps
  BY PresetLen, StepType, DelaysAssumption
<1>2. ASSUME NEW i \in 1 .. k PROVE LeastTimes(p, more)[i] <= LeastTimes(p, fewer)[i]
  <2>1. i \in 1 .. Len(p) /\ (i \in fewer => i \in more)
    BY <1>1
  <2>2. p[i].minutes \in Nat
    BY <1>1, <2>1 DEF Steps
  <2> DEFINE time == Later(0, p[i].minutes - EndSlack)
             timed == p[i].kind = "timed"
  <2>3. time \in Nat
    BY <1>1, <2>2 DEF Later
  <2>4. /\ LeastTimes(p, more)[i] = IF timed /\ i \notin more THEN time ELSE 0
        /\ LeastTimes(p, fewer)[i] = IF timed /\ i \notin fewer THEN time ELSE 0
    BY <2>1, LeastTimesSeq
  <2>. HIDE DEF time, timed
  <2>. QED  BY <2>1, <2>3, <2>4
<1>. QED  BY <1>2, LeastTimesSeq, SumsLess

-----------------------------------------------------------------------------
(* Types.                                                                  *)

LEMMA Delays ==
    /\ Immediate \in Nat /\ EndSlack \in Nat /\ MissedGrace \in Nat /\ ShortestHold \in Nat
    /\ StopTimeout \in Nat /\ StartTimeout \in Nat /\ RecoveryTimeout \in Nat
    /\ OvenDelay \in Nat /\ Immediate <= MissedGrace /\ Leads \subseteq Int
BY DelaysAssumption

\* All attempts take a number of seconds, which the slack covers.
LEMMA AttemptsFit ==
    /\ StartAttempts \in Nat /\ 1 \in 0 .. StartAttempts
    /\ StartAttempts * StartTimeout \in Nat /\ StartAttempts * StartTimeout <= EndSlack
<1>1. StartAttempts \in Nat /\ StartTimeout \in Nat /\ StartAttempts > 0
  BY DelaysAssumption
<1>2. StartAttempts * StartTimeout \in Nat
  BY <1>1
<1>. QED  BY <1>1, <1>2, DelaysAssumption

LEMMA OptionTypes ==
    ASSUME TimesTypeOK
    PROVE  options.preheat_minutes \in Nat /\ options.max_total \in Nat
BY OptionValues DEF TimesTypeOK

LEMMA NoAttempt == 0 \in 0 .. StartAttempts /\ 0 \in Nat /\ None \in Times
<1>1. StartAttempts \in Nat
  BY DelaysAssumption
<1>. QED  BY <1>1 DEF Times

LEMMA NewRunnerType == NoRecord \in Records /\ NewRunner \in Runners
<1>1. NoRecord \in Records
  BY DEF NoRecord, Records, Times, None
<1>. QED  BY <1>1, NoAttempt DEF NewRunner, Runners

\* Stopping the oven, or trying to, starts nothing on it.
Freed(new, old) ==
    /\ new \in Ovens /\ new.upper = old.upper /\ new.ran_out = old.ran_out
    /\ new.of \in {old.of, NoProgramme} /\ new.dialled \in {old.dialled, NoProgramme}
    /\ new.of # NoProgramme => new.until = old.until
    /\ new.pressed # None =>
          /\ new.pressed = old.pressed /\ new.dialled = old.dialled
          /\ new.duration = old.duration /\ new.of = old.of
    /\ new.seen # "running" \/ new.seen = old.seen

LEMMA PressedFrees ==
    ASSUME NEW o \in Ovens, NEW new \in AbortPressed(o) \cup SwitchedOff(o)
    PROVE  Freed(new, o)
<1>1. new = o \/ new = Stopped(o)
  BY DEF AbortPressed, SwitchedOff
<1>2. CASE new = o
  BY <1>2 DEF Freed
<1>3. CASE new = Stopped(o)
  <2>1. /\ new \in Ovens /\ new.of = NoProgramme /\ new.pressed = None /\ new.dialled = NoProgramme
        /\ new.upper = o.upper /\ new.ran_out = o.ran_out /\ new.seen = o.seen
    BY <1>3 DEF Stopped, Ovens, Times, None, NoProgramme
  <2>. QED  BY <2>1 DEF Freed
<1>. QED  BY <1>1, <1>2, <1>3

LEMMA FreedTwice ==
    ASSUME NEW old, NEW o, NEW new, Freed(o, old), Freed(new, o)
    PROVE  Freed(new, old)
BY DEF Freed

LEMMA FreedSame ==
    ASSUME NEW o \in Ovens
    PROVE  Freed(o, o)
BY DEF Freed

-----------------------------------------------------------------------------
(* A run ends, in whatever way: what is left of it is written.             *)

Ending ==
    /\ runner' \in Runners /\ runner'.up /\ runner'.record.state \notin Active
    /\ runner'.phase = "steady"
    /\ runner'.due = None /\ runner'.limit = None /\ runner'.timer = None
    /\ disk' = runner'.record
    /\ Freed(oven', oven)
    /\ UNCHANGED <<now, options, history, runs, changes, downs>>

LEMMA EndingKeeps ==
    ASSUME TimesInv, Ending
    PROVE  TimesInv'
<1>1. TimesTypeOK'
  BY DEF Ending, TimesInv, TimesTypeOK, Freed, Runners
<1>2. runner'.record.state \notin {"scheduled", "running"} /\ disk'.state \notin {"scheduled", "running"}
  BY DEF Ending, Active
<1>3. RunInv'
  BY <1>2 DEF Ending, RunInv, Recorded, Saved, Phases, InTransition, Active, Stranded, Steady
<1>4. StepInv'
  BY <1>2 DEF Ending, TimesInv, StepInv, Timers, LimitKept, Left, Attempts, InTransition,
              Steady, StepRuns, Stranded
<1>5. Programmes'
  BY <1>2 DEF Ending, TimesInv, TimesTypeOK, OvenInv, Programmes, Freed, Histories, NoProgramme,
              Stranded, Steady
<1>6. Record'.state # "running"
  BY <1>2 DEF Record
<1>7. Accepting' /\ Seeing' /\ Running' /\ HoldStopsByItself'
  BY <1>2, <1>6 DEF Ending, Accepting, Seeing, Running, HoldStopsByItself
<1>. QED  BY <1>1, <1>3, <1>4, <1>5, <1>7 DEF TimesInv, OvenInv

\* _async_fail ends a run.
LEMMA FailsKeeps ==
    ASSUME TimesInv, NEW r \in Runners, r.up, NEW ovens, \A o \in ovens : Freed(o, oven),
           NEW error \in {"refused", "not started", "preheat_timeout", "max_duration",
                          "appliance_stopped", "missed_start", "interrupted"},
           Fails(r, error, ovens), UNCHANGED <<now, options, runs, changes, downs>>
    PROVE  TimesInv'
<1>1. runner' = Ended(r, "failed", error)
  BY DEF Fails
<1>2. /\ Cleared(r) \in Runners /\ Cleared(r).up /\ Cleared(r).phase = "steady"
      /\ Cleared(r).due = None /\ Cleared(r).limit = None /\ Cleared(r).timer = None
  BY NoAttempt DEF Cleared, Runners
<1>3. /\ runner' \in Runners /\ runner'.up /\ runner'.phase = "steady"
      /\ runner'.due = None /\ runner'.limit = None /\ runner'.timer = None
      /\ runner'.record.state = "failed"
  <2>. HIDE DEF Cleared
  <2>. QED  BY ZenonT(60), <1>1, <1>2 DEF Ended, Runners, Records
<1>4. Ending
  BY <1>3 DEF Ending, Fails, Save, Active
<1>. QED  BY <1>4, EndingKeeps

-----------------------------------------------------------------------------
(* A transition begins: of the run's first step, or from the step on disk. *)

\* Or it is over at once, since the press of abort raises.
EnteringLost ==
    /\ runner'.phase = "steady" /\ runner'.record.step_index \in history'.lost
    /\ disk.state = "running" /\ runner'.record.preset = disk.preset
    /\ runner'.record.step_ends_at = disk.step_ends_at

Entering ==
    /\ runner' \in Runners /\ runner'.up /\ runner'.record.state = "running"
    /\ \/ runner'.phase = "stopping" /\ runner'.deadline = now + StopTimeout
       \/ EnteringLost
    /\ runner'.due = None /\ runner'.timer = None
    /\ history' \in Histories
    /\ history'.transitions = history.transitions + 1
    /\ Freed(oven', oven)
    /\ UNCHANGED <<now, options, disk, runs, changes, downs>>

\* What is on disk of a running step, in terms of what was lost since.
DiskSaved ==
    disk.state = "running" =>
        /\ disk.step_index \notin history.lost
        /\ disk.step_started_at \in disk.started_at + Before(disk) .. now

LEMMA EnteringKeeps ==
    ASSUME TimesInv, Entering, Recorded(runner.record)', Recorded(disk)', LimitKept', Left',
           DiskSaved', (options.max_total \in history.limits)'
    PROVE  TimesInv'
<1>1. TimesTypeOK'
  BY DEF Entering, TimesInv, TimesTypeOK, Freed
<1>2. RunInv'
  <2>1. Saved'
    <3>1. disk'.state = "running" =>
            disk'.step_ends_at = IF StepOf(disk').kind = "hold" THEN None
                                 ELSE disk'.step_started_at + StepOf(disk').minutes
      BY DEF Entering, TimesInv, RunInv, Saved, StepOf
    <3>2. InTransition' \/ Stranded'
      BY DEF Entering, EnteringLost, InTransition, Stranded, Steady
    <3>3. Stranded' => EnteringLost
      BY DEF Entering, Stranded, Steady
    <3>. QED  BY <3>1, <3>2, <3>3 DEF Entering, EnteringLost, Saved, DiskSaved
  <2>2. Phases'
    BY Delays DEF Entering, EnteringLost, TimesInv, TimesTypeOK, Phases
  <2>. QED  BY <2>1, <2>2 DEF RunInv
<1>3. StepInv'
  BY DEF Entering, EnteringLost, StepInv, Timers, Attempts, Steady, StepRuns
<1>4. history.transitions \in Nat /\ oven.of \in Nat /\ oven.dialled \in Nat /\ oven.ran_out \in Nat
  BY DEF TimesInv, TimesTypeOK, Histories, Ovens
<1>5. \A p \in {oven'.of, oven'.dialled, oven'.ran_out} : p < history'.transitions
  BY <1>4 DEF Entering, Freed, TimesInv, OvenInv, Programmes, NoProgramme
<1>6. Programmes'
  BY <1>4, <1>5 DEF Entering, Freed, TimesInv, OvenInv, Programmes, NoProgramme
<1>7. oven'.of # history'.transitions /\ oven'.dialled # history'.transitions
        /\ oven'.ran_out # history'.transitions
  BY <1>4, <1>5 DEF Entering
<1>8. Accepting' /\ Seeing' /\ Running' /\ HoldStopsByItself'
  BY <1>7 DEF Entering, EnteringLost, Accepting, Seeing, Running, HoldStopsByItself, RunsThisStep
<1>. QED  BY <1>1, <1>2, <1>3, <1>6, <1>8 DEF TimesInv, OvenInv

-----------------------------------------------------------------------------
(* A step is done.                                                         *)

\* The step of a running record, and its numbers.
LEMMA RunningStep ==
    ASSUME TimesInv, NEW record \in {runner.record, disk}, record.state = "running"
    PROVE  /\ StepOf(record) \in Steps /\ StepOf(record).minutes \in Nat
           /\ Before(record) \in Nat
           /\ record.preset \in Presets /\ record.step_index \in 1 .. Len(record.preset)
           /\ record.started_at = history.began /\ history.began \in Nat /\ history.began <= now
           /\ history.transitions \in Nat \ {0} /\ now \in Nat
<1>1. /\ record.preset \in Presets /\ record.step_index \in 1 .. Len(record.preset)
      /\ record.started_at = history.began /\ history.began \in 0 .. now
      /\ history.transitions > 0
  BY DEF TimesInv, RunInv, Recorded, Active
<1>2. now \in Nat /\ history.transitions \in Nat
  BY DEF TimesInv, TimesTypeOK, Histories
<1>3. StepOf(record) \in Steps /\ Len(record.preset) \in Nat
  BY <1>1, StepType, PresetLen DEF StepOf
<1>4. record.step_index - 1 \in 0 .. Len(record.preset)
  BY <1>1, <1>3
<1>5. Before(record) \in Nat
  BY <1>1, <1>4, LeastTimesAdd DEF Before, Needed
<1>. QED  BY <1>1, <1>2, <1>3, <1>5 DEF Steps

\* By then the steps up to the one on disk have had their time.
LEMMA StepTime ==
    ASSUME TimesInv, disk.state = "running",
           StepOf(disk).kind = "timed" => now >= disk.step_ends_at - EndSlack
    PROVE  now >= history.began + Needed(disk)[disk.step_index]
<1> DEFINE k == disk.step_index
           sums == Needed(disk)
<1>1. /\ disk.preset \in Presets /\ k \in 1 .. Len(disk.preset)
      /\ disk.started_at = history.began /\ history.began \in Nat
  BY DEF TimesInv, RunInv, Recorded, Active
<1>2. StepOf(disk) \in Steps /\ Len(disk.preset) \in Nat
  BY <1>1, StepType, PresetLen DEF StepOf
<1>3. /\ sums[k - 1] \in Nat
      /\ sums[k] = sums[k - 1] + (IF StepOf(disk).kind = "timed"
                                 THEN Later(0, StepOf(disk).minutes - EndSlack) ELSE 0)
  <2>1. k - 1 \in 0 .. Len(disk.preset) /\ k \notin history.lost
    BY <1>1, <1>2 DEF TimesInv, RunInv, Saved
  <2>. QED  BY <1>1, <2>1, LeastTimesAdd DEF StepOf, Needed
<1>4. disk.step_started_at \in history.began + sums[k - 1] .. now
  BY <1>1 DEF TimesInv, RunInv, Saved, Before
<1>5. now \in Nat /\ EndSlack \in Nat
  BY Delays DEF TimesInv, TimesTypeOK
<1>. HIDE DEF sums, k
<1>6. StepOf(disk).kind # "timed" => now >= history.began + sums[k]
  BY <1>1, <1>3, <1>4, <1>5
<1>7. ASSUME StepOf(disk).kind = "timed" PROVE now >= history.began + sums[k]
  <2>1. disk.step_ends_at = disk.step_started_at + StepOf(disk).minutes
    BY <1>7 DEF TimesInv, RunInv, Saved
  <2>2. StepOf(disk).minutes \in Nat
    BY <1>2 DEF Steps
  <2>3. disk.step_started_at \in Nat /\ disk.step_started_at >= history.began + sums[k - 1]
    BY <1>1, <1>3, <1>4, <1>5
  <2>4. now >= disk.step_started_at /\ now >= disk.step_started_at + StepOf(disk).minutes - EndSlack
    BY <1>4, <1>5, <1>7, <2>1, <2>2, <2>3
  <2>5. sums[k] \in {sums[k - 1], sums[k - 1] + StepOf(disk).minutes - EndSlack}
    BY <1>3, <1>5, <1>7, <2>2 DEF Later
  <2>. QED  BY <1>1, <1>3, <1>5, <2>2, <2>3, <2>4, <2>5
<1>. QED  BY <1>6, <1>7 DEF sums, k

\* What a step that runs, is found to have run, or was lost is done from.
Doing(r) ==
    /\ r \in Runners /\ r.up /\ r.phase = "steady" /\ r.due = None
    /\ r.record.state = "running" /\ Recorded(r.record)
    /\ disk.state = "running" /\ r.record.preset = disk.preset
    /\ r.record.step_ends_at = disk.step_ends_at /\ disk.step_index <= r.record.step_index
    /\ \E m \in history.limits : r.limit = history.began + m /\ now <= r.limit
    /\ StepOf(disk).kind # "hold"
    /\ StepOf(disk).kind = "timed" => now >= disk.step_ends_at - EndSlack
    /\ now >= history.began + Needed(r.record)[r.record.step_index]

Entered(r, k) ==
    [r EXCEPT !.record.step_index = k, !.timer = None, !.phase = "stopping",
              !.deadline = now + StopTimeout]
Passed(r, k) == [r EXCEPT !.record.step_index = k, !.timer = None]

\* What q has of r, being one of them.
AtStep(q, r, k) ==
    /\ q \in Runners /\ q.up = r.up /\ q.timer = None
    /\ q = Entered(r, k) => q.phase = "stopping" /\ q.deadline = now + StopTimeout
    /\ q = Passed(r, k) => q.phase = r.phase
    /\ q.due = r.due /\ q.limit = r.limit
    /\ q.record \in Records /\ q.record.step_index = k
    /\ q.record.state = r.record.state /\ q.record.preset = r.record.preset
    /\ q.record.last_error = r.record.last_error
    /\ q.record.started_at = r.record.started_at
    /\ q.record.start_at = r.record.start_at
    /\ q.record.ready_at = r.record.ready_at
    /\ q.record.step_ends_at = r.record.step_ends_at

LEMMA EnteredFields ==
    ASSUME NEW r \in Runners, NEW k \in Nat, now \in Nat, NEW q \in {Entered(r, k), Passed(r, k)}
    PROVE  AtStep(q, r, k)
<1>1. now + StopTimeout \in Times /\ None \in Times
  BY Delays DEF Times
<1> DEFINE record == [r.record EXCEPT !.step_index = k]
<1>2. /\ record \in Records /\ record.step_index = k
      /\ record.state = r.record.state /\ record.preset = r.record.preset
      /\ record.last_error = r.record.last_error /\ record.started_at = r.record.started_at
      /\ record.start_at = r.record.start_at /\ record.ready_at = r.record.ready_at
      /\ record.step_ends_at = r.record.step_ends_at
  BY DEF Runners, Records
<1>. HIDE DEF record
<1>3. CASE q = Entered(r, k)
  <2>1. q = [r EXCEPT !.record = record, !.timer = None, !.phase = "stopping",
                      !.deadline = now + StopTimeout]
    BY <1>3 DEF Entered, record
  <2>2. /\ q \in Runners /\ q.up = r.up /\ q.timer = None /\ q.phase = "stopping"
        /\ q.deadline = now + StopTimeout
        /\ q.due = r.due /\ q.limit = r.limit /\ q.record = record
    BY <1>1, <1>2, <2>1 DEF Runners
  <2>3. q = Passed(r, k) => q.phase = r.phase
    BY <2>2 DEF Passed, Runners
  <2>. QED  BY <1>2, <2>2, <2>3 DEF AtStep
<1>4. CASE q = Passed(r, k)
  <2>1. q = [r EXCEPT !.record = record, !.timer = None]
    BY <1>4 DEF Passed, record
  <2>2. /\ q \in Runners /\ q.up = r.up /\ q.timer = None /\ q.phase = r.phase
        /\ q.due = r.due /\ q.limit = r.limit /\ q.record = record
    BY <1>1, <1>2, <2>1 DEF Runners
  <2>3. q = Entered(r, k) => q.phase = "stopping" /\ q.deadline = now + StopTimeout
    BY DEF Entered, Runners
  <2>. QED  BY <1>2, <2>2, <2>3 DEF AtStep
<1>. QED  BY <1>3, <1>4

LEMMA StepDoneKeeps ==
    ASSUME TimesInv, NEW r, Doing(r), NEW o \in Ovens, Freed(o, oven), StepDone(r, o),
           UNCHANGED <<now, options, runs, changes, downs>>
    PROVE  TimesInv'
<1> DEFINE k == r.record.step_index
<1>1. /\ r.record \in Records /\ disk.preset \in Presets /\ r.record.last_error = "none"
      /\ r.record.preset = disk.preset
      /\ k \in 1 .. Len(disk.preset) /\ Len(disk.preset) \in Nat
      /\ r.record.started_at = history.began /\ history.began \in 0 .. now
      /\ history \in Histories /\ now \in Nat
      /\ disk.step_index \in 1 .. Len(disk.preset) /\ disk.step_index <= k
  BY PresetLen, RunningStep DEF Doing, TimesInv, TimesTypeOK, Recorded, Active, Runners
<1>2. oven' \in AbortPressed(o) /\ Freed(oven', oven)
  BY PressedFrees, FreedTwice DEF StepDone, RunStep
<1>3. CASE k < Len(disk.preset)
  <2>1. RunStep(r, k + 1, o, history)
    BY <1>1, <1>3 DEF StepDone
  <2>2. runner' \in {Entered(r, k + 1), Passed(r, k + 1)}
    BY <2>1 DEF RunStep, Entered, Passed
  <2>3. k + 1 \in Nat /\ k + 1 \in 1 .. Len(disk.preset)
    BY <1>1, <1>3
  <2>4. /\ runner' \in Runners /\ runner'.up /\ runner'.timer = None
        /\ runner' = Entered(r, k + 1) =>
              runner'.phase = "stopping" /\ runner'.deadline = now + StopTimeout
        /\ runner' = Passed(r, k + 1) => runner'.phase = "steady"
        /\ runner'.due = None /\ runner'.limit = r.limit
        /\ runner'.record.step_index = k + 1
        /\ runner'.record.state = "running" /\ runner'.record.preset = disk.preset
        /\ runner'.record.last_error = "none" /\ runner'.record.started_at = history.began
        /\ runner'.record.step_ends_at = disk.step_ends_at
    <3>1. /\ r \in Runners /\ r.up /\ r.due = None /\ r.phase = "steady"
          /\ r.record.state = "running" /\ r.record.step_ends_at = disk.step_ends_at
      BY DEF Doing
    <3>2. AtStep(runner', r, k + 1)
      BY <1>1, <2>2, <2>3, <3>1, EnteredFields
    <3>. HIDE DEF k
    <3>. QED  BY <1>1, <3>1, <3>2 DEF AtStep
  <2>5. /\ \/ /\ runner' = Entered(r, k + 1)
              /\ history' = [history EXCEPT !.transitions = @ + 1]
           \/ /\ runner' = Passed(r, k + 1)
              /\ history' = [history EXCEPT !.transitions = @ + 1, !.lost = @ \cup {k + 1}]
        /\ disk' = disk
    BY <2>1 DEF RunStep, Entered, Passed
  <2>6. /\ history' \in Histories /\ history'.transitions = history.transitions + 1
        /\ history'.began = history.began /\ history'.limits = history.limits
        /\ history'.planned = history.planned
        /\ history'.lost \in {history.lost, history.lost \cup {k + 1}}
        /\ \/ runner' = Entered(r, k + 1)
           \/ runner' = Passed(r, k + 1) /\ k + 1 \in history'.lost
    <3>1. PICK lost \in {history.lost, history.lost \cup {k + 1}} :
             /\ history' = [history EXCEPT !.transitions = @ + 1, !.lost = lost]
             /\ \/ runner' = Entered(r, k + 1)
                \/ runner' = Passed(r, k + 1) /\ k + 1 \in lost
      <4>1. CASE runner' = Entered(r, k + 1) /\ history' = [history EXCEPT !.transitions = @ + 1]
        BY <1>1, <4>1 DEF Histories
      <4>2. CASE /\ runner' = Passed(r, k + 1)
                 /\ history' = [history EXCEPT !.transitions = @ + 1, !.lost = @ \cup {k + 1}]
        BY <4>2
      <4>. QED  BY <2>5, <4>1, <4>2
    <3>2. lost \in SUBSET Nat
      BY <1>1, <2>3 DEF Histories
    <3>3. /\ history' \in Histories /\ history'.transitions = history.transitions + 1
          /\ history'.began = history.began /\ history'.limits = history.limits
          /\ history'.planned = history.planned /\ history'.lost = lost
      <4>1. history' = [history EXCEPT !.transitions = @ + 1, !.lost = lost]
        BY <3>1
      <4>2. history \in Histories
        BY <1>1
      <4>3. /\ history'.began = history.began /\ history'.limits = history.limits
            /\ history'.planned = history.planned /\ history'.lost = lost
            /\ history'.transitions = history.transitions + 1
        BY <4>1, <4>2 DEF Histories
      <4>4. history.transitions + 1 \in Nat
        BY <4>2 DEF Histories
      <4>5. history' = [ began |-> history.began, limits |-> history.limits,
                         planned |-> history.planned,
                         transitions |-> history.transitions + 1, lost |-> lost ]
        BY <4>1, <4>2 DEF Histories
      <4>6. history' \in Histories
        BY <3>2, <4>2, <4>4, <4>5 DEF Histories
      <4>. QED  BY <4>3, <4>6
    <3>. QED  BY <3>1, <3>3
  <2>7. Entering
    <3>1. \/ runner'.phase = "stopping" /\ runner'.deadline = now + StopTimeout
          \/ EnteringLost
      BY <2>4, <2>6 DEF EnteringLost, Doing
    <3>. QED  BY <1>2, <2>4, <2>5, <2>6, <3>1 DEF Entering
  <2>8. history.transitions \in Nat
    BY <1>1 DEF Histories
  <2>9. Recorded(runner.record)'
    BY <1>1, <2>3, <2>4, <2>6, <2>7, <2>8 DEF Recorded, Active, Entering
  <2>10. Recorded(disk)'
    BY <1>1, <2>5, <2>6, <2>7, <2>8 DEF Recorded, Doing, TimesInv, RunInv, Entering
  <2>11. LimitKept'
    BY <2>4, <2>6 DEF LimitKept, Doing
  <2>12. \A j \in 0 .. Len(disk.preset) :
           /\ Sums(LeastTimes(disk.preset, history'.lost))[j]
                 <= Sums(LeastTimes(disk.preset, history.lost))[j]
           /\ Sums(LeastTimes(disk.preset, history'.lost))[j] \in Nat
           /\ Sums(LeastTimes(disk.preset, history.lost))[j] \in Nat
    BY <1>1, <2>6, LeastTimesLess, LeastTimesAdd
  <2>13. Left'
    <3>1. now >= history.began + Sums(LeastTimes(disk.preset, history.lost))[k]
      BY <1>1 DEF Doing, Needed
    <3>2. /\ runner'.record.step_index - 1 = k /\ runner'.record.preset = disk.preset
          /\ k \in 0 .. Len(disk.preset)
      BY <1>1, <2>4
    <3>3. Before(runner.record)' = Sums(LeastTimes(disk.preset, history'.lost))[k]
      BY <3>2, Zenon DEF Before, Needed
    <3>4. (now >= history.began + Before(runner.record))'
      <4>1. now >= history.began + Sums(LeastTimes(disk.preset, history'.lost))[k]
        BY <1>1, <2>12, <3>1, <3>2
      <4>. QED  BY <2>6, <2>7, <3>3, <4>1 DEF Entering
    <3>5. disk'.step_index < runner'.record.step_index
      BY <1>1, <2>4, <2>5
    <3>6. /\ StepOf(disk)'.kind # "hold"
          /\ StepOf(disk)'.kind = "timed" => (now >= disk.step_ends_at - EndSlack)'
      BY <2>5, <2>7 DEF Doing, Entering, StepOf
    <3>. QED  BY <3>4, <3>5, <3>6 DEF Left
  <2>14. DiskSaved'
    <3>1. disk.step_index \notin history.lost
      BY DEF Doing, TimesInv, RunInv, Saved
    <3>2. disk.step_index # k + 1
      BY <1>1
    <3>3. disk.step_index \notin history'.lost
      BY <2>6, <3>1, <3>2
    <3>4. /\ disk.step_started_at \in disk.started_at + Before(disk) .. now
          /\ disk.started_at \in Nat
      BY RunningStep DEF Doing, TimesInv, RunInv, Saved
    <3>5. disk.step_index - 1 \in 0 .. Len(disk.preset)
      BY <1>1
    <3>6. /\ Before(disk) = Sums(LeastTimes(disk.preset, history.lost))[disk.step_index - 1]
          /\ Before(disk)' = Sums(LeastTimes(disk.preset, history'.lost))[disk.step_index - 1]
      BY <2>5 DEF Before, Needed
    <3>7. Before(disk)' <= Before(disk) /\ Before(disk)' \in Nat /\ Before(disk) \in Nat
      BY <2>12, <3>5, <3>6
    <3>8. disk.step_started_at \in disk.started_at + Before(disk)' .. now
      BY <1>1, <3>4, <3>7
    <3>. QED  BY <2>5, <2>7, <3>3, <3>8 DEF DiskSaved, Entering
  <2>15. (options.max_total \in history.limits)'
    BY <1>1, <2>6, <2>7 DEF TimesInv, StepInv, Timers, None, Entering
  <2>. QED  BY <2>7, <2>9, <2>10, <2>11, <2>13, <2>14, <2>15, EnteringKeeps
<1>4. CASE ~(k < Len(disk.preset))
  <2>1. /\ runner' = [Ended(r, "finished", r.record.last_error) EXCEPT !.record.step_ends_at = None]
        /\ disk' = runner'.record /\ UNCHANGED history
    BY <1>1, <1>4 DEF StepDone, Save
  <2>2. /\ Cleared(r) \in Runners /\ Cleared(r).up /\ Cleared(r).phase = "steady"
        /\ Cleared(r).due = None /\ Cleared(r).limit = None /\ Cleared(r).timer = None
    BY NoAttempt DEF Cleared, Runners, Doing
  <2> DEFINE e == Ended(r, "finished", r.record.last_error)
  <2>3. /\ e \in Runners /\ e.up /\ e.phase = "steady"
        /\ e.due = None /\ e.limit = None /\ e.timer = None
        /\ e.record.state = "finished"
    <3>. HIDE DEF Cleared
    <3>. QED  BY <1>1, <2>2 DEF Ended, Runners, Records, Doing
  <2>4. /\ runner' \in Runners /\ runner'.up /\ runner'.phase = "steady"
        /\ runner'.due = None /\ runner'.limit = None /\ runner'.timer = None
        /\ runner'.record.state = "finished"
    <3>. HIDE DEF e
    <3>1. None \in Times
      BY DEF Times
    <3>. QED  BY <2>1, <2>3, <3>1 DEF Runners, Records, e
  <2>5. Ending
    BY <1>2, <2>1, <2>4 DEF Ending, Active
  <2>. QED  BY <2>5, EndingKeeps
<1>. QED  BY <1>3, <1>4

-----------------------------------------------------------------------------
(* The schedule.                                                           *)

\* The record a run begins with, before its first step is entered.
Begun ==
    [runner EXCEPT !.record.state = "running", !.record.started_at = now,
                   !.due = None, !.limit = now + options.max_total]

LEMMA BegunFields ==
    ASSUME TimesTypeOK
    PROVE  /\ Begun \in Runners /\ Begun.up = runner.up /\ Begun.due = None
           /\ Begun.limit = now + options.max_total
           /\ Begun.record.state = "running" /\ Begun.record.started_at = now
           /\ Begun.record.preset = runner.record.preset
           /\ Begun.record.last_error = runner.record.last_error
           /\ Begun.record.start_at = runner.record.start_at
<1>1. now + options.max_total \in Times /\ now \in Times /\ None \in Times
  BY OptionTypes DEF TimesTypeOK, Times
<1>2. [runner.record EXCEPT !.state = "running", !.started_at = now] \in Records
  BY <1>1 DEF TimesTypeOK, Runners, Records
<1>. QED  BY <1>1, <1>2 DEF Begun, TimesTypeOK, Runners, Records

LEMMA BeginKeeps ==
    ASSUME TimesInv, runner.due # None, now >= runner.due, Begin,
           UNCHANGED <<now, options, runs, changes, downs>>
    PROVE  TimesInv'
<1>1. /\ runner \in Runners /\ runner.up /\ runner.record.state = "scheduled"
      /\ runner.phase = "steady" /\ runner.record = disk
      /\ now \in Nat /\ oven \in Ovens /\ history \in Histories
      /\ options.max_total \in MaxTotals /\ options.max_total \in Nat
  BY OptionTypes DEF TimesInv, TimesTypeOK, RunInv, Phases, Saved, InTransition, Stranded, Steady
<1>2. runner.record.preset \in Presets /\ runner.record.last_error = "none"
  BY <1>1 DEF TimesInv, RunInv, Recorded, Active
<1>3. CASE Fails(runner, "refused", {oven})
  BY <1>1, <1>3, FreedSame, FailsKeeps
<1>4. CASE /\ oven.seen # "running"
           /\ RunStep(Begun, 1, oven,
                   [history EXCEPT !.began = now, !.limits = {options.max_total}, !.lost = {}])
  <2>1. /\ runner' = Entered(Begun, 1) /\ disk' = disk
        /\ oven' \in AbortPressed(oven)
        /\ history' = [[history EXCEPT !.began = now, !.limits = {options.max_total}, !.lost = {}]
                        EXCEPT !.transitions = @ + 1]
    BY <1>4 DEF RunStep, Entered
  <2>2. Freed(oven', oven)
    BY <1>1, <2>1, PressedFrees
  <2>3. /\ history' \in Histories /\ history'.transitions = history.transitions + 1
        /\ history'.began = now /\ history'.limits = {options.max_total}
        /\ history'.planned = history.planned /\ history'.lost = {}
        /\ history.transitions \in Nat
    <3>1. {options.max_total} \in SUBSET MaxTotals /\ now \in Times
      BY <1>1 DEF Times
    <3> DEFINE h == [history EXCEPT !.began = now, !.limits = {options.max_total}, !.lost = {}]
    <3>2. /\ h \in Histories /\ h.transitions = history.transitions
          /\ h.began = now /\ h.limits = {options.max_total} /\ h.planned = history.planned
          /\ h.lost = {}
      BY <1>1, <3>1 DEF Histories
    <3>. HIDE DEF h
    <3>3. history' = [h EXCEPT !.transitions = @ + 1]
      BY <2>1 DEF h
    <3>. QED  BY <1>1, <3>2, <3>3 DEF Histories
  <2>4. /\ runner' \in Runners /\ runner'.up /\ runner'.phase = "stopping"
        /\ runner'.deadline = now + StopTimeout /\ runner'.timer = None
        /\ runner'.due = None /\ runner'.limit = now + options.max_total
        /\ runner'.record.step_index = 1 /\ runner'.record.state = "running"
        /\ runner'.record.preset = disk.preset /\ runner'.record.last_error = "none"
        /\ runner'.record.started_at = now
    <3>1. /\ Begun \in Runners /\ Begun.up /\ Begun.due = None
          /\ Begun.limit = now + options.max_total
          /\ Begun.record.state = "running" /\ Begun.record.started_at = now
          /\ Begun.record.preset = disk.preset /\ Begun.record.last_error = "none"
      BY <1>1, <1>2, BegunFields DEF TimesInv
    <3>2. 1 \in Nat
      OBVIOUS
    <3>3. runner' \in {Entered(Begun, 1), Passed(Begun, 1)}
      BY <2>1
    <3>4. AtStep(runner', Begun, 1)
      BY <1>1, <3>1, <3>2, <3>3, EnteredFields
    <3>. QED  BY <2>1, <3>1, <3>4 DEF AtStep
  <2>5. Entering
    BY <2>1, <2>2, <2>3, <2>4 DEF Entering
  <2>6. Recorded(runner.record)'
    BY <1>1, <1>2, <2>3, <2>4, PresetLen DEF Recorded, Active
  <2>7. Recorded(disk)'
    BY <1>1, <2>1, <2>3 DEF Recorded, TimesInv, RunInv
  <2>8. LimitKept'
    BY <1>1, <2>3, <2>4, <2>5 DEF LimitKept, Entering
  <2>9. Left'
    <3>1. Before(runner.record)' = 0
      <4>1. runner'.record.step_index - 1 = 0
        BY <2>4
      <4>2. Sums(LeastTimes(runner'.record.preset, history'.lost))[0] = 0
        BY <1>1, <1>2, <2>4, LeastTimesAdd
      <4>. QED  BY <4>1, <4>2, Zenon DEF Before, Needed
    <3>2. (now >= history.began + Before(runner.record))'
      BY <1>1, <2>3, <2>5, <3>1 DEF Entering
    <3>. QED  BY <1>1, <2>1, <3>2 DEF Left
  <2>10. (options.max_total \in history.limits)'
    BY <2>3, <2>5 DEF Entering
  <2>11. DiskSaved'
    BY <1>1, <2>1 DEF DiskSaved
  <2>. QED  BY <2>5, <2>6, <2>7, <2>8, <2>9, <2>10, <2>11, EnteringKeeps
<1>. QED  BY <1>3, <1>4 DEF Begin, Begun

\* What is asked for is planned, and not later than it may begin.
LEMMA AcceptKeeps ==
    ASSUME TimesInv, NEW p \in Presets, NEW start \in Int, NEW ready \in Int,
           runner.up, runner.record.state \notin Active, Accept(p, start, ready),
           ready = None \/ start = StartForReady(p, ready, options.preheat_minutes),
           runs' \in Nat, UNCHANGED <<now, options, changes, downs>>
    PROVE  TimesInv'
<1> DEFINE record == [NoRecord EXCEPT !.state = "scheduled", !.preset = p,
                                      !.start_at = start, !.ready_at = ready]
           due == IF start > now + Immediate THEN start ELSE now
<1>1. /\ runner \in Runners /\ now \in Nat /\ history \in Histories
      /\ runner.phase = "steady" /\ runner.timer = None
      /\ options.preheat_minutes \in PreheatMinutes
  BY DEF TimesInv, TimesTypeOK, RunInv, Phases, Steady, StepRuns, Active
<1>2. /\ record \in Records /\ record.state = "scheduled" /\ record.preset = p
      /\ record.start_at = start /\ record.ready_at = ready /\ record.last_error = "none"
  BY NewRunnerType DEF NoRecord, Records
<1>3. /\ due \in Nat /\ now <= due
      /\ start - Immediate <= due /\ due <= start + MissedGrace
  <2>1. Immediate \in Nat /\ MissedGrace \in Nat /\ Immediate <= MissedGrace
    BY Delays
  <2>. QED  BY <1>1, <2>1 DEF Accept
<1>. HIDE DEF record, due
<1>4. runner' = [[runner EXCEPT !.record = record] EXCEPT !.due = due]
  BY DEF Accept, Accepted, record, due
<1>5. /\ runner' \in Runners /\ runner'.record = record /\ runner'.due = due
      /\ runner'.up /\ runner'.phase = "steady" /\ runner'.timer = None
  BY <1>1, <1>2, <1>3, <1>4 DEF Runners, Times
<1>6. /\ disk' = record /\ UNCHANGED oven
      /\ history' = [history EXCEPT !.planned = options.preheat_minutes]
  BY <1>5 DEF Accept, Save
<1>7. /\ history' \in Histories /\ history'.planned = options.preheat_minutes
      /\ history'.began = history.began /\ history'.limits = history.limits
      /\ history'.transitions = history.transitions /\ history'.lost = history.lost
  BY <1>1, <1>6 DEF Histories
<1>8. TimesTypeOK'
  BY <1>2, <1>5, <1>6, <1>7 DEF TimesInv, TimesTypeOK
<1>9. RunInv'
  <2>1. record.ready_at # None =>
          record.start_at = record.ready_at - Planned(record.preset, history'.planned)
    BY <1>2, <1>7 DEF StartForReady
  <2>2. Recorded(runner.record)' /\ Recorded(disk)'
    BY <1>2, <1>5, <1>6, <2>1 DEF Recorded, Active
  <2>3. Saved' /\ Phases'
    BY <1>2, <1>5, <1>6 DEF Saved, Phases, InTransition, Stranded, Steady
  <2>. QED  BY <2>2, <2>3 DEF RunInv
<1>10. StepInv'
  <2>1. Timers'
    BY <1>1, <1>2, <1>3, <1>5, <1>7
    DEF TimesInv, StepInv, Timers, LimitKept, Steady, StepRuns
  <2>. QED  BY <1>2, <1>5, <2>1 DEF StepInv, Left, Attempts, InTransition, Stranded, Steady
<1>11. OvenInv'
  <2>1. Programmes'
    BY <1>2, <1>5, <1>6, <1>7 DEF TimesInv, OvenInv, Programmes, Stranded, Steady
  <2>. QED  BY <1>2, <1>5, <1>6, <2>1
            DEF OvenInv, Accepting, Seeing, Running, HoldStopsByItself, Record
<1>. QED  BY <1>8, <1>9, <1>10, <1>11 DEF TimesInv

LEMMA RunKeeps ==
    ASSUME TimesInv, Run
    PROVE  TimesInv'
<1>1. /\ runner.up /\ runner.record.state \notin Active
      /\ runs' \in Nat /\ UNCHANGED <<now, options, changes, downs>>
  BY DEF Run, TimesInv, TimesTypeOK
<1>2. PICK p \in Presets, lead \in Leads :
         \/ Accept(p, now + lead, None)
         \/ Accept(p, StartForReady(p, now + lead, options.preheat_minutes), now + lead)
  BY DEF Run
<1>3. now + lead \in Int /\ None \in Int
  BY Delays DEF TimesInv, TimesTypeOK, None
<1>4. StartForReady(p, now + lead, options.preheat_minutes) \in Int
  <2>1. p \in Seq(Steps) /\ options.preheat_minutes \in Nat
    BY PresetLen, OptionTypes DEF TimesInv
  <2>. QED  BY <1>3, <2>1, PlannedType DEF StartForReady
<1>. QED  BY <1>1, <1>2, <1>3, <1>4, AcceptKeeps

LEMMA DueKeeps ==
    ASSUME TimesInv, Due
    PROVE  TimesInv'
BY BeginKeeps DEF Due

LEMMA AbortKeeps ==
    ASSUME TimesInv, Abort
    PROVE  TimesInv'
<1>1. runner \in Runners /\ runner.up /\ oven \in Ovens
  BY DEF Abort, TimesInv, TimesTypeOK
<1>2. /\ Cleared(runner) \in Runners /\ Cleared(runner).up /\ Cleared(runner).phase = "steady"
      /\ Cleared(runner).due = None /\ Cleared(runner).limit = None
      /\ Cleared(runner).timer = None
  BY <1>1, NoAttempt DEF Cleared, Runners
<1>3. /\ runner' \in Runners /\ runner'.up /\ runner'.phase = "steady"
      /\ runner'.due = None /\ runner'.limit = None /\ runner'.timer = None
      /\ runner'.record.state = "idle"
  <2>. HIDE DEF Cleared
  <2>1. NoRecord \in Records /\ NoRecord.state = "idle"
    BY NewRunnerType DEF NoRecord
  <2>2. CASE runner' = [Cleared(runner) EXCEPT !.record.state = "idle"]
    BY <1>2, <2>2 DEF Runners, Records
  <2>3. CASE runner' = [Cleared(runner) EXCEPT !.record = NoRecord]
    BY <1>2, <2>1, <2>3 DEF Runners
  <2>. QED  BY <2>2, <2>3 DEF Abort
<1>4. Freed(oven', oven)
  BY <1>1, FreedSame, PressedFrees DEF Abort
<1>. QED  BY <1>3, <1>4, EndingKeeps DEF Abort, Ending, Save, Active

\* A limit that the run had stays one of those it had.
LEMMA ChangeOptionsKeeps ==
    ASSUME TimesInv, ChangeOptions
    PROVE  TimesInv'
<1>1. /\ options' \in [preheat_minutes : PreheatMinutes, max_total : MaxTotals]
      /\ history' = [history EXCEPT !.limits = @ \cup {options'.max_total}]
      /\ changes' = changes + 1 /\ UNCHANGED <<now, runner, disk, oven, runs, downs>>
      /\ history \in Histories
  BY DEF ChangeOptions, TimesInv, TimesTypeOK
<1>2. /\ history' \in Histories /\ history.limits \subseteq history'.limits
      /\ options'.max_total \in history'.limits
      /\ history'.began = history.began /\ history'.planned = history.planned
      /\ history'.transitions = history.transitions /\ history'.lost = history.lost
  BY <1>1 DEF Histories
<1>3. TimesTypeOK'
  BY <1>1, <1>2 DEF TimesInv, TimesTypeOK
<1>4. /\ Stranded' = Stranded /\ StepRuns' = StepRuns /\ RunsThisStep' = RunsThisStep
      /\ Before(disk)' = Before(disk) /\ Before(runner.record)' = Before(runner.record)
  BY <1>1, <1>2 DEF Stranded, StepRuns, Steady, RunsThisStep, Before, Needed
<1>5. RunInv'
  BY <1>1, <1>2, <1>4 DEF TimesInv, RunInv, Recorded, Saved, Phases, InTransition, StepOf
<1>6. LimitKept'
  BY <1>1, <1>2 DEF TimesInv, StepInv, Timers, LimitKept
<1>7. Timers'
  BY <1>1, <1>2, <1>4, <1>6 DEF TimesInv, StepInv, Timers, StepOf
<1>8. Left' /\ Attempts'
  BY <1>1, <1>2, <1>4 DEF TimesInv, StepInv, Left, Attempts, InTransition, StepOf
<1>9. Programmes' /\ Seeing' /\ Running'
  BY <1>1, <1>2, <1>4 DEF TimesInv, OvenInv, Programmes, Seeing, Running, StepOf, Uncapped
<1>10. Accepting' /\ HoldStopsByItself'
  BY <1>1, <1>2, <1>4 DEF TimesInv, OvenInv, Accepting, HoldStopsByItself, StepOf, Record, HoldEnd
<1>. QED  BY <1>3, <1>5, <1>7, <1>8, <1>9, <1>10 DEF TimesInv, StepInv, OvenInv

LEMMA TransitionFailsKeeps ==
    ASSUME TimesInv, TransitionFails
    PROVE  TimesInv'
<1>1. runner \in Runners /\ runner.up /\ oven \in Ovens
  BY DEF TransitionFails, TimesInv, TimesTypeOK, RunInv, Phases
<1>. QED  BY <1>1, PressedFrees, FailsKeeps DEF TransitionFails

LEMMA LimitReachedKeeps ==
    ASSUME TimesInv, LimitReached
    PROVE  TimesInv'
<1>1. runner \in Runners /\ runner.up /\ oven \in Ovens
  BY DEF LimitReached, TimesInv, TimesTypeOK, RunInv, Phases, NewRunner
<1>. QED  BY <1>1, PressedFrees, FailsKeeps DEF LimitReached

\* A step that runs can be done.
LEMMA RunsDoes ==
    ASSUME TimesInv, StepRuns, CurrentStep(runner).kind # "hold",
           CurrentStep(runner).kind = "timed" => now >= disk.step_ends_at - EndSlack
    PROVE  Doing(runner) /\ runner.record = disk
<1>1. /\ runner \in Runners /\ runner.up /\ runner.phase = "steady" /\ runner.record = disk
      /\ disk.state = "running" /\ runner.due = None
  BY DEF TimesInv, TimesTypeOK, RunInv, Phases, Saved, StepRuns, Stranded, Steady, InTransition
<1>2. /\ Recorded(disk) /\ disk.step_index \in Nat
  BY DEF TimesInv, TimesTypeOK, RunInv, Records
<1>3. CurrentStep(runner) = StepOf(disk)
  BY <1>1 DEF CurrentStep, StepOf
<1>4. now >= history.began + Needed(disk)[disk.step_index]
  BY <1>1, <1>3, StepTime
<1>5. \E m \in history.limits : runner.limit = history.began + m /\ now <= runner.limit
  BY <1>1 DEF TimesInv, StepInv, Timers, LimitKept
<1>. QED  BY <1>1, <1>2, <1>3, <1>4, <1>5 DEF Doing

\* One that was lost needs no time to be passed over.
LEMMA StrandedDoes ==
    ASSUME TimesInv, Stranded
    PROVE  Doing(runner)
<1> DEFINE k == runner.record.step_index
           p == runner.record.preset
<1>1. /\ runner \in Runners /\ runner.up /\ runner.phase = "steady" /\ runner.due = None
      /\ runner.record.state = "running" /\ Recorded(runner.record)
  BY DEF TimesInv, TimesTypeOK, RunInv, Phases, Stranded, Steady
<1>2. /\ disk.state = "running" /\ p = disk.preset
      /\ runner.record.step_ends_at = disk.step_ends_at
  BY DEF TimesInv, RunInv, Saved
<1>3. /\ now >= history.began + Before(runner.record)
      /\ disk.step_index < k
      /\ StepOf(disk).kind # "hold"
      /\ StepOf(disk).kind = "timed" => now >= disk.step_ends_at - EndSlack
  BY <1>2 DEF TimesInv, StepInv, Left
<1>4. /\ p \in Presets /\ k \in 1 .. Len(p) /\ Len(p) \in Nat /\ k \in history.lost
      /\ Before(runner.record) \in Nat /\ history.began \in Nat /\ now \in Nat
      /\ disk.step_index \in Nat
  BY <1>1, RunningStep, PresetLen DEF Stranded, TimesInv, TimesTypeOK, Records
<1>5. Needed(runner.record)[k] = Before(runner.record)
  <2>1. Sums(LeastTimes(p, history.lost))[k] = Sums(LeastTimes(p, history.lost))[k - 1] + 0
    BY <1>4, LeastTimesAdd
  <2>2. Sums(LeastTimes(p, history.lost))[k - 1] \in Nat
    BY <1>4 DEF Before, Needed
  <2>. QED  BY <2>1, <2>2 DEF Before, Needed
<1>6. \E m \in history.limits : runner.limit = history.began + m /\ now <= runner.limit
  BY <1>1 DEF TimesInv, StepInv, Timers, LimitKept
<1>. QED  BY <1>1, <1>2, <1>3, <1>4, <1>5, <1>6 DEF Doing

LEMMA StepTimerKeeps ==
    ASSUME TimesInv, StepTimer
    PROVE  TimesInv'
<1>1. /\ StepRuns /\ runner \in Runners /\ runner.up /\ oven \in Ovens
      /\ runner.timer = disk.step_ends_at
      /\ now \in Nat /\ runner.timer \in Nat /\ EndSlack \in Nat
  BY Delays DEF StepTimer, TimesInv, TimesTypeOK, RunInv, Phases, StepRuns, Steady,
                StepInv, Timers, Runners, Times
<1>2. CASE CurrentStep(runner).kind = "timed"
  <2>1. now >= disk.step_ends_at - EndSlack
    BY <1>1 DEF StepTimer
  <2>2. Doing(runner)
    BY <1>1, <1>2, <2>1, RunsDoes
  <2>. QED  BY <1>1, <1>2, <2>2, FreedSame, StepDoneKeeps DEF StepTimer
<1>3. CASE CurrentStep(runner).kind # "timed"
  BY <1>1, <1>3, PressedFrees, FailsKeeps DEF StepTimer
<1>. QED  BY <1>2, <1>3

LEMMA HeatedKeeps ==
    ASSUME TimesInv, Heated
    PROVE  TimesInv'
<1>1. Doing(runner) /\ oven \in Ovens
  BY RunsDoes DEF Heated, TimesInv, TimesTypeOK, RunInv, Phases
<1>. QED  BY <1>1, FreedSame, StepDoneKeeps DEF Heated

\* The end of a step is near, or that of the step before one that was lost.
LEMMA NearEndDoes ==
    ASSUME TimesInv, Steady, NearEnd(runner)
    PROVE  Doing(runner)
<1>1. CASE Stranded
  BY <1>1, StrandedDoes
<1>2. CASE ~Stranded
  <2>1. StepRuns /\ runner.record = disk
    BY <1>2 DEF StepRuns, Stranded, Steady, TimesInv, RunInv, Saved, InTransition
  <2>. QED  BY <2>1, RunsDoes DEF NearEnd
<1>. QED  BY <1>1, <1>2

-----------------------------------------------------------------------------
(* The oven.                                                               *)

LEMMA DiskTimes ==
    ASSUME TimesInv, disk.state = "running"
    PROVE  /\ disk.step_started_at \in Nat /\ disk.step_started_at <= now
           /\ StepOf(disk).kind # "hold" =>
                 /\ disk.step_ends_at = disk.step_started_at + StepOf(disk).minutes
                 /\ disk.step_ends_at \in Nat /\ disk.step_started_at <= disk.step_ends_at
<1>1. disk.step_started_at \in history.began + Before(disk) .. now
  BY RunningStep DEF TimesInv, RunInv, Saved
<1>2. disk.step_started_at \in Nat /\ disk.step_started_at <= now
  BY <1>1, RunningStep
<1>. QED  BY <1>2, RunningStep DEF TimesInv, RunInv, Saved

LEMMA OvenOnlyKeeps ==
    ASSUME TimesInv, oven' \in Ovens, oven'.upper = oven.upper,
           UNCHANGED <<now, options, runner, disk, history, runs, changes, downs>>, OvenInv'
    PROVE  TimesInv'
<1>1. TimesTypeOK'
  BY DEF TimesInv, TimesTypeOK
<1>2. RunInv'
  BY DEF TimesInv, RunInv, Recorded, Saved, Phases, InTransition, Steady, StepRuns, Stranded,
         StepOf, Before, Needed
<1>3. StepInv'
  BY DEF TimesInv, StepInv, Timers, LimitKept, Left, Attempts, InTransition, Steady, StepRuns,
         Stranded, StepOf, Before, Needed
<1>. QED  BY <1>1, <1>2, <1>3 DEF TimesInv

LEMMA OvenStopsKeeps ==
    ASSUME TimesInv, OvenStops
    PROVE  TimesInv'
<1>1. UNCHANGED <<now, options, runner, disk, history, runs, changes, downs>>
  BY DEF OvenStops
<1>2. /\ oven \in Ovens /\ now \in Nat /\ history.transitions \in Nat /\ EndSlack \in Nat
      /\ oven.of # NoProgramme
  BY Delays DEF OvenStops, TimesInv, TimesTypeOK, Histories
<1>3. /\ oven' \in Ovens /\ oven'.upper = oven.upper /\ oven'.of = NoProgramme
      /\ oven'.pressed = None /\ oven'.dialled = NoProgramme
      /\ oven'.ran_out = IF now = oven.until THEN oven.of ELSE NoProgramme
  <2>1. /\ Stopped(oven) \in Ovens /\ Stopped(oven).upper = oven.upper
        /\ Stopped(oven).of = NoProgramme /\ Stopped(oven).pressed = None
        /\ Stopped(oven).dialled = NoProgramme
    BY <1>2 DEF Stopped, Ovens, Times, None, NoProgramme
  <2>2. (IF now = oven.until THEN oven.of ELSE NoProgramme) \in Nat
    BY <1>2 DEF Ovens, NoProgramme
  <2>. QED  BY <2>1, <2>2 DEF OvenStops, Ovens
<1>4. ~RunsThisStep'
  BY <1>3 DEF RunsThisStep
<1>5. oven'.ran_out = history.transitions /\ history.transitions # 0 =>
        RunsThisStep /\ now = oven.until
  BY <1>2, <1>3 DEF RunsThisStep, NoProgramme
<1>6. Programmes'
  BY <1>1, <1>2, <1>3 DEF TimesInv, OvenInv, Programmes, NoProgramme, Ovens, Stranded, Steady
<1>7. Seeing'
  <2>1. runner.phase = "starting" => history.transitions # 0
    BY RunningStep DEF TimesInv, RunInv, Phases
  <2>. QED  BY <1>1, <1>3, <1>4, <1>5, <2>1 DEF TimesInv, OvenInv, Seeing, StepOf, Uncapped
<1>8. Running'
  <2>1. SUFFICES ASSUME disk.state = "running", StepOf(disk).kind = "timed", Uncapped(StepOf(disk)),
                        oven'.ran_out = history.transitions
                 PROVE  now >= disk.step_ends_at - EndSlack
    BY <1>1, <1>3, <1>4 DEF Running, StepOf, Uncapped
  <2>2. RunsThisStep /\ now = oven.until
    BY <1>5, <2>1, RunningStep
  <2>3. disk.step_ends_at \in Nat
    BY <2>1, DiskTimes
  <2>. QED  BY <1>2, <2>1, <2>2, <2>3 DEF TimesInv, OvenInv, Running
<1>9. Accepting' /\ HoldStopsByItself'
  BY <1>3, <1>4 DEF Accepting, HoldStopsByItself
<1>10. OvenInv'
  BY <1>6, <1>7, <1>8, <1>9 DEF OvenInv
<1>. QED  BY <1>1, <1>3, <1>10, OvenOnlyKeeps

\* A programme has the time of the attempts, and ends by then and its duration.
LEMMA OvenActsKeeps ==
    ASSUME TimesInv, OvenActs
    PROVE  TimesInv'
<1>1. UNCHANGED <<now, options, runner, disk, history, runs, changes, downs>>
  BY DEF OvenActs
<1>2. /\ oven \in Ovens /\ now \in Nat /\ history.transitions \in Nat /\ runner \in Runners
      /\ oven.pressed # None /\ oven.pressed \in Nat /\ now <= oven.pressed
      /\ oven.of = NoProgramme /\ oven.duration \in Nat
  BY DEF OvenActs, TimesInv, TimesTypeOK, Histories, OvenInv, Programmes, Ovens, Times
<1>3. /\ oven' \in Ovens /\ oven'.upper = oven.upper /\ oven'.pressed = None
      /\ oven'.dialled = NoProgramme /\ oven'.ran_out = oven.ran_out
      /\ \/ oven'.of = NoProgramme
         \/ oven'.of = oven.dialled /\ oven'.until = now + oven.duration
  <2>1. now + oven.duration \in Times /\ None \in Times /\ NoProgramme \in Nat
    BY <1>2 DEF Times, NoProgramme
  <2>2. CASE oven' = [oven EXCEPT !.of = oven.dialled, !.until = now + oven.duration,
                                  !.pressed = None, !.dialled = NoProgramme, !.duration = 0]
    BY <1>2, <2>1, <2>2 DEF Ovens
  <2>3. CASE oven' = [oven EXCEPT !.pressed = None, !.dialled = NoProgramme, !.duration = 0]
    BY <1>2, <2>1, <2>3 DEF Ovens
  <2>. QED  BY <2>2, <2>3 DEF OvenActs
<1>4. Programmes'
  BY <1>1, <1>2, <1>3 DEF TimesInv, OvenInv, Programmes, NoProgramme, Ovens, Stranded, Steady
<1>5. Accepting'
  BY <1>3 DEF Accepting
<1>6. CASE ~RunsThisStep'
  <2>1. Seeing' /\ Running'
    BY <1>1, <1>3, <1>6 DEF TimesInv, OvenInv, Seeing, Running, StepOf, Uncapped
  <2>2. HoldStopsByItself'
    BY <1>6 DEF HoldStopsByItself
  <2>3. OvenInv'
    BY <1>4, <1>5, <2>1, <2>2 DEF OvenInv
  <2>. QED  BY <1>1, <1>3, <2>3, OvenOnlyKeeps
<1>7. CASE RunsThisStep'
  <2>1. oven.dialled = history.transitions /\ oven'.until = now + oven.duration
    BY <1>1, <1>3, <1>7 DEF RunsThisStep
  <2>2. Seeing'
    <3>1. SUFFICES ASSUME runner.phase = "starting", StepOf(runner.record).kind = "timed",
                          Uncapped(StepOf(runner.record))
                   PROVE  LET step == StepOf(runner.record)
                              spent == runner.attempt * StartTimeout
                          IN  /\ oven'.until <= now + step.minutes
                              /\ runner.deadline + step.minutes <= oven'.until + spent
                              /\ oven'.ran_out = history.transitions =>
                                    runner.deadline + step.minutes <= now + spent
      BY <1>1, <1>3 DEF Seeing, StepOf, Uncapped
    <3>2. runner.record.state = "running" /\ runner.deadline \in Nat
      BY <1>2, <3>1 DEF TimesInv, RunInv, Phases, Runners, Times, None
    <3>3. StepOf(runner.record).minutes \in Nat
      BY <3>2, RunningStep
    <3>4. oven.duration = StepOf(runner.record).minutes
      BY <1>2, <2>1, <3>1, <3>3 DEF TimesInv, OvenInv, Accepting, StepInv, Attempts, Earlier, Uncapped
    <3>5. /\ runner.deadline <= now + runner.attempt * StartTimeout
          /\ runner.attempt * StartTimeout \in Nat
      <4>1. runner.attempt \in Nat /\ StartTimeout \in Nat
        BY <1>2, Delays, AttemptsFit DEF Runners
      <4>. QED  BY <3>1, <4>1 DEF TimesInv, StepInv, Attempts
    <3>6. oven'.ran_out = history.transitions =>
            runner.deadline + StepOf(runner.record).minutes <= now + runner.attempt * StartTimeout
      BY <1>3, <3>1 DEF TimesInv, OvenInv, Seeing
    <3> DEFINE spent == runner.attempt * StartTimeout
    <3>. HIDE DEF spent
    <3>7. runner.deadline <= now + spent /\ spent \in Nat
      BY <3>5 DEF spent
    <3>8. runner.deadline + StepOf(runner.record).minutes <= oven'.until + spent
      BY <1>2, <2>1, <3>2, <3>3, <3>4, <3>7
    <3>9. oven'.until <= now + StepOf(runner.record).minutes
      BY <1>2, <2>1, <3>3, <3>4
    <3>. QED  BY <3>6, <3>8, <3>9 DEF spent
  <2>3. Running'
    <3>1. SUFFICES ASSUME disk.state = "running", StepOf(disk).kind = "timed",
                          Uncapped(StepOf(disk))
                   PROVE  /\ ~(StepRuns \/ now < disk.step_ends_at - EndSlack)
                          /\ oven.ran_out = history.transitions =>
                                now >= disk.step_ends_at - EndSlack
      BY <1>1, <1>3 DEF Running, StepOf, Uncapped, StepRuns, Steady
    <3>2. ~StepRuns /\ now >= disk.step_ends_at - EndSlack
      BY <1>2, <2>1, <3>1 DEF TimesInv, OvenInv, Accepting
    <3>3. disk.step_ends_at \in Nat /\ EndSlack \in Nat
      BY <3>1, DiskTimes, Delays
    <3>. QED  BY <1>2, <3>2, <3>3
  <2>4. HoldStopsByItself'
    <3>1. SUFFICES ASSUME Record.state = "running", StepOf(Record).kind = "hold"
                   PROVE  \E m \in history.limits : oven'.until <= HoldEnd(m)
      BY <1>1, <1>3 DEF HoldStopsByItself, Record, HoldEnd, StepOf
    <3>2. PICK m \in history.limits : oven.pressed + oven.duration <= HoldEnd(m)
      BY <1>2, <2>1, <3>1 DEF TimesInv, OvenInv, Accepting
    <3>3. HoldEnd(m) \in Int
      <4>1. history.began \in Nat
        BY <3>1, RunningStep DEF Record
      <4>2. m \in Nat
        BY OptionValues DEF TimesInv, TimesTypeOK, Histories
      <4>. QED  BY <4>1, <4>2, Delays, AttemptsFit DEF HoldEnd
    <3>. QED  BY <1>2, <2>1, <3>2, <3>3
  <2>5. OvenInv'
    BY <1>4, <1>5, <2>2, <2>3, <2>4 DEF OvenInv
  <2>. QED  BY <1>1, <1>3, <2>5, OvenOnlyKeeps
<1>. QED  BY <1>6, <1>7

\* What the entity says is of no consequence outside a running step.
LEMMA SeenOnlyKeeps ==
    ASSUME TimesInv, NEW op \in {IF oven.of = NoProgramme THEN "idle" ELSE "running", "offline"},
           oven' = [oven EXCEPT !.seen = op],
           UNCHANGED <<now, options, runner, disk, history, runs, changes, downs>>
    PROVE  TimesInv'
<1>1. /\ oven' \in Ovens /\ oven'.upper = oven.upper /\ oven'.of = oven.of
      /\ oven'.until = oven.until /\ oven'.pressed = oven.pressed
      /\ oven'.dialled = oven.dialled /\ oven'.duration = oven.duration
      /\ oven'.ran_out = oven.ran_out /\ oven'.seen = op
  BY DEF TimesInv, TimesTypeOK, Ovens
<1>2. Programmes'
  BY <1>1 DEF TimesInv, OvenInv, Programmes, Stranded, Steady
<1>3. Accepting' /\ HoldStopsByItself'
  BY <1>1 DEF TimesInv, OvenInv, Accepting, HoldStopsByItself, StepRuns, Steady, Record, StepOf, HoldEnd,
              RunsThisStep
<1>4. Seeing' /\ Running'
  BY <1>1 DEF TimesInv, OvenInv, Seeing, Running, StepRuns, Steady, StepOf, RunsThisStep, Uncapped
<1>5. OvenInv'
  BY <1>2, <1>3, <1>4 DEF OvenInv
<1>. QED  BY <1>1, <1>5, OvenOnlyKeeps

LEMMA SeenKeeps ==
    ASSUME TimesInv, Seen
    PROVE  TimesInv'
<1>1. PICK op \in {IF oven.of = NoProgramme THEN "idle" ELSE "running", "offline"} \ {oven.seen} :
        LET o == [oven EXCEPT !.seen = op]
        IN  IF ~Steady \/ op # "idle" THEN oven' = o /\ UNCHANGED <<runner, disk, history>>
            ELSE IF NearEnd(runner) THEN StepDone(runner, o)
            ELSE Fails(runner, "appliance_stopped", {o})
  BY DEF Seen
<1>2. UNCHANGED <<now, options, runs, changes, downs>>
  BY DEF Seen
<1>3. CASE ~Steady \/ op # "idle"
  BY <1>1, <1>2, <1>3, SeenOnlyKeeps
<1>4. CASE Steady /\ op = "idle"
  <2> DEFINE o == [oven EXCEPT !.seen = "idle"]
  <2>1. o \in Ovens /\ Freed(o, oven)
    BY DEF TimesInv, TimesTypeOK, Ovens, Freed
  <2>. HIDE DEF o
  <2>2. runner \in Runners /\ runner.up
    BY <1>4 DEF TimesInv, TimesTypeOK, Steady
  <2>3. CASE NearEnd(runner)
    <3>1. Doing(runner)
      BY <1>4, <2>3, NearEndDoes
    <3>2. StepDone(runner, o)
      BY <1>1, <1>4, <2>3 DEF o
    <3>. QED  BY <1>2, <2>1, <3>1, <3>2, StepDoneKeeps
  <2>4. CASE ~NearEnd(runner)
    <3>1. Fails(runner, "appliance_stopped", {o})
      BY <1>1, <1>4, <2>4 DEF o
    <3>. QED  BY <1>2, <2>1, <2>2, <3>1, FailsKeeps
  <2>. QED  BY <2>3, <2>4
<1>. QED  BY <1>3, <1>4

-----------------------------------------------------------------------------
(* Time.                                                                   *)

LEMMA TickKeeps ==
    ASSUME TimesInv, Tick
    PROVE  TimesInv'
<1>1. /\ now \in Nat /\ now' = now + 1 /\ EndSlack \in Nat
      /\ UNCHANGED <<options, runner, disk, oven, history, runs, changes, downs>>
      /\ runner \in Runners /\ oven \in Ovens
  BY Delays DEF Tick, TimesInv, TimesTypeOK
<1>2. \A d \in {runner.due, runner.limit, runner.timer, runner.deadline, oven.pressed} :
         d \in Times /\ (d = None \/ now < d)
  BY <1>1 DEF Tick, Ahead, Runners, Ovens
<1>3. \A d \in {runner.due, runner.limit, runner.timer, runner.deadline, oven.pressed} :
         d = None \/ now + 1 <= d
  BY <1>1, <1>2 DEF Times
<1>4. TimesTypeOK'
  BY <1>1 DEF TimesInv, TimesTypeOK
<1>5. RunInv'
  <2>1. \A record \in {runner.record, disk} :
           record.state = "running" => history.began \in 0 .. now + 1
    BY <1>1, RunningStep
  <2>2. Recorded(runner.record)' /\ Recorded(disk)'
    BY <1>1, <2>1 DEF TimesInv, RunInv, Recorded
  <2>3. disk.state = "running" =>
          disk.step_started_at \in disk.started_at + Before(disk) .. now + 1
    <3>1. SUFFICES ASSUME disk.state = "running"
                   PROVE  disk.step_started_at \in disk.started_at + Before(disk) .. now + 1
      OBVIOUS
    <3>2. disk.started_at \in Nat /\ Before(disk) \in Nat
      BY <3>1, RunningStep
    <3>3. disk.step_started_at \in disk.started_at + Before(disk) .. now
      BY <3>1 DEF TimesInv, RunInv, Saved
    <3>. QED  BY <1>1, <3>2, <3>3
  <2>4. Saved'
    BY <1>1, <2>3 DEF TimesInv, RunInv, Saved, InTransition, StepOf, Before, Needed,
                        Stranded, Steady
  <2>5. Phases'
    <3>1. runner.phase # "steady" => now + 1 <= runner.deadline
      <4>1. runner.phase # "steady" => now <= runner.deadline
        BY DEF TimesInv, RunInv, Phases
      <4>. QED  BY <1>1, <1>3, <4>1 DEF None
    <3>. QED  BY <1>1, <3>1 DEF TimesInv, RunInv, Phases, StepRuns, Steady
  <2>. QED  BY <2>2, <2>4, <2>5 DEF RunInv
<1>6. StepInv'
  <2>1. LimitKept'
    <3>1. SUFFICES ASSUME runner.up, runner.record.state = "running", runner.phase # "recovering"
                   PROVE  \E m \in history.limits :
                             runner.limit = history.began + m /\ now + 1 <= runner.limit
      BY <1>1 DEF LimitKept
    <3>2. PICK m \in history.limits : runner.limit = history.began + m /\ now <= runner.limit
      BY <3>1 DEF TimesInv, StepInv, Timers, LimitKept
    <3>. QED  BY <1>1, <1>3, <3>2 DEF None
  <2>2. Timers'
    <3>1. runner.due # None => now + 1 <= runner.due
      BY <1>3
    <3>2. StepRuns /\ StepOf(disk).kind = "timed" => now + 1 <= runner.timer
      <4>1. StepRuns /\ StepOf(disk).kind = "timed" => now <= runner.timer
        BY DEF TimesInv, StepInv, Timers
      <4>. QED  BY <1>1, <1>3, <4>1 DEF None
    <3>. QED  BY <1>1, <2>1, <3>1, <3>2 DEF TimesInv, StepInv, Timers, StepRuns, Steady, StepOf
  <2>3. Left'
    <3>1. InTransition \/ Stranded => now + 1 >= history.began + Before(runner.record)
      <4>1. InTransition \/ Stranded => runner.record.state = "running"
        BY DEF TimesInv, RunInv, Phases, InTransition, Stranded, Steady
      <4>2. InTransition \/ Stranded => now >= history.began + Before(runner.record)
        BY DEF TimesInv, StepInv, Left
      <4>. QED  BY <1>1, <4>1, <4>2, RunningStep
    <3>2. (InTransition \/ Stranded) /\ disk.state = "running" =>
            /\ disk.step_index < runner.record.step_index
            /\ StepOf(disk).kind # "hold"
            /\ StepOf(disk).kind = "timed" => now + 1 >= disk.step_ends_at - EndSlack
      <4>1. (InTransition \/ Stranded) /\ disk.state = "running" =>
              /\ disk.step_index < runner.record.step_index
              /\ StepOf(disk).kind # "hold"
              /\ StepOf(disk).kind = "timed" => now >= disk.step_ends_at - EndSlack
        BY DEF TimesInv, StepInv, Left
      <4>. QED  BY <1>1, <4>1, DiskTimes
    <3>. QED  BY <1>1, <3>1, <3>2 DEF Left, InTransition, StepOf, Before, Needed, Stranded, Steady
  <2>4. Attempts'
    <3>1. runner.phase = "starting" =>
            runner.deadline <= now + 1 + runner.attempt * StartTimeout
      <4>1. runner.phase = "starting" =>
              runner.deadline <= now + runner.attempt * StartTimeout
        BY DEF TimesInv, StepInv, Attempts
      <4>2. runner.attempt * StartTimeout \in Nat /\ runner.deadline \in Int
        <5>1. runner.attempt \in Nat /\ StartTimeout \in Nat
          BY <1>1, Delays, AttemptsFit DEF Runners
        <5>. QED  BY <1>1, <5>1 DEF Runners, Times, None
      <4>. QED  BY <1>1, <4>1, <4>2
    <3>. QED  BY <1>1, <3>1 DEF TimesInv, StepInv, Attempts, StepOf
  <2>. QED  BY <2>2, <2>3, <2>4 DEF StepInv
<1>7. OvenInv'
  <2>1. Programmes'
    BY <1>1, <1>3 DEF TimesInv, OvenInv, Programmes, Stranded, Steady
  <2>2. Accepting'
    <3>1. disk.state = "running" /\ StepOf(disk).kind = "timed" /\ now >= disk.step_ends_at - EndSlack
            => now + 1 >= disk.step_ends_at - EndSlack
      BY <1>1, DiskTimes
    <3>. QED  BY <1>1, <3>1 DEF TimesInv, OvenInv, Accepting, StepRuns, Steady, Record, StepOf,
                              HoldEnd
  <2>3. Seeing'
    <3>1. SUFFICES ASSUME runner.phase = "starting", StepOf(runner.record).kind = "timed",
                          Uncapped(StepOf(runner.record))
                   PROVE  LET step == StepOf(runner.record)
                              spent == runner.attempt * StartTimeout
                          IN  /\ RunsThisStep =>
                                    /\ oven.until <= now + 1 + step.minutes
                                    /\ runner.deadline + step.minutes <= oven.until + spent
                              /\ oven.ran_out = history.transitions =>
                                    runner.deadline + step.minutes <= now + 1 + spent
      BY <1>1 DEF Seeing, StepOf, Uncapped, RunsThisStep
    <3>2. StepOf(runner.record).minutes \in Nat
      BY <3>1, RunningStep DEF TimesInv, RunInv, Phases
    <3>3. runner.attempt * StartTimeout \in Nat /\ runner.deadline \in Int /\ oven.until \in Int
      <4>1. runner.attempt \in Nat /\ StartTimeout \in Nat
        BY <1>1, Delays, AttemptsFit DEF Runners
      <4>. QED  BY <1>1, <4>1 DEF Runners, Ovens, Times, None
    <3> DEFINE spent == runner.attempt * StartTimeout
               minutes == StepOf(runner.record).minutes
    <3>4. /\ RunsThisStep => /\ oven.until <= now + minutes
                             /\ runner.deadline + minutes <= oven.until + spent
          /\ oven.ran_out = history.transitions => runner.deadline + minutes <= now + spent
      BY <3>1 DEF TimesInv, OvenInv, Seeing
    <3>5. minutes \in Nat /\ spent \in Nat
      BY <3>2, <3>3
    <3>. HIDE DEF spent, minutes
    <3>6. /\ RunsThisStep => /\ oven.until <= now + 1 + minutes
                             /\ runner.deadline + minutes <= oven.until + spent
          /\ oven.ran_out = history.transitions => runner.deadline + minutes <= now + 1 + spent
      BY <1>1, <3>3, <3>4, <3>5
    <3>. QED  BY <3>6 DEF spent, minutes
  <2>4. Running'
    <3>1. disk.state = "running" /\ StepOf(disk).kind = "timed" =>
            /\ now + 1 < disk.step_ends_at - EndSlack => now < disk.step_ends_at - EndSlack
            /\ now >= disk.step_ends_at - EndSlack => now + 1 >= disk.step_ends_at - EndSlack
      BY <1>1, DiskTimes
    <3>. QED  BY <1>1, <3>1 DEF TimesInv, OvenInv, Running, StepRuns, Steady, StepOf, Uncapped,
                              RunsThisStep
  <2>5. HoldStopsByItself'
    BY <1>1 DEF TimesInv, OvenInv, HoldStopsByItself, Record, RunsThisStep
  <2>. QED  BY <2>1, <2>2, <2>3, <2>4, <2>5 DEF OvenInv
<1>. QED  BY <1>4, <1>5, <1>6, <1>7 DEF TimesInv

-----------------------------------------------------------------------------
(* The attempts.                                                           *)

\* One more attempt has one more timeout.
LEMMA OneMore ==
    ASSUME NEW n \in Nat, NEW t \in Nat
    PROVE  n * t \in Nat /\ (n + 1) * t = n * t + t /\ 1 * t = t
OBVIOUS

LEMMA NoMoreThanAll ==
    ASSUME NEW n \in 0 .. StartAttempts
    PROVE  n * StartTimeout <= StartAttempts * StartTimeout
<1>1. n \in Nat /\ StartAttempts \in Nat /\ StartTimeout \in Nat /\ StartAttempts - n \in Nat
  BY Delays, AttemptsFit
<1>2. StartAttempts * StartTimeout = n * StartTimeout + (StartAttempts - n) * StartTimeout
  BY <1>1
<1>3. (StartAttempts - n) * StartTimeout \in Nat /\ n * StartTimeout \in Nat
  BY <1>1
<1>. QED  BY <1>2, <1>3

\* A step that starts is programmed for no longer than it should run: a hold for
\* what is left of the run, or the shortest there is.
LEMMA DurationType ==
    ASSUME TimesInv, runner.phase = "stopping"
    PROVE  LET seconds == ApplianceDuration(runner, CurrentStep(runner))
           IN  /\ seconds \in Nat
               /\ StepOf(runner.record).kind # "hold" =>
                     seconds = Earlier(StepOf(runner.record).minutes, oven.upper)
               /\ StepOf(runner.record).kind = "hold" =>
                     \E m \in history.limits :
                        now + seconds <= history.began + m + ShortestHold
<1> DEFINE step == StepOf(runner.record)
           seconds == ApplianceDuration(runner, CurrentStep(runner))
           left == runner.record.started_at + options.max_total - now
<1>1. /\ runner.record.state = "running" /\ runner.up
      /\ oven.upper \in Nat /\ options.max_total \in Nat /\ ShortestHold \in Nat
  BY OptionTypes, UppersAssumption, Delays DEF TimesInv, TimesTypeOK, RunInv, Phases, Ovens
<1>2. /\ step.minutes \in Nat /\ runner.record.started_at = history.began
      /\ history.began \in Nat /\ now \in Nat
  BY <1>1, RunningStep
<1>3. seconds = Earlier(IF step.kind = "hold" THEN Later(ShortestHold, left) ELSE step.minutes,
                        oven.upper)
  BY DEF ApplianceDuration, CurrentStep, StepOf
<1>4. left \in Int
  BY <1>1, <1>2
<1>. HIDE DEF step, seconds
<1>5. seconds \in Nat
  BY <1>1, <1>2, <1>3, <1>4 DEF Earlier, Later
<1>6. step.kind # "hold" => seconds = Earlier(step.minutes, oven.upper)
  BY <1>3
<1>7. ASSUME step.kind = "hold"
      PROVE  \E m \in history.limits : now + seconds <= history.began + m + ShortestHold
  <2>1. seconds <= Later(ShortestHold, left)
    BY <1>1, <1>3, <1>4, <1>7 DEF Earlier, Later
  <2>2. CASE left >= ShortestHold
    <3>1. options.max_total \in history.limits
      BY <1>2 DEF TimesInv, StepInv, Timers, None
    <3>2. now + seconds <= history.began + options.max_total
      BY <1>1, <1>2, <1>4, <1>5, <2>1, <2>2 DEF Later
    <3>. QED  BY <1>1, <1>2, <1>5, <3>1, <3>2
  <2>3. CASE left < ShortestHold
    <3>1. PICK m \in history.limits : runner.limit = history.began + m /\ now <= runner.limit
      BY <1>1 DEF TimesInv, StepInv, Timers, LimitKept
    <3>2. m \in Nat
      BY OptionValues DEF TimesInv, TimesTypeOK, Histories
    <3>3. seconds <= ShortestHold
      BY <1>1, <1>4, <2>1, <2>3 DEF Later
    <3>. QED  BY <1>1, <1>2, <1>5, <3>1, <3>2, <3>3
  <2>. QED  BY <1>1, <1>4, <2>2, <2>3
<1>. QED  BY <1>5, <1>6, <1>7 DEF step, seconds

\* An attempt leaves the oven as it is, or has it accept a start of this step.
LEMMA PressedFields ==
    ASSUME TimesInv, NEW seconds \in Nat, Pressed(seconds)
    PROVE  /\ oven' \in Ovens /\ oven'.upper = oven.upper /\ oven'.ran_out = oven.ran_out
           /\ oven'.seen = oven.seen
           /\ \/ UNCHANGED oven
              \/ /\ oven'.of = NoProgramme /\ oven'.dialled = history.transitions
                 /\ oven'.pressed = now + OvenDelay /\ oven'.duration = seconds
<1>1. CASE UNCHANGED oven
  BY <1>1 DEF TimesInv, TimesTypeOK
<1>2. CASE ~UNCHANGED oven
  <2>1. /\ oven' = [oven EXCEPT !.pressed = now + OvenDelay,
                               !.dialled = history.transitions, !.duration = seconds]
        /\ oven.of = NoProgramme
    BY <1>2 DEF Pressed
  <2>2. /\ now + OvenDelay \in Times /\ history.transitions \in Nat /\ oven \in Ovens
    BY Delays DEF TimesInv, TimesTypeOK, Histories, Times
  <2>. QED  BY <2>1, <2>2 DEF Ovens
<1>. QED  BY <1>1, <1>2

\* An attempt, the first or a later one, in terms of what it has come to.
Attempting ==
    /\ runner' \in Runners /\ runner'.up /\ runner'.phase = "starting"
    /\ runner'.record = runner.record /\ runner'.due = None /\ runner'.timer = None
    /\ runner'.limit = runner.limit
    /\ runner'.deadline = now + StartTimeout
    /\ Pressed(runner'.seconds) /\ oven.seen # "running"
    /\ UNCHANGED <<now, options, disk, history, runs, changes, downs>>

LEMMA AttemptingKeeps ==
    ASSUME TimesInv, InTransition, Attempting, Attempts', Seeing',
           \/ UNCHANGED oven /\ oven.dialled # history.transitions
           \/ UNCHANGED oven /\ runner.phase = "starting" /\ runner'.seconds = runner.seconds
           \/ oven' # oven,
           StepOf(runner.record).kind = "hold" =>
              \E m \in history.limits : now + OvenDelay + runner'.seconds <= HoldEnd(m)
    PROVE  TimesInv'
<1>1. /\ runner.record.state = "running" /\ runner.up /\ now \in Nat
      /\ StartTimeout \in Nat /\ OvenDelay \in Nat /\ runner'.seconds \in Nat
      /\ history.transitions \in Nat
  BY Delays DEF TimesInv, TimesTypeOK, RunInv, Phases, InTransition, Attempting, Runners, Histories
<1>2. /\ oven' \in Ovens /\ oven'.upper = oven.upper /\ oven'.ran_out = oven.ran_out
      /\ oven'.seen = oven.seen /\ oven.seen # "running"
      /\ \/ UNCHANGED oven
         \/ /\ oven'.of = NoProgramme /\ oven'.dialled = history.transitions
            /\ oven'.pressed = now + OvenDelay /\ oven'.duration = runner'.seconds
  BY <1>1, PressedFields DEF Attempting
<1>3. TimesTypeOK'
  BY <1>2 DEF Attempting, TimesInv, TimesTypeOK
<1>4. RunInv'
  BY <1>1 DEF Attempting, TimesInv, RunInv, Recorded, Saved, Phases, InTransition, StepOf, Before,
              Needed, Stranded, Steady
<1>5. StepInv'
  <2>1. LimitKept'
    BY <1>1 DEF Attempting, InTransition, TimesInv, StepInv, Timers, LimitKept
  <2>2. Timers'
    BY <2>1 DEF Attempting, TimesInv, StepInv, Timers, StepRuns, Steady
  <2>3. Left'
    BY DEF Attempting, TimesInv, StepInv, Left, InTransition, StepOf, Before, Needed, Stranded,
              Steady
  <2>. QED  BY <2>2, <2>3 DEF StepInv
<1>6. Programmes'
  BY <1>1, <1>2 DEF Attempting, TimesInv, OvenInv, Programmes, NoProgramme, Stranded, Steady
<1>7. Accepting'
  <2>1. disk.state = "running" /\ StepOf(disk).kind = "timed" =>
          now >= disk.step_ends_at - EndSlack
    BY DEF TimesInv, StepInv, Left
  <2>2. ~StepRuns' /\ Record' = runner.record /\ Record = runner.record
    BY <1>1 DEF Attempting, StepRuns, Steady, Record
  <2>3. CASE UNCHANGED oven
    BY <2>1, <2>2, <2>3 DEF Attempting, Accepting, TimesInv, OvenInv, StepOf, HoldEnd
  <2>4. CASE oven' # oven
    BY <1>2, <2>1, <2>2, <2>4 DEF Attempting, Accepting, StepOf, HoldEnd
  <2>. QED  BY <2>3, <2>4
<1>8. Running' /\ HoldStopsByItself'
  <2>1. Record' = runner.record /\ Record = runner.record
    BY <1>1 DEF Attempting, Record
  <2>2. RunsThisStep' => RunsThisStep /\ UNCHANGED oven
    BY <1>2 DEF Attempting, RunsThisStep
  <2>3. HoldStopsByItself'
    BY <2>1, <2>2 DEF Attempting, TimesInv, OvenInv, HoldStopsByItself
  <2>4. ~StepRuns'
    BY DEF Attempting, StepRuns, Steady
  <2>5. Running'
    BY <1>2, <2>2, <2>4 DEF Attempting, TimesInv, OvenInv, Running, StepOf, Uncapped
  <2>. QED  BY <2>3, <2>5
<1>. QED  BY <1>3, <1>4, <1>5, <1>6, <1>7, <1>8 DEF TimesInv, OvenInv

LEMMA FirstAttemptKeeps ==
    ASSUME TimesInv, FirstAttempt
    PROVE  TimesInv'
<1> DEFINE seconds == ApplianceDuration(runner, CurrentStep(runner))
           step == StepOf(runner.record)
<1>1. /\ runner.phase = "stopping" /\ runner \in Runners /\ runner.up /\ now \in Nat
      /\ runner.record.state = "running" /\ runner.due = None /\ runner.timer = None
      /\ oven.seen # "running" /\ StartTimeout \in Nat /\ OvenDelay \in Nat
      /\ ShortestHold \in Nat /\ history.transitions \in Nat
  BY Delays DEF FirstAttempt, TimesInv, TimesTypeOK, RunInv, Phases, Histories
<1>2. /\ seconds \in Nat
      /\ step.kind # "hold" => seconds = Earlier(step.minutes, oven.upper)
      /\ step.kind = "hold" =>
            \E m \in history.limits : now + seconds <= history.began + m + ShortestHold
  BY <1>1, DurationType
<1>3. /\ Pressed(seconds) /\ UNCHANGED <<now, options, disk, history, runs, changes, downs>>
      /\ runner' = [runner EXCEPT !.phase = "starting", !.attempt = 1, !.seconds = seconds,
                                   !.deadline = now + StartTimeout]
  BY DEF FirstAttempt
<1>. HIDE DEF seconds
<1>4. /\ runner' \in Runners /\ runner'.up /\ runner'.phase = "starting"
      /\ runner'.record = runner.record /\ runner'.due = None /\ runner'.timer = None
      /\ runner'.limit = runner.limit /\ runner'.attempt = 1
      /\ runner'.deadline = now + StartTimeout /\ runner'.seconds = seconds
  <2>1. now + StartTimeout \in Times /\ 1 \in 0 .. StartAttempts
    BY <1>1, AttemptsFit DEF Times
  <2>. QED  BY <1>1, <1>2, <1>3, <2>1 DEF Runners
<1>5. Attempting
  BY <1>1, <1>3, <1>4 DEF Attempting
<1>6. 1 * StartTimeout = StartTimeout
  BY <1>1, OneMore
<1>7. history.began \in Nat /\ \A m \in history.limits : m \in Nat
  BY <1>1, RunningStep, OptionValues DEF TimesInv, TimesTypeOK, Histories
<1>8. Attempts'
  <2>1. step.kind = "hold" =>
          \E m \in history.limits :
             now + StartTimeout + seconds <= history.began + m + ShortestHold + StartTimeout
    BY <1>1, <1>2, <1>7
  <2>2. now + StartTimeout <= now + StartTimeout
    BY <1>1
  <2>3. oven'.upper = oven.upper
    BY <1>2, <1>3, PressedFields
  <2>. QED  BY <1>2, <1>3, <1>4, <1>6, <2>1, <2>2, <2>3 DEF Attempts, StepOf
<1>9. oven.of # history.transitions /\ oven.dialled # history.transitions
        /\ oven.ran_out # history.transitions
  BY <1>1 DEF TimesInv, TimesTypeOK, OvenInv, Programmes, Ovens
<1>10. Seeing'
  <2>1. ~RunsThisStep' /\ oven'.ran_out # history.transitions
    <3>1. history.transitions # 0
      BY <1>1, RunningStep
    <3>. QED  BY <1>2, <1>3, <1>9, <3>1, PressedFields DEF RunsThisStep, NoProgramme
  <2>. QED  BY <1>3, <2>1 DEF Seeing
<1>11. step.kind = "hold" =>
         \E m \in history.limits : now + OvenDelay + seconds <= HoldEnd(m)
  BY <1>1, <1>2, <1>7, AttemptsFit DEF HoldEnd
<1>. QED  BY <1>1, <1>4, <1>5, <1>8, <1>9, <1>10, <1>11, AttemptingKeeps DEF InTransition

LEMMA NextAttemptKeeps ==
    ASSUME TimesInv, NextAttempt
    PROVE  TimesInv'
<1> DEFINE seconds == runner.seconds
           step == StepOf(runner.record)
           spent == runner.attempt * StartTimeout
<1>1. /\ runner.phase = "starting" /\ runner \in Runners /\ runner.up /\ now \in Nat
      /\ runner.record.state = "running" /\ runner.due = None /\ runner.timer = None
      /\ oven.seen # "running" /\ StartTimeout \in Nat /\ OvenDelay \in Nat
      /\ ShortestHold \in Nat /\ seconds \in Nat /\ now <= runner.deadline
      /\ runner.deadline \in Nat
  BY Delays DEF NextAttempt, TimesInv, TimesTypeOK, RunInv, Phases, Runners, Times, None
<1>2. /\ runner.attempt \in Nat /\ runner.attempt > 0
      /\ runner.attempt \in 0 .. StartAttempts /\ runner.attempt + 1 \in 0 .. StartAttempts
  BY <1>1, AttemptsFit DEF NextAttempt, TimesInv, StepInv, Attempts, Runners
<1>3. /\ Pressed(seconds) /\ UNCHANGED <<now, options, disk, history, runs, changes, downs>>
      /\ runner' = [runner EXCEPT !.attempt = @ + 1, !.deadline = now + StartTimeout]
  BY DEF NextAttempt
<1>4. /\ runner' \in Runners /\ runner'.up /\ runner'.phase = "starting"
      /\ runner'.record = runner.record /\ runner'.due = None /\ runner'.timer = None
      /\ runner'.limit = runner.limit /\ runner'.attempt = runner.attempt + 1
      /\ runner'.deadline = now + StartTimeout /\ runner'.seconds = seconds
  <2>1. now + StartTimeout \in Times
    BY <1>1 DEF Times
  <2>. QED  BY <1>1, <1>2, <1>3, <2>1 DEF Runners
<1>5. Attempting
  BY <1>1, <1>3, <1>4 DEF Attempting
<1>6. /\ spent \in Nat /\ (runner.attempt + 1) * StartTimeout = spent + StartTimeout
      /\ spent <= StartAttempts * StartTimeout
  BY <1>1, <1>2, OneMore, NoMoreThanAll
<1>7. history.began \in Nat /\ \A m \in history.limits : m \in Nat
  BY <1>1, RunningStep, OptionValues DEF TimesInv, TimesTypeOK, Histories
<1>8. step.kind = "hold" =>
        \E m \in history.limits :
           runner.deadline + seconds <= history.began + m + ShortestHold + spent
  BY <1>1 DEF TimesInv, StepInv, Attempts
<1>9. /\ oven'.upper = oven.upper /\ oven'.ran_out = oven.ran_out
      /\ UNCHANGED oven \/ oven'.of = NoProgramme
  BY <1>1, <1>3, PressedFields
<1>10. step.kind = "timed" /\ Uncapped(step) =>
         /\ RunsThisStep => /\ oven.until <= now + step.minutes
                            /\ runner.deadline + step.minutes <= oven.until + spent
         /\ oven.ran_out = history.transitions => runner.deadline + step.minutes <= now + spent
  BY <1>1 DEF TimesInv, OvenInv, Seeing
<1>11. step.minutes \in Nat /\ oven.until \in Int
  BY <1>1, RunningStep DEF TimesInv, TimesTypeOK, Ovens, Times, None
<1>12. step.kind # "hold" => seconds = Earlier(step.minutes, oven.upper)
  BY <1>1 DEF TimesInv, StepInv, Attempts
<1>. HIDE DEF spent, step, seconds
<1>13. Attempts'
  <2>1. step.kind = "hold" =>
          \E m \in history.limits :
             now + StartTimeout + seconds
                <= history.began + m + ShortestHold + (spent + StartTimeout)
    BY <1>1, <1>6, <1>7, <1>8
  <2>2. now + StartTimeout <= now + (spent + StartTimeout)
    BY <1>1, <1>6
  <2>3. runner'.attempt * StartTimeout = spent + StartTimeout /\ runner'.attempt > 0
    BY <1>2, <1>4, <1>6
  <2>. QED  BY <1>3, <1>4, <1>9, <1>12, <2>1, <2>2, <2>3 DEF Attempts, StepOf, step
<1>14. Seeing'
  <2>1. step.kind = "timed" /\ Uncapped(step) =>
          /\ RunsThisStep => /\ oven.until <= now + step.minutes
                             /\ now + StartTimeout + step.minutes
                                   <= oven.until + (spent + StartTimeout)
          /\ oven.ran_out = history.transitions =>
                now + StartTimeout + step.minutes <= now + (spent + StartTimeout)
    BY <1>1, <1>6, <1>10, <1>11
  <2>2. runner'.attempt * StartTimeout = spent + StartTimeout
    BY <1>4, <1>6
  <2>3. RunsThisStep' => RunsThisStep /\ oven'.until = oven.until
    BY <1>3, <1>9 DEF RunsThisStep
  <2>. QED  BY <1>3, <1>4, <1>9, <2>1, <2>2, <2>3 DEF Seeing, StepOf, step, Uncapped
<1>15. step.kind = "hold" =>
         \E m \in history.limits : now + OvenDelay + seconds <= HoldEnd(m)
  BY <1>1, <1>6, <1>7, <1>8, AttemptsFit DEF HoldEnd
<1>16. oven' # oven \/ UNCHANGED oven
  OBVIOUS
<1>17. InTransition
  BY <1>1 DEF InTransition
<1>18. runner'.seconds = runner.seconds
  BY <1>4 DEF seconds
<1>. QED  BY <1>1, <1>4, <1>5, <1>13, <1>14, <1>15, <1>16, <1>17, <1>18, AttemptingKeeps DEF step

\* The step has started: its end is written, and is the oven's own but for the slack.
LEMMA StepStartsKeeps ==
    ASSUME TimesInv, StepStarts
    PROVE  TimesInv'
<1> DEFINE step == StepOf(runner.record)
           ends == IF step.kind = "hold" THEN None ELSE now + step.minutes
<1>1. /\ runner.phase = "starting" /\ runner \in Runners /\ runner.up /\ now \in Nat
      /\ runner.record.state = "running" /\ runner.due = None /\ runner.timer = None
      /\ oven.seen = "running" /\ oven.pressed = None
      /\ now <= runner.deadline /\ runner.deadline \in Nat /\ EndSlack \in Nat
  BY Delays DEF StepStarts, TimesInv, TimesTypeOK, RunInv, Phases, Runners, Times, None,
                OvenInv, Programmes
<1>2. /\ step.minutes \in Nat /\ step \in Steps /\ history.began \in Nat
      /\ runner.record.started_at = history.began /\ history.transitions \in Nat \ {0}
      /\ runner.record.preset \in Presets
      /\ runner.record.step_index \in 1 .. Len(runner.record.preset)
      /\ Before(runner.record) \in Nat
  BY <1>1, RunningStep
<1>3. ends \in Times /\ now \in Times
  BY <1>1, <1>2 DEF Times
<1> DEFINE started == [runner EXCEPT !.seconds = 0, !.attempt = 0,
                                     !.record.step_started_at = now, !.record.step_ends_at = ends]
<1>4. runner' = ArmStep(started)
  BY DEF StepStarts, CurrentStep, StepOf
<1>. HIDE DEF ends
<1>5. /\ started \in Runners /\ started.up /\ started.phase = "starting"
      /\ started.due = None /\ started.limit = runner.limit
      /\ started.record.state = "running" /\ started.record.preset = runner.record.preset
      /\ started.record.step_index = runner.record.step_index
      /\ started.record.last_error = runner.record.last_error
      /\ started.record.started_at = history.began
      /\ started.record.step_started_at = now /\ started.record.step_ends_at = ends
  <2>1. [runner.record EXCEPT !.step_started_at = now, !.step_ends_at = ends] \in Records
    BY <1>1, <1>3 DEF Runners, Records
  <2>. QED  BY <1>1, <1>2, <1>3, <2>1, NoAttempt DEF Runners, Records
<1>. HIDE DEF started
<1>6. /\ runner' \in Runners /\ runner'.up /\ runner'.phase = "steady"
      /\ runner'.due = None /\ runner'.limit = runner.limit /\ runner'.timer = ends
      /\ runner'.record = started.record
  BY <1>3, <1>4, <1>5, NoAttempt DEF ArmStep, Runners
<1>7. /\ disk' = started.record /\ UNCHANGED <<now, options, oven, runs, changes, downs>>
      /\ history' = [history EXCEPT !.lost = @ \ {runner.record.step_index}]
  BY <1>6 DEF StepStarts, Save
<1>8. /\ history' \in Histories /\ history'.began = history.began
      /\ history'.limits = history.limits /\ history'.planned = history.planned
      /\ history'.transitions = history.transitions
      /\ history'.lost = history.lost \ {runner.record.step_index}
  BY <1>7 DEF TimesInv, TimesTypeOK, Histories
<1>9. StepOf(disk)' = step /\ RunsThisStep' = RunsThisStep
  BY <1>5, <1>7, <1>8 DEF StepOf, RunsThisStep
<1>10. TimesTypeOK'
  <2>1. disk' \in Records
    BY <1>5, <1>7 DEF Runners
  <2>. QED  BY <1>6, <1>7, <1>8, <2>1 DEF TimesInv, TimesTypeOK
<1>11. StepRuns' /\ ~Stranded' /\ disk'.step_index \notin history'.lost
  BY <1>5, <1>6, <1>7, <1>8 DEF StepRuns, Stranded, Steady
\* That the step is no longer lost changes nothing for those before it.
<1>12. Before(disk)' <= Before(runner.record) /\ Before(disk)' \in Nat
  <2> DEFINE k == runner.record.step_index
             p == runner.record.preset
  <2>1. k - 1 \in 0 .. Len(p) /\ history.lost \cap (1 .. k - 1) \subseteq history'.lost
    BY <1>2, <1>8, PresetLen
  <2>2. /\ Sums(LeastTimes(p, history'.lost))[k - 1] <= Sums(LeastTimes(p, history.lost))[k - 1]
        /\ Sums(LeastTimes(p, history'.lost))[k - 1] \in Nat
    BY <1>2, <2>1, LeastTimesLess, LeastTimesAdd
  <2>3. Before(disk)' = Sums(LeastTimes(p, history'.lost))[k - 1]
    BY <1>5, <1>7, Zenon DEF Before, Needed
  <2>. QED  BY <2>2, <2>3 DEF Before, Needed
<1>13. RunInv'
  <2>1. Recorded(runner.record)' /\ Recorded(disk)'
    BY <1>1, <1>2, <1>5, <1>6, <1>7, <1>8 DEF Recorded, TimesInv, RunInv, Active
  <2>2. Saved'
    <3>1. now >= history.began + Before(runner.record)
      BY <1>1 DEF TimesInv, StepInv, Left, InTransition
    <3>2. now \in history.began + Before(disk)' .. now
      BY <1>1, <1>2, <1>12, <3>1
    <3>3. disk'.step_started_at \in disk'.started_at + Before(disk)' .. now'
      BY <1>5, <1>7, <3>2
    <3>4. disk'.step_ends_at = IF StepOf(disk)'.kind = "hold" THEN None
                               ELSE disk'.step_started_at + StepOf(disk)'.minutes
      BY <1>5, <1>7, <1>9 DEF ends
    <3>. QED  BY <1>6, <1>7, <1>11, <3>3, <3>4 DEF Saved
  <2>3. Phases'
    BY <1>6, <1>11 DEF Phases
  <2>. QED  BY <2>1, <2>2, <2>3 DEF RunInv
<1>14. StepInv'
  <2>1. LimitKept'
    BY <1>1, <1>6, <1>7, <1>8 DEF TimesInv, StepInv, Timers, LimitKept
  <2>2. runner'.timer = disk'.step_ends_at
    BY <1>5, <1>6, <1>7
  <2>3. step.kind = "timed" => now <= runner'.timer
    BY <1>1, <1>2, <1>6 DEF ends
  <2>4. Timers'
    BY <1>6, <1>7, <1>8, <1>9, <2>1, <2>2, <2>3 DEF TimesInv, StepInv, Timers
  <2>. QED  BY <1>6, <1>11, <2>4 DEF StepInv, Left, Attempts, InTransition
<1>15. Programmes' /\ Accepting' /\ Seeing'
  BY <1>1, <1>6, <1>7, <1>8, <1>11
  DEF TimesInv, OvenInv, Programmes, Accepting, Seeing
<1>16. HoldStopsByItself'
  <2>1. Record = runner.record /\ Record' = disk'
    BY <1>1, <1>6, <1>7 DEF Record
  <2>2. disk'.preset[disk'.step_index] = runner.record.preset[runner.record.step_index]
    BY <1>5, <1>7
  <2>. QED  BY <1>1, <1>7, <1>8, <1>9, <2>1, <2>2 DEF TimesInv, OvenInv, HoldStopsByItself
<1>17. Running'
  <2>1. SUFFICES ASSUME step.kind = "timed", Uncapped(step)
                 PROVE  /\ RunsThisStep =>
                              disk'.step_ends_at - EndSlack <= oven.until
                                 /\ oven.until <= disk'.step_ends_at
                        /\ oven.ran_out = history.transitions =>
                              now >= disk'.step_ends_at - EndSlack
    BY <1>7, <1>8, <1>9 DEF Running, Uncapped
  <2> DEFINE spent == runner.attempt * StartTimeout
  <2>2. /\ RunsThisStep => /\ oven.until <= now + step.minutes
                           /\ runner.deadline + step.minutes <= oven.until + spent
        /\ oven.ran_out = history.transitions => runner.deadline + step.minutes <= now + spent
    BY <1>1, <2>1 DEF TimesInv, OvenInv, Seeing
  <2>3. spent \in Nat /\ spent <= EndSlack
    <3>1. runner.attempt \in 0 .. StartAttempts /\ runner.attempt \in Nat /\ StartTimeout \in Nat
      BY <1>1, AttemptsFit, Delays DEF Runners
    <3>2. spent \in Nat /\ spent <= StartAttempts * StartTimeout
      BY <3>1, NoMoreThanAll, OneMore
    <3>. QED  BY <1>1, <3>2, AttemptsFit
  <2>4. disk'.step_ends_at = now + step.minutes
    BY <1>5, <1>7, <2>1 DEF ends
  <2>5. oven.until \in Int
    BY DEF TimesInv, TimesTypeOK, Ovens, Times, None
  <2>. HIDE DEF spent, step
  <2>6. /\ now \in Nat /\ step.minutes \in Nat /\ EndSlack \in Nat /\ runner.deadline \in Nat
        /\ now + step.minutes <= runner.deadline + step.minutes
    BY <1>1, <1>2
  <2>7. RunsThisStep => /\ disk'.step_ends_at - EndSlack <= oven.until
                        /\ oven.until <= disk'.step_ends_at
    BY <2>2, <2>3, <2>4, <2>5, <2>6
  <2>8. oven.ran_out = history.transitions => now >= disk'.step_ends_at - EndSlack
    BY <2>2, <2>3, <2>4, <2>6
  <2>. QED  BY <2>7, <2>8
<1>. QED  BY <1>10, <1>13, <1>14, <1>15, <1>16, <1>17 DEF TimesInv, OvenInv

-----------------------------------------------------------------------------
(* Home Assistant goes down and comes back: what is on disk is enough.     *)

\* The step on disk, once memory is gone.
LEMMA DownKeeps ==
    ASSUME TimesInv, Down
    PROVE  TimesInv'
<1>1. /\ runner' = NewRunner /\ oven' = [oven EXCEPT !.seen = "offline"]
      /\ downs' = downs + 1 /\ UNCHANGED <<now, options, disk, history, runs, changes>>
      /\ runner.up /\ oven \in Ovens
  BY DEF Down, TimesInv, TimesTypeOK
<1>2. /\ ~NewRunner.up /\ NewRunner.phase = "steady" /\ NewRunner.due = None
      /\ NewRunner.limit = None /\ NewRunner.timer = None /\ NewRunner.record.state = "idle"
      /\ NewRunner.record.preset = <<>>
  BY DEF NewRunner, NoRecord
<1>3. /\ oven' \in Ovens /\ oven'.seen = "offline" /\ oven'.of = oven.of
      /\ oven'.until = oven.until /\ oven'.pressed = oven.pressed
      /\ oven'.dialled = oven.dialled /\ oven'.duration = oven.duration
      /\ oven'.upper = oven.upper /\ oven'.ran_out = oven.ran_out
  BY <1>1 DEF Ovens
<1>4. TimesTypeOK'
  BY <1>1, <1>3, NewRunnerType DEF TimesInv, TimesTypeOK
<1>5. RunInv'
  BY <1>1, <1>2 DEF TimesInv, RunInv, Recorded, Saved, Phases, Active, StepOf, Before, Needed,
                    Stranded, Steady
<1>6. StepInv'
  BY <1>1, <1>2 DEF TimesInv, StepInv, Timers, LimitKept, Left, Attempts, InTransition, Steady,
                    StepRuns, Stranded
<1>7. disk.state = "running" /\ StepOf(disk).kind = "hold" => Record = disk
  BY <1>1 DEF TimesInv, RunInv, Saved, StepInv, Left, Record
<1>8. /\ ~StepRuns' /\ ~Stranded'
      /\ Record' = disk /\ (RunsThisStep' <=> RunsThisStep)
  BY <1>1, <1>2, <1>3 DEF StepRuns, Stranded, Steady, Record, RunsThisStep
<1>9. Programmes' /\ Seeing'
  BY <1>1, <1>2, <1>3, <1>8 DEF TimesInv, OvenInv, Programmes, Seeing
<1>10. Accepting'
  BY <1>1, <1>2, <1>3, <1>7, <1>8 DEF TimesInv, OvenInv, Accepting, StepOf, HoldEnd
<1>11. Running'
  BY <1>1, <1>3, <1>8 DEF TimesInv, OvenInv, Running, StepOf, Uncapped
<1>12. HoldStopsByItself'
  BY <1>1, <1>3, <1>7, <1>8 DEF TimesInv, OvenInv, HoldStopsByItself, StepOf
<1>. QED  BY <1>4, <1>5, <1>6, <1>9, <1>10, <1>11, <1>12 DEF TimesInv, OvenInv

\* What a start finds on disk is taken up as it is.
Loading ==
    /\ runner' \in Runners /\ runner'.up /\ runner'.record = disk
    /\ runner'.limit = None /\ runner'.timer = None
    /\ \/ runner'.phase = "steady" /\ disk.state # "running"
       \/ /\ runner'.phase = "recovering" /\ disk.state = "running"
          /\ runner'.due = None /\ runner'.deadline = now + RecoveryTimeout
    /\ runner'.due # None =>
          /\ disk.state = "scheduled"
          /\ now <= runner'.due
          /\ disk.start_at - Immediate <= runner'.due
          /\ runner'.due <= disk.start_at + MissedGrace
    /\ UNCHANGED <<now, options, oven, disk, history, runs, changes, downs>>

LEMMA LoadingKeeps ==
    ASSUME TimesInv, ~runner.up, Loading
    PROVE  TimesInv'
<1>1. TimesTypeOK'
  BY DEF Loading, TimesInv, TimesTypeOK
<1>2. /\ ~StepRuns' /\ ~StepRuns /\ ~Stranded' /\ ~Stranded
      /\ Record' = disk /\ Record = disk /\ ~InTransition'
  BY DEF Loading, StepRuns, Stranded, Steady, Record, InTransition
<1>3. RunInv'
  <2>1. Recorded(runner.record)' /\ Recorded(disk)'
    BY DEF Loading, TimesInv, RunInv, Recorded
  <2>2. Saved'
    BY <1>2 DEF Loading, TimesInv, RunInv, Saved, StepOf, Before, Needed
  <2>3. Phases'
    BY Delays DEF Loading, Phases, TimesInv, TimesTypeOK
  <2>. QED  BY <2>1, <2>2, <2>3 DEF RunInv
<1>4. StepInv'
  BY <1>2 DEF Loading, TimesInv, StepInv, Timers, LimitKept, Left, Attempts
<1>5. OvenInv'
  BY <1>2 DEF Loading, TimesInv, OvenInv, Programmes, Accepting, Seeing, Running,
              HoldStopsByItself, StepOf, RunsThisStep, Uncapped, HoldEnd
<1>. QED  BY <1>1, <1>3, <1>4, <1>5 DEF TimesInv

LEMMA UpKeeps ==
    ASSUME TimesInv, Up
    PROVE  TimesInv'
<1>1. /\ ~runner.up /\ runner = NewRunner /\ disk \in Records /\ now \in Nat /\ oven \in Ovens
      /\ UNCHANGED <<now, options, runs, changes, downs>>
  BY DEF Up, TimesInv, TimesTypeOK, RunInv, Phases
<1>2. /\ Loaded \in Runners /\ Loaded.up /\ Loaded.record = disk /\ Loaded.phase = "steady"
      /\ Loaded.due = None /\ Loaded.limit = None /\ Loaded.timer = None
  BY <1>1, NewRunnerType DEF Loaded, NewRunner, Runners
<1>. HIDE DEF Loaded
<1>3. CASE disk.state = "scheduled" /\ now > disk.start_at + MissedGrace
  <2>1. Fails(Loaded, "missed_start", {oven})
    BY <1>3 DEF Up, RecoverScheduled
  <2>. QED  BY <1>1, <1>2, <2>1, FreedSame, FailsKeeps
<1>4. CASE disk.state = "scheduled" /\ ~(now > disk.start_at + MissedGrace)
  <2> DEFINE due == Later(disk.start_at, now)
  <2>1. /\ due \in Nat /\ now <= due
        /\ disk.start_at - Immediate <= due /\ due <= disk.start_at + MissedGrace
    <3>1. disk.start_at \in Int
      BY <1>1 DEF Records
    <3>. QED  BY <1>1, <1>4, <3>1, Delays DEF Later
  <2>2. /\ runner' = [Loaded EXCEPT !.due = due] /\ UNCHANGED <<oven, disk, history>>
    BY <1>4 DEF Up, RecoverScheduled
  <2>. HIDE DEF due
  <2>3. /\ runner' \in Runners /\ runner'.up /\ runner'.record = disk /\ runner'.phase = "steady"
        /\ runner'.due = due /\ runner'.limit = None /\ runner'.timer = None
    BY <1>2, <2>1, <2>2 DEF Runners, Times
  <2>4. Loading
    BY <1>1, <1>4, <2>1, <2>2, <2>3 DEF Loading
  <2>. QED  BY <1>1, <2>4, LoadingKeeps
<1>5. CASE disk.state = "running"
  <2>1. /\ runner' = [Loaded EXCEPT !.phase = "recovering", !.deadline = now + RecoveryTimeout]
        /\ UNCHANGED <<oven, disk, history>>
    BY <1>5 DEF Up
  <2>2. now + RecoveryTimeout \in Times
    BY <1>1, Delays DEF Times
  <2>3. /\ runner' \in Runners /\ runner'.up /\ runner'.record = disk
        /\ runner'.phase = "recovering" /\ runner'.deadline = now + RecoveryTimeout
        /\ runner'.due = None /\ runner'.limit = None /\ runner'.timer = None
    BY <1>2, <2>1, <2>2 DEF Runners
  <2>4. Loading
    BY <1>1, <1>5, <2>1, <2>3 DEF Loading
  <2>. QED  BY <1>1, <2>4, LoadingKeeps
<1>6. CASE disk.state \notin {"scheduled", "running"}
  <2>1. runner' = Loaded /\ UNCHANGED <<oven, disk, history>>
    BY <1>6 DEF Up
  <2>2. Loading
    BY <1>1, <1>2, <1>6, <2>1 DEF Loading
  <2>. QED  BY <1>1, <2>2, LoadingKeeps
<1>. QED  BY <1>3, <1>4, <1>5, <1>6

\* What a run that is found on disk goes on from: the limit and the step's end it had.
Recovered ==
    [runner EXCEPT !.phase = "steady", !.deadline = None,
                   !.limit = runner.record.started_at + options.max_total]

LEMMA RecoveredFields ==
    ASSUME TimesInv, RecoverRunning
    PROVE  /\ runner.phase = "recovering" /\ runner \in Runners /\ runner.up
           /\ runner.record = disk /\ disk.state = "running" /\ disk \in Records
           /\ runner.due = None /\ runner.timer = None /\ now \in Nat /\ oven \in Ovens
           /\ Recovered \in Runners /\ Recovered.up /\ Recovered.phase = "steady"
           /\ Recovered.record = disk /\ Recovered.due = None /\ Recovered.timer = None
           /\ Recovered.limit = history.began + options.max_total /\ Recovered.limit \in Nat
           /\ options.max_total \in history.limits
           /\ now < Recovered.limit /\ NearEnd(Recovered) => Doing(Recovered)
           /\ IF now >= Recovered.limit THEN Fails(runner, "max_duration", SwitchedOff(oven))
              ELSE IF NearEnd(Recovered) THEN StepDone(Recovered, oven)
              ELSE IF oven.seen # "running" THEN Fails(Recovered, "interrupted", {oven})
              ELSE runner' = ArmStep(Recovered) /\ UNCHANGED <<oven, disk, history>>
<1> DEFINE limit == runner.record.started_at + options.max_total
<1>1. /\ runner.phase = "recovering" /\ runner \in Runners /\ runner.up /\ runner.record = disk
      /\ disk.state = "running" /\ runner.due = None /\ runner.timer = None
      /\ now \in Nat /\ oven \in Ovens /\ disk \in Records
  BY DEF RecoverRunning, TimesInv, TimesTypeOK, RunInv, Phases, Saved, InTransition, Stranded,
         Steady
<1>2. /\ limit = history.began + options.max_total /\ limit \in Nat
      /\ options.max_total \in history.limits
  <2>1. runner.record.started_at = history.began /\ history.began \in Nat
    BY <1>1, RunningStep
  <2>2. options.max_total \in history.limits
    BY <2>1 DEF TimesInv, StepInv, Timers, None
  <2>. QED  BY <2>1, <2>2, OptionTypes DEF TimesInv
\* A run that is taken up has lost nothing of the step it is taken up at.
<1>3. /\ Recovered \in Runners /\ Recovered.up /\ Recovered.phase = "steady"
      /\ Recovered.record = disk /\ Recovered.limit = limit
      /\ Recovered.due = None /\ Recovered.timer = None
  BY <1>1, <1>2, NoAttempt DEF Recovered, Runners, Times
<1>4. IF now >= limit THEN Fails(runner, "max_duration", SwitchedOff(oven))
      ELSE IF NearEnd(Recovered) THEN StepDone(Recovered, oven)
      ELSE IF oven.seen # "running" THEN Fails(Recovered, "interrupted", {oven})
      ELSE runner' = ArmStep(Recovered) /\ UNCHANGED <<oven, disk, history>>
  BY DEF RecoverRunning, Recovered
<1>. HIDE DEF limit
<1>5. ASSUME now < limit, NearEnd(Recovered) PROVE Doing(Recovered)
  <2>1. StepOf(disk).kind = "timed" /\ now >= disk.step_ends_at - EndSlack
    BY <1>3, <1>5 DEF NearEnd, CurrentStep, StepOf
  <2>2. now >= history.began + Needed(disk)[disk.step_index]
    BY <1>1, <2>1, StepTime
  <2>3. Recorded(disk) /\ disk.step_index \in Nat
    BY <1>1 DEF TimesInv, RunInv, Records
  <2>4. \E m \in history.limits : Recovered.limit = history.began + m /\ now <= Recovered.limit
    BY <1>1, <1>2, <1>3, <1>5
  <2>. QED  BY <1>1, <1>3, <2>1, <2>2, <2>3, <2>4 DEF Doing
<1>. QED  BY <1>1, <1>2, <1>3, <1>4, <1>5

LEMMA RecoverRunningKeeps ==
    ASSUME TimesInv, RecoverRunning
    PROVE  TimesInv'
<1> DEFINE r == Recovered
           limit == Recovered.limit
<1>1. /\ runner.phase = "recovering" /\ runner \in Runners /\ runner.up /\ runner.record = disk
      /\ disk.state = "running" /\ runner.due = None /\ runner.timer = None
      /\ now \in Nat /\ oven \in Ovens /\ disk \in Records
      /\ UNCHANGED <<now, options, runs, changes, downs>>
  BY RecoveredFields DEF RecoverRunning
<1>2. /\ limit = history.began + options.max_total /\ limit \in Nat
      /\ options.max_total \in history.limits
  BY RecoveredFields
<1>3. /\ r \in Runners /\ r.up /\ r.phase = "steady" /\ r.record = disk /\ r.limit = limit
      /\ r.due = None /\ r.timer = None
  BY RecoveredFields
<1>4. IF now >= limit THEN Fails(runner, "max_duration", SwitchedOff(oven))
      ELSE IF NearEnd(r) THEN StepDone(r, oven)
      ELSE IF oven.seen # "running" THEN Fails(r, "interrupted", {oven})
      ELSE runner' = ArmStep(r) /\ UNCHANGED <<oven, disk, history>>
  BY RecoveredFields
<1>5. CASE now >= limit
  BY <1>1, <1>4, <1>5, PressedFrees, FailsKeeps
<1>6. CASE now < limit /\ NearEnd(r)
  <2>1. Doing(r)
    BY <1>6, RecoveredFields DEF r, limit
  <2>. QED  BY <1>1, <1>2, <1>4, <1>6, <2>1, FreedSame, StepDoneKeeps
<1>7. CASE now < limit /\ ~NearEnd(r) /\ oven.seen # "running"
  <2>1. Fails(r, "interrupted", {oven})
    BY <1>1, <1>2, <1>4, <1>7
  <2>. QED  BY <1>1, <1>3, <2>1, FreedSame, FailsKeeps
<1>8. CASE now < limit /\ ~NearEnd(r) /\ oven.seen = "running"
  <2>1. runner' = ArmStep(r) /\ UNCHANGED <<oven, disk, history>>
    BY <1>1, <1>2, <1>4, <1>8
  <2>2. disk.step_ends_at \in Times /\ EndSlack \in Nat
    BY <1>1, Delays DEF Records
  <2>3. /\ runner' \in Runners /\ runner'.up /\ runner'.phase = "steady"
        /\ runner'.record = disk /\ runner'.limit = limit /\ runner'.due = None
        /\ runner'.timer = disk.step_ends_at
    BY <1>3, <2>1, <2>2, NoAttempt DEF ArmStep, Runners
  <2>4. StepRuns' /\ ~Stranded' /\ Record' = disk /\ Record = disk
    BY <1>1, <2>1, <2>3 DEF StepRuns, Stranded, Steady, Record, TimesInv, RunInv, Saved
  <2>5. StepOf(disk).kind = "timed" =>
          now < disk.step_ends_at - EndSlack /\ now <= disk.step_ends_at
    BY <1>1, <1>3, <1>8, <2>2, DiskTimes DEF NearEnd, CurrentStep, StepOf
  <2>6. TimesTypeOK'
    BY <1>1, <2>1, <2>3 DEF TimesInv, TimesTypeOK
  <2>7. RunInv'
    BY <1>1, <2>1, <2>3, <2>4 DEF TimesInv, RunInv, Recorded, Saved, Phases, StepOf, Before, Needed
  <2>8. StepInv'
    <3>1. LimitKept'
      BY <1>1, <1>2, <1>8, <2>1, <2>3 DEF LimitKept
    <3>2. Timers'
      BY <1>1, <2>1, <2>3, <2>5, <3>1 DEF TimesInv, StepInv, Timers, StepOf
    <3>. QED  BY <2>3, <2>4, <3>2 DEF StepInv, Left, Attempts, InTransition
  <2>9. Programmes' /\ Accepting' /\ Seeing'
    BY <1>1, <1>8, <2>1, <2>3, <2>4 DEF TimesInv, OvenInv, Programmes, Accepting, Seeing
  <2>10. Running'
    BY <1>1, <2>1, <2>5 DEF TimesInv, OvenInv, Running, StepOf, Uncapped, RunsThisStep
  <2>11. HoldStopsByItself'
    BY <2>1, <2>4 DEF TimesInv, OvenInv, HoldStopsByItself, RunsThisStep
  <2>. QED  BY <2>6, <2>7, <2>8, <2>9, <2>10, <2>11 DEF TimesInv, OvenInv
<1>. QED  BY <1>1, <1>2, <1>5, <1>6, <1>7, <1>8

-----------------------------------------------------------------------------
(* The invariant, and what it says of the run.                             *)

LEMMA TimesStart == Init => TimesInv
<1>. SUFFICES ASSUME Init PROVE TimesInv
  OBVIOUS
<1>1. /\ runner = [NewRunner EXCEPT !.up = TRUE] /\ disk = NoRecord /\ history = NoHistory
      /\ \E u \in Uppers : oven = [NewOven EXCEPT !.upper = u]
      /\ now = 0 /\ runs = 0 /\ changes = 0 /\ downs = 0
      /\ options = [preheat_minutes |-> DefaultPreheat, max_total |-> DefaultMaxTotal]
  BY DEF Init
<1>2. /\ runner \in Runners /\ runner.up /\ runner.record = NoRecord /\ runner.phase = "steady"
      /\ runner.due = None /\ runner.limit = None /\ runner.timer = None
  BY <1>1, NewRunnerType DEF NewRunner, Runners
<1>3. /\ oven \in Ovens /\ oven.of = NoProgramme /\ oven.pressed = None
      /\ oven.dialled = NoProgramme /\ oven.ran_out = NoProgramme
  BY <1>1, UppersAssumption DEF NewOven, Ovens, Times, None, NoProgramme
<1>4. /\ history \in Histories /\ history.began = None /\ history.transitions = 0
  BY <1>1 DEF NoHistory, Histories, Times, None
<1>5. NoRecord.state = "idle" /\ NoRecord.state \notin Active /\ NoRecord.state # "running"
  BY DEF NoRecord, Active
<1>6. TimesTypeOK
  BY <1>1, <1>2, <1>3, <1>4, NewRunnerType, OptionValues DEF TimesTypeOK
<1>7. RunInv
  BY <1>1, <1>2, <1>5 DEF RunInv, Recorded, Saved, Phases, Active, Stranded, Steady
<1>8. StepInv
  BY <1>1, <1>2, <1>4, <1>5
  DEF StepInv, Timers, LimitKept, Left, Attempts, InTransition, Steady, StepRuns, Stranded
<1>9. Record.state # "running"
  BY <1>1, <1>2, <1>5 DEF Record
<1>10. OvenInv
  BY <1>1, <1>2, <1>3, <1>4, <1>5, <1>9
  DEF OvenInv, Programmes, Accepting, Seeing, Running, HoldStopsByItself, NoProgramme,
      Stranded, Steady
<1>. QED  BY <1>6, <1>7, <1>8, <1>10 DEF TimesInv

LEMMA TimesStep == TimesInv /\ [Next]_vars => TimesInv'
<1>. SUFFICES ASSUME TimesInv, [Next]_vars PROVE TimesInv'
  OBVIOUS
<1>1. CASE Run
  BY <1>1, RunKeeps
<1>2. CASE Abort
  BY <1>2, AbortKeeps
<1>3. CASE ChangeOptions
  BY <1>3, ChangeOptionsKeeps
<1>4. CASE FirstAttempt
  BY <1>4, FirstAttemptKeeps
<1>5. CASE NextAttempt
  BY <1>5, NextAttemptKeeps
<1>6. CASE TransitionFails
  BY <1>6, TransitionFailsKeeps
<1>7. CASE StepStarts
  BY <1>7, StepStartsKeeps
<1>8. CASE Due
  BY <1>8, DueKeeps
<1>9. CASE StepTimer
  BY <1>9, StepTimerKeeps
<1>10. CASE Heated
  BY <1>10, HeatedKeeps
<1>11. CASE LimitReached
  BY <1>11, LimitReachedKeeps
<1>12. CASE Seen
  BY <1>12, SeenKeeps
<1>13. CASE Down
  BY <1>13, DownKeeps
<1>14. CASE Up
  BY <1>14, UpKeeps
<1>15. CASE RecoverRunning
  BY <1>15, RecoverRunningKeeps
<1>16. CASE OvenActs
  BY <1>16, OvenActsKeeps
<1>17. CASE OvenStops
  BY <1>17, OvenStopsKeeps
<1>18. CASE Tick
  BY <1>18, TickKeeps
<1>19. CASE UNCHANGED vars
  <2>1. UNCHANGED <<now, options, runner, disk, history, runs, changes, downs>> /\ oven' = oven
    BY <1>19 DEF vars
  <2>2. oven' \in Ovens /\ oven'.upper = oven.upper
    BY <2>1 DEF TimesInv, TimesTypeOK
  <2>3. OvenInv'
    BY <2>1 DEF TimesInv, OvenInv, Programmes, Accepting, Seeing, Running, HoldStopsByItself,
                StepOf, RunsThisStep, Uncapped, HoldEnd, Steady, StepRuns, Stranded, Record
  <2>. QED  BY <2>1, <2>2, <2>3, OvenOnlyKeeps
<1>. QED  BY <1>1, <1>2, <1>3, <1>4, <1>5, <1>6, <1>7, <1>8, <1>9, <1>10, <1>11, <1>12, <1>13,
             <1>14, <1>15, <1>16, <1>17, <1>18, <1>19 DEF Next

LEMMA TimesAlways == Spec => []TimesInv
BY TimesStart, TimesStep, PTL DEF Spec

\* Every variable keeps its type: no time is ever computed from one that is not
\* set, in any phase, before or after a restart (models.py, engine.py).
THEOREM TimesTypeCorrect == Spec => []TimesTypeOK
BY TimesAlways, PTL DEF TimesInv

\* The limit of a run (engine.py, _limit_reached and _async_recover_running)
\* counts from its start and is not outlasted, whatever restarts and changes of
\* the options there were.
THEOREM LimitIsKept == Spec => []LimitKept
BY TimesAlways, PTL DEF TimesInv, StepInv, Timers

\* A hold is set on the oven so that it stops by itself soon after the longest
\* limit the run had, even if Home Assistant is gone by then.
THEOREM HoldHasItsEnd == Spec => []HoldStopsByItself
BY TimesAlways, PTL DEF TimesInv, OvenInv

\* The oven's own timer and the runner's for a timed step end within the slack.
THEOREM OvenEndsInSlack == Spec => []OwnEndInSlack
<1>1. TimesInv => OwnEndInSlack
  <2>. SUFFICES ASSUME TimesInv, Steady, RunsThisStep, CurrentStep(runner).kind = "timed",
                       Uncapped(CurrentStep(runner))
                PROVE  runner.record.step_ends_at - EndSlack <= oven.until
                          /\ oven.until <= runner.record.step_ends_at
    BY DEF OwnEndInSlack
  <2>1. ~Stranded
    BY DEF TimesInv, TimesTypeOK, Histories, OvenInv, Programmes, RunsThisStep
  <2>2. runner.record = disk /\ disk.state = "running" /\ StepRuns
    BY <2>1 DEF TimesInv, RunInv, Saved, Stranded, StepRuns, Steady, InTransition
  <2>. QED  BY <2>2 DEF TimesInv, OvenInv, Running, CurrentStep, StepOf
<1>. QED  BY <1>1, TimesAlways, PTL

\* The end of a step is fixed when it starts: timer, record and disk agree.
THEOREM StepEndIsKept == Spec => []StepEndKept
<1>1. TimesInv => StepEndKept
  <2>. SUFFICES ASSUME TimesInv, StepRuns, CurrentStep(runner).kind # "hold"
                PROVE  /\ runner.timer = disk.step_ends_at
                       /\ runner.timer = runner.record.step_started_at + CurrentStep(runner).minutes
    BY DEF StepEndKept
  <2>1. runner.record = disk /\ disk.state = "running" /\ runner.timer = disk.step_ends_at
    BY DEF TimesInv, RunInv, Saved, StepRuns, Stranded, Steady, InTransition, StepInv, Timers
  <2>. QED  BY <2>1 DEF TimesInv, RunInv, Saved, CurrentStep, StepOf
<1>. QED  BY <1>1, TimesAlways, PTL

\* A schedule for a finish is estimated to finish then (models.py,
\* start_for_ready and planned_duration; engine.py, estimated_finish).
THEOREM ReadyIsEstimated == Spec => []EstimateIsReady
<1>1. TimesInv => EstimateIsReady
  <2> DEFINE planned == Planned(Record.preset, history.planned)
  <2>. SUFFICES ASSUME TimesInv, Record.state = "scheduled", Record.ready_at # None,
                       options.preheat_minutes = history.planned
                PROVE  EstimatedFinish([record |-> Record]) = Record.ready_at
    BY DEF EstimateIsReady
  <2>1. /\ Record \in Records /\ Record.preset \in Presets
        /\ Record.start_at = Record.ready_at - planned
    BY DEF TimesInv, TimesTypeOK, RunInv, Recorded, Runners, Active, Record
  <2>2. planned \in Nat /\ Record.ready_at \in Int
    BY <2>1, PresetLen, PlannedType, OptionTypes DEF TimesInv, Records
  <2>3. EstimatedFinish([record |-> Record]) = Record.start_at + planned
    BY DEF EstimatedFinish
  <2>. HIDE DEF planned
  <2>. QED  BY <2>1, <2>2, <2>3
<1>. QED  BY <1>1, TimesAlways, PTL

\* While a step runs that is not a preheat the estimated finish leaves time for
\* the steps after it: it is never already past (engine.py, estimated_finish),
\* whatever transitions have failed, were lost or are still to come.
THEOREM EstimateIsAhead == Spec => []EstimateAhead
<1>1. TimesInv => EstimateAhead
  <2> DEFINE planned == Planned(Rest(runner), options.preheat_minutes)
             ends == IF runner.record.step_ends_at = None THEN now ELSE runner.record.step_ends_at
  <2>. SUFFICES ASSUME TimesInv, StepRuns, CurrentStep(runner).kind # "preheat"
                PROVE  now + planned <= EstimatedFinish(runner)
    BY DEF EstimateAhead
  <2>1. /\ runner.record = disk /\ disk.state = "running"
        /\ runner.timer = disk.step_ends_at /\ CurrentStep(runner) = StepOf(disk)
    BY DEF TimesInv, RunInv, Saved, StepRuns, Stranded, Steady, InTransition, StepInv, Timers,
           CurrentStep, StepOf
  <2>2. /\ StepOf(disk).kind \in {"timed", "hold"} /\ disk.preset \in Presets
        /\ disk.step_index \in 1 .. Len(disk.preset) /\ now \in Nat
    BY <2>1, RunningStep DEF Steps
  <2>3. EstimatedFinish(runner) = ends + planned
    BY <2>1 DEF EstimatedFinish
  <2>4. planned \in Nat
    <3>1. disk.preset \in Seq(Steps) /\ Len(disk.preset) \in Nat
      BY <2>2, PresetLen
    <3>2. \A i \in disk.step_index + 1 .. Len(disk.preset) : disk.preset[i] \in Steps
      BY <2>2, <3>1, StepType
    <3>3. Rest(runner) \in Seq(Steps)
      BY <2>1, <2>2, <3>1, <3>2, SubSeqProperties DEF Rest
    <3>. QED  BY <3>3, PlannedType, OptionTypes DEF TimesInv
  <2>5. ends \in Nat /\ now <= ends
    <3>1. CASE StepOf(disk).kind = "timed"
      <4>1. now <= disk.step_ends_at /\ disk.step_ends_at \in Nat
        BY <2>1, <3>1, DiskTimes DEF TimesInv, StepInv, Timers
      <4>. QED  BY <2>1, <2>2, <4>1
    <3>2. CASE StepOf(disk).kind = "hold"
      <4>1. disk.step_ends_at = None
        BY <2>1, <3>2 DEF TimesInv, RunInv, Saved
      <4>. QED  BY <2>1, <2>2, <4>1
    <3>. QED  BY <2>2, <3>1, <3>2
  <2>. HIDE DEF planned, ends
  <2>. QED  BY <2>2, <2>3, <2>4, <2>5
<1>. QED  BY <1>1, TimesAlways, PTL

-----------------------------------------------------------------------------
(* What a step may make of the record.                                     *)

Kept(record) ==
    /\ runner'.record.state = record.state /\ runner'.record.last_error = record.last_error
    /\ runner'.record.start_at = record.start_at /\ runner'.record.started_at = record.started_at

\* The preset's last step is done, and all that were not lost had their time.
Completed ==
    /\ runner'.record.state = "finished"
    /\ runner'.record.last_error = runner.record.last_error
    /\ runner.record.started_at = history.began
    /\ now >= history.began + Total(LeastTimes(runner.record.preset, history.lost))

\* A run fails, because the oven stopped only if it should not have.
Failed ==
    /\ runner'.record.state = "failed"
    /\ runner'.record.last_error = "appliance_stopped" => Steady /\ ~NearEnd(runner)

BeginsNow ==
    /\ runner.due # None /\ now >= runner.due
    /\ runner'.record.state = "running" /\ runner'.record.start_at = runner.record.start_at

\* It is asked for, aborted, or forgotten by a Home Assistant that goes down.
Replaced ==
    \/ runner'.record.state = "scheduled" /\ ~Steady
    \/ /\ runner'.record.state = "idle"
       /\ runner'.record.last_error \in {"none", runner.record.last_error}

LEMMA FailsRecord ==
    ASSUME NEW r \in Runners, NEW error, NEW ovens, Fails(r, error, ovens)
    PROVE  runner'.record.state = "failed" /\ runner'.record.last_error = error
<1>1. Cleared(r).record \in Records /\ DOMAIN Cleared(r) = DOMAIN r
  BY DEF Cleared, Runners
<1>. HIDE DEF Cleared
<1>. QED  BY <1>1 DEF Fails, Ended, Records, Runners

LEMMA StepDoneRecord ==
    ASSUME TimesInv, NEW r, Doing(r), r.record = runner.record, NEW o, StepDone(r, o)
    PROVE  Kept(runner.record) \/ Completed
<1> DEFINE k == r.record.step_index
           p == r.record.preset
<1>1. /\ r \in Runners /\ now \in Nat /\ r.record.last_error = "none"
      /\ r.record.state = "running" /\ r.record.started_at = history.began
      /\ k \in 1 .. Len(p) /\ Len(p) \in Nat /\ p \in Presets
  BY RunningStep, PresetLen DEF Doing, Recorded, Active
<1>2. CASE k < Len(p)
  <2>1. runner' \in {Entered(r, k + 1), Passed(r, k + 1)} /\ k + 1 \in Nat
    BY <1>1, <1>2 DEF StepDone, RunStep, Entered, Passed
  <2>2. /\ runner'.record.state = r.record.state
        /\ runner'.record.last_error = r.record.last_error
        /\ runner'.record.start_at = r.record.start_at
        /\ runner'.record.started_at = r.record.started_at
    <3>. HIDE DEF k
    <3>1. AtStep(runner', r, k + 1)
      BY <1>1, <2>1, EnteredFields
    <3>. QED  BY <3>1 DEF AtStep
  <2>. QED  BY <2>2 DEF Kept
<1>3. CASE ~(k < Len(p))
  <2>1. runner' = [Ended(r, "finished", r.record.last_error) EXCEPT !.record.step_ends_at = None]
    BY <1>1, <1>3 DEF StepDone
  <2>2. Cleared(r) \in Runners
    BY <1>1, NoAttempt DEF Cleared, Runners
  <2> DEFINE e == Ended(r, "finished", r.record.last_error)
  <2>3. e \in Runners /\ e.record.state = "finished" /\ e.record.last_error = "none"
    <3>. HIDE DEF Cleared
    <3>. QED  BY <1>1, <2>2 DEF Ended, Runners, Records
  <2>4. runner'.record.state = "finished" /\ runner'.record.last_error = "none"
    <3>. HIDE DEF e
    <3>. QED  BY <2>1, <2>3 DEF e, Runners, Records
  <2>5. Total(LeastTimes(p, history.lost)) = Needed(r.record)[k]
    <3>1. k = Len(p)
      BY <1>1, <1>3
    <3>. QED  BY <1>1, <3>1, LeastTimesAdd DEF Needed
  <2>6. now >= history.began + Needed(r.record)[k]
    BY DEF Doing
  <2>. QED  BY <1>1, <2>4, <2>5, <2>6 DEF Completed
<1>. QED  BY <1>2, <1>3

LEMMA BecomesOf ==
    ASSUME TimesInv, [Next]_vars
    PROVE  \/ Kept(runner.record)
           \/ ~runner.up /\ Kept(disk)
           \/ Completed \/ Failed \/ BeginsNow \/ Replaced
<1>1. runner \in Runners /\ disk \in Records /\ now \in Nat
  BY DEF TimesInv, TimesTypeOK
<1>2. CASE UNCHANGED runner
  BY <1>2 DEF Kept
<1>3. CASE Run
  <2>1. \E p \in Presets, start \in Int, ready \in Int : Accept(p, start, ready)
    <3>1. PICK p \in Presets, lead \in Leads :
             \/ Accept(p, now + lead, None)
             \/ Accept(p, StartForReady(p, now + lead, options.preheat_minutes), now + lead)
      BY <1>3 DEF Run
    <3>2. now + lead \in Int /\ None \in Int
      BY <1>1, Delays DEF None
    <3>3. StartForReady(p, now + lead, options.preheat_minutes) \in Int
      BY SMTT(30), <3>2, PresetLen, OptionTypes, PlannedType DEF StartForReady, TimesInv
    <3>. QED  BY <3>1, <3>2, <3>3
  <2>2. runner'.record.state = "scheduled"
    <3>1. PICK p \in Presets, start \in Int, ready \in Int : Accept(p, start, ready)
      BY <2>1
    <3>2. /\ Accepted(p, start, ready).record.state = "scheduled"
          /\ DOMAIN Accepted(p, start, ready) = DOMAIN runner
      BY <1>1 DEF Accepted, NoRecord, Runners
    <3>. HIDE DEF Accepted
    <3>. QED  BY <1>1, <3>1, <3>2 DEF Accept, Runners
  <2>3. ~Steady
    BY <1>3 DEF Run, Steady, Active
  <2>. QED  BY <2>2, <2>3 DEF Replaced
<1>4. CASE Abort
  <2>1. /\ Cleared(runner).record = runner.record /\ DOMAIN Cleared(runner) = DOMAIN runner
        /\ "record" \in DOMAIN runner
    BY <1>1 DEF Cleared, Runners
  <2>2. NoRecord.state = "idle" /\ NoRecord.last_error = "none"
    BY DEF NoRecord
  <2>3. CASE runner' = [Cleared(runner) EXCEPT !.record.state = "idle"]
    <3>. HIDE DEF Cleared
    <3>1. runner'.record = [runner.record EXCEPT !.state = "idle"]
      BY <2>1, <2>3
    <3>. QED  BY <1>1, <3>1 DEF Replaced, Runners, Records
  <2>4. CASE runner' = [Cleared(runner) EXCEPT !.record = NoRecord]
    <3>. HIDE DEF Cleared
    <3>. QED  BY <2>1, <2>2, <2>4 DEF Replaced
  <2>. QED  BY <1>4, <2>3, <2>4 DEF Abort
<1>5. CASE FirstAttempt \/ NextAttempt
  <2>1. runner'.record = runner.record
    BY <1>1, <1>5 DEF FirstAttempt, NextAttempt, Runners
  <2>. QED  BY <2>1 DEF Kept
<1>6. CASE TransitionFails \/ LimitReached
  <2>1. \/ Fails(runner, "not started", AbortPressed(oven))
        \/ Fails(runner, "max_duration", SwitchedOff(oven))
    BY <1>6 DEF TransitionFails, LimitReached
  <2>2. /\ runner'.record.state = "failed"
        /\ runner'.record.last_error \in {"not started", "max_duration"}
    BY <1>1, <2>1, FailsRecord
  <2>. QED  BY <2>2 DEF Failed
<1>7. CASE StepStarts
  <2> DEFINE started(ends) ==
               [runner EXCEPT !.seconds = 0, !.attempt = 0, !.record.step_started_at = now,
                              !.record.step_ends_at = ends]
  <2>1. PICK ends : runner' = ArmStep(started(ends))
    BY <1>7 DEF StepStarts
  <2>2. started(ends).record
          = [runner.record EXCEPT !.step_started_at = now, !.step_ends_at = ends]
    BY <1>1 DEF Runners
  <2>3. DOMAIN started(ends) = DOMAIN runner
    OBVIOUS
  <2>. HIDE DEF started
  <2>4. runner'.record = [runner.record EXCEPT !.step_started_at = now, !.step_ends_at = ends]
    BY <1>1, <2>1, <2>2, <2>3 DEF ArmStep, Runners
  <2>. QED  BY <1>1, <2>4 DEF Kept, Runners, Records
<1>8. CASE Due
  <2>1. CASE Fails(runner, "refused", {oven})
    BY <1>1, <2>1, FailsRecord DEF Failed
  <2>2. CASE RunStep(Begun, 1, oven,
                     [history EXCEPT !.began = now, !.limits = {options.max_total}, !.lost = {}])
    <3>1. /\ Begun \in Runners /\ Begun.record.state = "running"
          /\ Begun.record.start_at = runner.record.start_at
      BY BegunFields DEF TimesInv
    <3>2. runner' \in {Entered(Begun, 1), Passed(Begun, 1)}
      BY <2>2 DEF RunStep, Entered, Passed
    <3>3. 1 \in Nat
      OBVIOUS
    <3>4. runner'.record.state = "running" /\ runner'.record.start_at = runner.record.start_at
      <4>1. AtStep(runner', Begun, 1)
        BY <1>1, <3>1, <3>2, <3>3, EnteredFields
      <4>. QED  BY <3>1, <4>1 DEF AtStep
    <3>. QED  BY <1>8, <3>4 DEF BeginsNow, Due
  <2>. QED  BY <1>8, <2>1, <2>2 DEF Due, Begin, Begun
<1>9. CASE StepTimer
  <2>1. /\ StepRuns /\ Steady /\ runner.timer = disk.step_ends_at
        /\ runner.timer \in Nat /\ EndSlack \in Nat /\ now >= runner.timer
    BY <1>1, <1>9, Delays DEF StepTimer, TimesInv, RunInv, Phases, StepRuns,
                              StepInv, Timers, Runners, Times
  <2>2. CASE CurrentStep(runner).kind = "timed"
    <3>1. now >= disk.step_ends_at - EndSlack
      BY <1>1, <2>1
    <3>2. Doing(runner)
      BY <2>1, <2>2, <3>1, RunsDoes
    <3>. QED  BY <1>9, <2>1, <2>2, <3>2, StepDoneRecord DEF StepTimer
  <2>3. CASE CurrentStep(runner).kind # "timed"
    BY <1>1, <1>9, <2>3, FailsRecord DEF StepTimer, Failed
  <2>. QED  BY <2>2, <2>3
<1>10. CASE Heated
  <2>1. Doing(runner) /\ Steady
    BY <1>10, RunsDoes DEF Heated, TimesInv, RunInv, Phases, StepRuns
  <2>. QED  BY <1>10, <2>1, StepDoneRecord DEF Heated
<1>11. CASE Seen /\ ~UNCHANGED runner
  <2>1. PICK op \in {IF oven.of = NoProgramme THEN "idle" ELSE "running", "offline"} \ {oven.seen} :
          LET o == [oven EXCEPT !.seen = op]
          IN  IF ~Steady \/ op # "idle" THEN oven' = o /\ UNCHANGED <<runner, disk, history>>
              ELSE IF NearEnd(runner) THEN StepDone(runner, o)
              ELSE Fails(runner, "appliance_stopped", {o})
    BY <1>11 DEF Seen
  <2>2. Steady
    BY <1>11, <2>1
  <2>3. CASE NearEnd(runner)
    <3>1. Doing(runner)
      BY <2>2, <2>3, NearEndDoes
    <3>2. \E o : StepDone(runner, o)
      BY <1>11, <2>1, <2>3
    <3>. QED  BY <2>2, <3>1, <3>2, StepDoneRecord
  <2>4. CASE ~NearEnd(runner)
    <3>1. \E o : Fails(runner, "appliance_stopped", {o})
      BY <1>11, <2>1, <2>4
    <3>. QED  BY <1>1, <2>2, <2>4, <3>1, FailsRecord DEF Failed
  <2>. QED  BY <2>3, <2>4
<1>12. CASE Down
  BY <1>12 DEF Down, NewRunner, NoRecord, Replaced
<1>13. CASE Up
  <2>1. /\ ~runner.up /\ Loaded \in Runners /\ Loaded.record = disk
    BY <1>1, <1>13, NewRunnerType DEF Up, Loaded, Runners, TimesInv, RunInv, Phases
  <2>. HIDE DEF Loaded
  <2>2. CASE Fails(Loaded, "missed_start", {oven})
    BY <2>1, <2>2, FailsRecord DEF Failed
  <2>3. CASE ~Fails(Loaded, "missed_start", {oven})
    <3>1. runner'.record = disk
      BY <1>13, <2>1, <2>3 DEF Up, RecoverScheduled, Runners
    <3>. QED  BY <2>1, <3>1 DEF Kept
  <2>. QED  BY <2>2, <2>3
<1>14. CASE RecoverRunning
  <2>1. /\ runner.record = disk /\ Recovered \in Runners /\ Recovered.record = disk
        /\ now < Recovered.limit /\ NearEnd(Recovered) => Doing(Recovered)
        /\ Recovered.limit \in Nat
    BY <1>14, RecoveredFields
  <2>2. \/ Fails(runner, "max_duration", SwitchedOff(oven))
        \/ now < Recovered.limit /\ NearEnd(Recovered) /\ StepDone(Recovered, oven)
        \/ Fails(Recovered, "interrupted", {oven})
        \/ runner' = ArmStep(Recovered)
    BY <1>1, <1>14, <2>1, RecoveredFields
  <2>3. CASE runner' = ArmStep(Recovered)
    <3>1. runner'.record = disk
      BY <2>1, <2>3 DEF ArmStep, Runners
    <3>. QED  BY <2>1, <3>1 DEF Kept
  <2>. QED  BY <1>1, <2>1, <2>2, <2>3, FailsRecord, StepDoneRecord DEF Failed
<1>. QED  BY <1>2, <1>3, <1>4, <1>5, <1>6, <1>7, <1>8, <1>9, <1>10, <1>11, <1>12, <1>13, <1>14
     DEF Next, vars, ChangeOptions, OvenActs, OvenStops, Tick

\* No run fails because its timed step ran as long as it should (_check_operation
\* and the slack of engine.py), however late the news of it, after a restart too.
THEOREM NoStopIsFalse == Spec => NoFalseStop
<1>1. ASSUME TimesInv, [Next]_vars,
             Steady, CurrentStep(runner).kind = "timed", Uncapped(CurrentStep(runner)),
             runner'.record.last_error = "appliance_stopped"
      PROVE  oven.ran_out # history.transitions
  <2>1. runner.up /\ runner.record.last_error = "none"
    BY <1>1 DEF Steady, TimesInv, RunInv, Recorded, Active
  <2>2. ~NearEnd(runner) \/ BeginsNow
    BY <1>1, <2>1, BecomesOf DEF Kept, Completed, Failed, Replaced
  <2>3. ~BeginsNow
    BY <1>1, <2>1 DEF BeginsNow, TimesInv, RunInv, Phases, Steady
  <2>4. CASE Stranded
    <3>1. oven.ran_out < history.transitions /\ history.transitions \in Nat
      BY <1>1, <2>4 DEF TimesInv, TimesTypeOK, Histories, OvenInv, Programmes
    <3>. QED  BY <3>1
  <2>5. CASE ~Stranded
    <3>1. runner.record = disk /\ disk.state = "running"
      BY <1>1, <2>5 DEF TimesInv, RunInv, Saved, Steady, InTransition
    <3>2. now \in Nat /\ disk.step_ends_at \in Nat /\ EndSlack \in Nat
      BY <1>1, <3>1, DiskTimes, Delays DEF TimesInv, TimesTypeOK, CurrentStep, StepOf
    <3>3. now < disk.step_ends_at - EndSlack
      BY <1>1, <2>2, <2>3, <3>1, <3>2 DEF NearEnd
    <3>4. oven.ran_out = history.transitions => now >= disk.step_ends_at - EndSlack
      BY <1>1, <3>1 DEF TimesInv, OvenInv, Running, CurrentStep, StepOf
    <3>. QED  BY <3>2, <3>3, <3>4
  <2>. QED  BY <2>4, <2>5
<1>. QED  BY <1>1, TimesAlways, PTL DEF Spec, NoFalseStop

\* A run is begun neither before its time nor more than the grace after it.
THEOREM BegunWhenDue == Spec => BegunInTime
<1>1. ASSUME TimesInv, [Next]_vars,
             runner'.record.state = "running", runner'.record.started_at # Record.started_at
      PROVE  LET start == runner'.record.start_at
             IN  start - Immediate <= now /\ now <= start + MissedGrace
  <2>1. ~runner.up => runner.record.state = "idle"
    BY <1>1 DEF TimesInv, RunInv, Phases, NewRunner, NoRecord
  <2>2. BeginsNow
    BY <1>1, <2>1, BecomesOf DEF Kept, Completed, Failed, Replaced, Record
  <2>3. /\ now <= runner.due
        /\ runner.record.start_at - Immediate <= runner.due
        /\ runner.due <= runner.record.start_at + MissedGrace
    BY <1>1, <2>2 DEF BeginsNow, TimesInv, StepInv, Timers
  <2>4. now \in Nat /\ runner.due \in Nat
    BY <1>1, <2>2 DEF BeginsNow, TimesInv, TimesTypeOK, Runners, Times
  <2>5. now = runner.due
    BY <2>2, <2>3, <2>4 DEF BeginsNow
  <2>. QED  BY <2>2, <2>3, <2>5 DEF BeginsNow
<1>. QED  BY <1>1, TimesAlways, PTL DEF Spec, BegunInTime

\* No preset is finished before the timed steps whose transition was not lost
\* have had their time, less the slack for each (engine.py, _async_step_done): by
\* whichever of the step's timer, the oven's stop and a restart each was ended.
THEOREM StepsHadTheirTime == Spec => RunsItsTime
<1>1. ASSUME TimesInv, [Next]_vars,
             runner'.record.state = "finished", runner.record.state = "running",
             NoneBrief(runner.record.preset)
      PROVE  now >= runner.record.started_at
                      + Total(LeastTimes(runner.record.preset, history.lost))
  <2>1. ~runner.up => runner.record.state = "idle"
    BY <1>1 DEF TimesInv, RunInv, Phases, NewRunner, NoRecord
  <2>2. Completed
    BY <1>1, <2>1, BecomesOf DEF Kept, Failed, BeginsNow, Replaced
  <2>. QED  BY <2>2 DEF Completed
<1>. QED  BY <1>1, TimesAlways, PTL DEF Spec, RunsItsTime

=============================================================================
