----------------------------- MODULE RunLifecycle -----------------------------
(***************************************************************************)
(* What a preset run promises, whatever the oven does: the states its      *)
(* sensor may show, in which order, and which of them a restart goes back  *)
(* to.  A state that is reached is queued for saving; only starting is not *)
(* saved until the first step runs.  A restart finds the last state that   *)
(* was written, and takes a scheduled run up at once when it is due.       *)
(***************************************************************************)
EXTENDS Sequences

VARIABLES
    state,   \* the run's state, or "down" while Home Assistant is
    queue,   \* the states still to be written, oldest first
    saved    \* the state on disk

lifecycleVars == <<state, queue, saved>>

Over == {"idle", "finished", "failed"}
Live == {"scheduled", "running"}

LifecycleInit == state = "idle" /\ queue = <<>> /\ saved = "idle"

\* A step writes the oldest queued state or none, and queues more.
Queues(more) ==
    \/ saved' = saved /\ queue' = queue \o more
    \/ /\ queue # <<>>
       /\ saved' = Head(queue)
       /\ queue' = Tail(queue) \o more

Schedule == state \in Over /\ state' = "scheduled" /\ Queues(<<"scheduled">>)
Start    == state = "scheduled" /\ state' = "running" /\ Queues(<<>>)
StepRuns == state = "running" /\ state' = "running" /\ Queues(<<"running">>)
Finish   == state = "running" /\ state' = "finished" /\ Queues(<<"finished">>)
GiveUp   == state \in Live /\ state' = "failed" /\ Queues(<<"failed">>)
Abort    == state \in Live /\ state' = "idle" /\ Queues(<<"idle">>)
Dismiss  == state \in {"finished", "failed"} /\ state' = "idle" /\ Queues(<<"idle">>)
Written  == state' = state /\ queue # <<>> /\ Queues(<<>>)

Dies == state # "down" /\ state' = "down" /\ queue' = <<>> /\ saved' = saved

Returns ==
    /\ state = "down"
    /\ saved' = saved
    /\ \/ state' = saved /\ queue' = <<>>
       \/ saved = "scheduled" /\ state' = "running" /\ queue' = <<>>
       \/ saved = "scheduled" /\ state' = "failed" /\ queue' = <<"failed">>

LifecycleNext ==
    \/ Schedule \/ Start \/ StepRuns \/ Finish \/ GiveUp \/ Abort \/ Dismiss
    \/ Written \/ Dies \/ Returns

LifecycleSpec == LifecycleInit /\ [][LifecycleNext]_lifecycleVars

=============================================================================
