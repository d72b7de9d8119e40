---------------------------- MODULE AgentWorker ----------------------------
(***************************************************************************)
(* The LAN agent process (agent_main.py): a control loop that finds work,  *)
(* a worker thread that executes it, and a heartbeat thread that carries   *)
(* the cancel request.  They share the work slot of AgentRuntime, its      *)
(* events _idle and _work_ready, and the cancel event.                     *)
(***************************************************************************)
EXTENDS ResultUpload

CONSTANT MaxBeats       \* bound: heartbeats that name a run

ASSUME BeatsAssumption == MaxBeats \in Nat

VARIABLES
    beats,      \* heartbeats sent
    ctl,        \* the control loop
    slot,       \* _work, _idle, _work_ready
    beat        \* the heartbeat in flight: the run it names, what central says

agentVars == <<ctl, slot, beat, beats>>

ControlIdle == [pc |-> "sleep", job |-> NoJob, resume |-> FALSE]
SlotEmpty == [work |-> NoJob, resume |-> FALSE, idle |-> TRUE, ready |-> FALSE]

AgentTypeOK ==
    /\ beats \in 0 .. MaxBeats
    /\ ctl \in [pc : {"sleep", "probe", "poll", "assign", "publish"},
                job : Jobs \cup {NoJob}, resume : BOOLEAN]
    /\ slot \in [work : Jobs \cup {NoJob}, resume : BOOLEAN,
                 idle : BOOLEAN, ready : BOOLEAN]
    /\ beat \in [at : {"wait", "sent", "back"}, job : Jobs \cup {NoJob}, says : BOOLEAN]

NoBeat == [at |-> "wait", job |-> NoJob, says |-> FALSE]

InitAgent ==
    /\ ctl = ControlIdle
    /\ slot = SlotEmpty
    /\ beat = NoBeat
    /\ beats = 0

-----------------------------------------------------------------------------
(* The control loop *)

Completed == {j \in Jobs : disk[j].done}

\* _poll_once: only while the worker is idle.
PollOnce ==
    /\ ctl.pc = "sleep" /\ slot.idle
    /\ ctl' = [ctl EXCEPT !.pc = IF Completed = {} THEN "poll" ELSE "probe"]
    /\ UNCHANGED <<uploadVars, slot, beat, beats>>

\* _offer_resume: a finished spool is resumed when central says that this
\* agent still owns the running run ...
OfferResume ==
    /\ ctl.pc = "probe"
    /\ LET j == Oldest(Completed) IN
        /\ central[j].status = "running"
        /\ ctl' = [pc |-> "assign", job |-> j, resume |-> TRUE]
    /\ UNCHANGED <<uploadVars, slot, beat, beats>>

\* ... and abandoned on any ApiError: the run has ended, the agent's claim no
\* longer validates, or the call failed.
AbandonSpool ==
    /\ ctl.pc = "probe"
    /\ LET j == Oldest(Completed) IN
        /\ \/ central[j].status # "running" /\ UNCHANGED faults
           \/ Fault
        /\ disk' = [disk EXCEPT ![j] = NoSpool]
        /\ ctl' = [ctl EXCEPT !.pc = IF Completed = {j} THEN "poll" ELSE "probe"]
    /\ UNCHANGED <<central, wk, cancel, flight, crashes, slot, beat, beats>>

Queued == {j \in Jobs : central[j].status = "queued"}
AgentRuns == {j \in Jobs : central[j].status = "running"}

\* GET /jobs: nothing while the agent has a running run, else the oldest queued
\* run.
\* _idle is read again before the run is taken.
PollJobs ==
    /\ ctl.pc = "poll"
    /\ \/ /\ AgentRuns = {} /\ slot.idle /\ Queued # {}
          /\ ctl' = [pc |-> "assign", job |-> Oldest(Queued), resume |-> FALSE]
       \/ ctl' = ControlIdle
    /\ UNCHANGED <<uploadVars, slot, beat, beats>>

\* _set_work(job): the slot under the lock, then the events.
AssignWork ==
    /\ ctl.pc = "assign"
    /\ slot' = [slot EXCEPT !.work = ctl.job, !.resume = ctl.resume]
    /\ ctl' = [ctl EXCEPT !.pc = "publish"]
    /\ UNCHANGED <<uploadVars, beat, beats>>

PublishWork ==
    /\ ctl.pc = "publish"
    /\ slot' = [slot EXCEPT !.idle = FALSE, !.ready = TRUE]
    /\ ctl' = ControlIdle
    /\ UNCHANGED <<uploadVars, beat, beats>>

-----------------------------------------------------------------------------
(* The worker thread *)

\* Mutated form: the wait for _work_ready has no timeout.
Wakes_NoTimeout == slot.ready

\* _worker_loop: the wait ends when _work_ready is set and every second.
Wakes == TRUE

TakeWork ==
    /\ wk.pc = "wait" /\ slot.work # NoJob /\ Wakes
    /\ wk' = [Free EXCEPT !.pc = IF slot.resume THEN "resume" ELSE "start",
                          !.job = slot.work, !.resume = slot.resume]
    /\ cancel' = FALSE
    /\ UNCHANGED <<central, disk, flight, faults, crashes, agentVars>>

\* No token: the run is given back without a call.
TakeNoToken ==
    /\ wk.pc = "wait" /\ slot.work # NoJob /\ Wakes
    /\ Fault
    /\ wk' = [Free EXCEPT !.pc = "end", !.job = slot.work]
    /\ UNCHANGED <<central, disk, cancel, flight, crashes, agentVars>>

\* POST /start and, once it is answered, recover_owned_spool.
Start ==
    /\ wk.pc = "start"
    /\ LET j == wk.job IN
        \/ /\ central[j].status = "queued" /\ AgentRuns = {}
           /\ central' = [central EXCEPT ![j].status = "running"]
           /\ \/ Go("scan") /\ disk' = Recovered(j) /\ UNCHANGED faults
              \/ Fault /\ Go("error") /\ UNCHANGED disk
        \/ /\ central[j].status # "queued" \/ AgentRuns # {}
           /\ Go("error") /\ UNCHANGED <<central, disk, faults>>
    /\ UNCHANGED <<cancel, flight, crashes, agentVars>>

\* refresh_token before the upload.  When it raises, a pipeline error leaves
\* run_job without a report; otherwise the except clause takes over.
RefreshToken ==
    /\ wk.pc = "refresh"
    /\ \/ Go("raw") /\ UNCHANGED faults
       \/ Fault /\ Go(IF wk.failed THEN "end" ELSE "error")
    /\ UNCHANGED <<central, disk, cancel, flight, crashes, agentVars>>

\* _set_work(None) in three steps: slot, _idle.set(), _work_ready.clear().
EmptySlot ==
    /\ wk.pc = "end"
    /\ slot' = [slot EXCEPT !.work = NoJob, !.resume = FALSE]
    /\ Go("free")
    /\ UNCHANGED <<central, disk, cancel, flight, faults, crashes, ctl, beat, beats>>
SetIdle ==
    /\ wk.pc = "free"
    /\ slot' = [slot EXCEPT !.idle = TRUE]
    /\ Go("clear")
    /\ UNCHANGED <<central, disk, cancel, flight, faults, crashes, ctl, beat, beats>>
ClearReady ==
    /\ wk.pc = "clear"
    /\ slot' = [slot EXCEPT !.ready = FALSE]
    /\ wk' = Free
    /\ UNCHANGED <<central, disk, cancel, flight, faults, crashes, ctl, beat, beats>>

-----------------------------------------------------------------------------
(* The heartbeat thread *)

\* send_heartbeat names the run in the slot (one without a run cancels
\* nothing and is left out).
HeartbeatSend ==
    /\ beat.at = "wait" /\ slot.work # NoJob
    /\ beats < MaxBeats /\ beats' = beats + 1
    /\ beat' = [at |-> "sent", job |-> slot.work, says |-> FALSE]
    /\ UNCHANGED <<uploadVars, ctl, slot>>

\* The heartbeat handler: a run the agent has not claimed is answered with a
\* cancel request, as is one that is asked to cancel.
MustCancel(j) == central[j].status = "queued" \/ central[j].asked

HeartbeatHandled ==
    /\ beat.at = "sent"
    /\ \/ beat' = [beat EXCEPT !.at = "back", !.says = MustCancel(beat.job)]
          /\ UNCHANGED faults
       \/ Fault /\ beat' = NoBeat
    /\ UNCHANGED <<central, disk, wk, cancel, flight, crashes, ctl, slot, beats>>

\* The answer sets the event of whatever run the worker executes by then.
HeartbeatAnswer ==
    /\ beat.at = "back"
    /\ cancel' = (cancel \/ beat.says)
    /\ beat' = NoBeat
    /\ UNCHANGED <<central, disk, wk, flight, faults, crashes, ctl, slot, beats>>

\* The process dies and is started again; the disk is left.
AgentCrash ==
    /\ crashes > 0
    /\ crashes' = crashes - 1
    /\ wk' = Free /\ cancel' = FALSE
    /\ ctl' = ControlIdle /\ slot' = SlotEmpty
    /\ beat' = NoBeat
    /\ UNCHANGED <<central, disk, flight, faults, beats>>

WorkerStep ==
    \/ TakeWork \/ TakeNoToken \/ Start \/ RefreshToken
    \/ EmptySlot \/ SetIdle \/ ClearReady
    \/ Execute /\ UNCHANGED agentVars
ControlStep ==
    \/ PollOnce \/ OfferResume \/ AbandonSpool \/ PollJobs
    \/ AssignWork \/ PublishWork

NextAgent ==
    \/ WorkerStep \/ ControlStep \/ HeartbeatSend \/ HeartbeatHandled
    \/ HeartbeatAnswer \/ AgentCrash
    \/ CentralSteps /\ UNCHANGED agentVars

-----------------------------------------------------------------------------
\* A run put in the work slot is executed and leaves it, even when the clear
\* of _work_ready that ends the previous run swallows its wake-up.
AcceptedIsWorked == slot.work # NoJob ~> slot.work = NoJob
=============================================================================
