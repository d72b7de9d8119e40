------------------------------ MODULE ScanJobs ------------------------------
(***************************************************************************)
(* The life of scan jobs under concurrent transactions: the agent API      *)
(* (routers/agent_api.py), the central scanner API (routers/scanner_api.py)*)
(* and the two scheduler passes that end jobs (scheduler.py), all writing  *)
(* the scan_jobs table with no lock but the two the code takes: the        *)
(* agent row (SELECT ... FOR UPDATE) and the job row of an atomic claim.   *)
(*                                                                         *)
(* Each handler is at least two steps, the one that loads the row and the  *)
(* one that commits, because PostgreSQL runs at READ COMMITTED and other   *)
(* transactions commit in between.  The verdicts of the checks that read   *)
(* other tables (authorization, exclusions, health, dispatch priority) are *)
(* chosen freely: staff and heartbeats may change those rows at any time.  *)
(***************************************************************************)
EXTENDS ScanJobRow

CONSTANTS Jobs,         \* the rows of scan_jobs that may come to exist
          LanJobs,      \* those whose snapshot has scope "lan"
          Agents,       \* LAN agents; each may run one job
          Central,      \* claimed_by of every central (WAN) scanner
          Requests,     \* API requests the backend serves at once
          NoJob

ASSUME JobsAssumption ==
    /\ LanJobs \subseteq Jobs
    /\ NoJob \notin Jobs
    /\ Central \notin Agents
    /\ NoOne \notin Agents \cup {Central}

Workers == Agents \cup {Central}

\* Whom a run is dispatched to: the agent pool, or the central scanners.
Pool(j) == IF j \in LanJobs THEN Agents ELSE {Central}

VARIABLES
    jobs,       \* jobs[j]: the committed row of j
    req,        \* req[r]: the request r is serving, see Request
    expiring,   \* rows expire_waiting_jobs has loaded and not yet committed
    stuck,      \* rows expire_stuck_jobs has loaded: to mark, and to force
    overdue,    \* runs whose deadline_at has passed
    graceOver,  \* runs whose cancel_requested_at is older than cancel_grace
    waitOver    \* waiting runs whose wait_expires_at has passed

time == <<overdue, graceOver, waitOver>>
vars == <<jobs, req, expiring, stuck, overdue, graceOver, waitOver>>

\* polling: todo is the part of the listed rows not yet visited; refreshed
\*   says that this request has committed, which expires the loaded rows.
\* failing: about to commit fail_job on the loaded row.
\* starting, locked, claimed: start_job before its lock, holding the agent
\*   row lock, and after the claiming UPDATE, which holds the job's row lock.
\* completing, reporting, reportingCancel: complete_job with ok, and with
\*   not ok and an error text that does not, or does, speak of a cancel.
PCs == {"idle", "polling", "failing", "starting", "locked", "claimed",
        "completing", "reporting", "reportingCancel"}

\* who: the worker that starts a job; job, seen: the loaded row.
Request == [pc : PCs, who : Workers \cup {NoOne}, job : Jobs \cup {NoJob},
            seen : Seen, todo : SUBSET Jobs, refreshed : BOOLEAN]

Idle == [pc |-> "idle", who |-> NoOne, job |-> NoJob, seen |-> See(Absent),
         todo |-> {}, refreshed |-> FALSE]

TypeOK ==
    /\ jobs \in [Jobs -> Row(Workers)]
    /\ req \in [Requests -> Request]
    /\ expiring \subseteq Jobs
    /\ stuck \in [mark : SUBSET Jobs, force : SUBSET Jobs]
    /\ overdue \subseteq Jobs /\ graceOver \subseteq Jobs /\ waitOver \subseteq Jobs

Init ==
    /\ jobs = [j \in Jobs |-> Absent]
    /\ req = [r \in Requests |-> Idle]
    /\ expiring = {}
    /\ stuck = [mark |-> {}, force |-> {}]
    /\ overdue = {} /\ graceOver = {} /\ waitOver = {}

-----------------------------------------------------------------------------
(* What committed rows and held locks say.                                 *)

\* agent_has_running_job
Busy(a) == \E j \in Jobs : jobs[j].status = "running" /\ jobs[j].claimed_by = a

\* Mutated form: check-then-claim without the agent's row lock.
AgentRowFree_NoLock(a) == TRUE

\* No request holds the row of agent a (lock_agent_row).
AgentRowFree(a) ==
    \A r \in Requests : req[r].who = a => req[r].pc \notin {"locked", "claimed"}

\* Mutated form: a claim that does not take the row it updates.
RowFree_NoLock(j) == TRUE

\* No uncommitted claim holds the row of job j.
RowFree(j) == \A r \in Requests : req[r].job = j => req[r].pc # "claimed"

Load(r, pc, w, j) ==
    req' = [req EXCEPT ![r] = [Idle EXCEPT !.pc = pc, !.who = w, !.job = j,
                                           !.seen = See(jobs[j])]]
MoveTo(r, pc) == req' = [req EXCEPT ![r].pc = pc]
Finish(r) == req' = [req EXCEPT ![r] = Idle]

-----------------------------------------------------------------------------
(* Creation (run_scan, queue_scheduled_run; ScanScheduling has the rest).   *)

Create(j) ==
    /\ jobs[j].status = "absent"
    /\ \E s \in Startable(j \in LanJobs) :
           jobs' = [jobs EXCEPT ![j] = Created(s)]
    /\ UNCHANGED <<req, expiring, stuck, time>>

-----------------------------------------------------------------------------
(* poll_jobs of both APIs.  A job no snapshot agent may run any more, or    *)
(* whose payload cannot be built, is failed on the way.                     *)

Poll(r, w) ==
    /\ req[r].pc = "idle"
    /\ w \in Agents => ~Busy(w)
    /\ LET listed == {j \in Jobs : /\ w \in Pool(j)
                                   /\ jobs[j].status \in Startable(j \in LanJobs)}
       IN /\ listed # {}
          /\ req' = [req EXCEPT ![r] = [Idle EXCEPT !.pc = "polling", !.todo = listed]]
    /\ UNCHANGED <<jobs, expiring, stuck, time>>

\* A listed row was pending when it was loaded; one visited after a commit of
\* this request is loaded again, whatever it says by then.
PollBlocked(r) ==
    /\ req[r].pc = "polling"
    /\ \E j \in req[r].todo :
           req' = [req EXCEPT ![r].pc = "failing", ![r].job = j,
                      ![r].todo = @ \ {j},
                      ![r].seen = IF req[r].refreshed THEN See(jobs[j])
                                  ELSE See(Created("queued"))]
    /\ UNCHANGED <<jobs, expiring, stuck, time>>

\* fail_job: transition and commit.  A poll goes on with its list.
FailCommit(r) ==
    /\ req[r].pc = "failing"
    /\ RowFree(req[r].job)
    /\ jobs' = [jobs EXCEPT ![req[r].job] = FailWrite(req[r].seen, @)]
    /\ IF req[r].todo = {} THEN Finish(r)
       ELSE req' = [req EXCEPT ![r] = [Idle EXCEPT !.pc = "polling", !.todo = req[r].todo,
                                           !.refreshed = TRUE]]
    /\ UNCHANGED <<expiring, stuck, time>>

-----------------------------------------------------------------------------
(* start_job of both APIs.                                                  *)

\* Load, check status and busyness, revalidate: on to the claim, or to
\* fail_job when the run is blocked.
Start(r, w, j) ==
    /\ req[r].pc = "idle"
    /\ w \in Pool(j)
    /\ jobs[j].status \in Startable(j \in LanJobs)
    /\ w \in Agents => ~Busy(w)
    /\ \/ Load(r, "starting", w, j)
       \/ Load(r, "failing", NoOne, j)
    /\ UNCHANGED <<jobs, expiring, stuck, time>>

\* lock_agent_row waits until no other transaction holds the agent's row.
LockAgentRow(r) ==
    /\ req[r].pc = "starting"
    /\ req[r].job \in LanJobs
    /\ AgentRowFree(req[r].who)
    /\ MoveTo(r, "locked")
    /\ UNCHANGED <<jobs, expiring, stuck, time>>

\* Mutated form: an UPDATE by id, trusting the status that was loaded.
Claim_StaleCheck(r) ==
    /\ \/ req[r].pc = "locked" /\ ~Busy(req[r].who)
       \/ req[r].pc = "starting" /\ req[r].job \notin LanJobs
    /\ RowFree(req[r].job)
    /\ req[r].seen.status \in Startable(req[r].job \in LanJobs)
    /\ MoveTo(r, "claimed")
    /\ UNCHANGED <<jobs, expiring, stuck, time>>

\* agent_has_running_job again, now under the lock, then the claiming UPDATE;
\* a central scanner has no row to lock and goes straight to the UPDATE.
Claim(r) ==
    /\ \/ req[r].pc = "locked" /\ ~Busy(req[r].who)
       \/ req[r].pc = "starting" /\ req[r].job \notin LanJobs
    /\ RowFree(req[r].job)
    /\ Claimable(jobs[req[r].job], req[r].job \in LanJobs)
    /\ MoveTo(r, "claimed")
    /\ UNCHANGED <<jobs, expiring, stuck, time>>

StartCommit(r) ==
    /\ req[r].pc = "claimed"
    /\ jobs' = [jobs EXCEPT ![req[r].job] = ClaimWrite(@, req[r].who)]
    /\ Finish(r)
    /\ UNCHANGED <<expiring, stuck, time>>

\* The second revalidation of a LAN start found the run blocked: claim and
\* failure are committed together.
StartCommitBlocked(r) ==
    /\ req[r].pc = "claimed"
    /\ req[r].job \in LanJobs
    /\ LET claimed == ClaimWrite(jobs[req[r].job], req[r].who)
       IN jobs' = [jobs EXCEPT ![req[r].job] = FailWrite(See(claimed), claimed)]
    /\ Finish(r)
    /\ UNCHANGED <<expiring, stuck, time>>

-----------------------------------------------------------------------------
(* complete_job of both APIs.                                               *)

Complete(r, j) ==
    /\ req[r].pc = "idle"
    /\ jobs[j].claimed_by # NoOne
    /\ MayComplete(jobs[j], j \in overdue)
    /\ Load(r, "completing", NoOne, j)
    /\ UNCHANGED <<jobs, expiring, stuck, time>>

Report(r, j) ==
    /\ req[r].pc = "idle"
    /\ jobs[j].claimed_by # NoOne
    /\ MayReport(jobs[j])
    /\ \E pc \in {"reporting", "reportingCancel"} :
           Load(r, pc, NoOne, j)
    /\ UNCHANGED <<jobs, expiring, stuck, time>>

CompleteCommit(r) ==
    /\ req[r].pc = "completing"
    /\ RowFree(req[r].job)
    /\ jobs' = [jobs EXCEPT ![req[r].job] = DoneWrite(@)]
    /\ Finish(r)
    /\ UNCHANGED <<expiring, stuck, time>>

ReportCommit(r) ==
    /\ req[r].pc \in {"reporting", "reportingCancel"}
    /\ RowFree(req[r].job)
    /\ jobs' = [jobs EXCEPT ![req[r].job] =
                   ReportWrite(req[r].seen, @, req[r].pc = "reportingCancel")]
    /\ Finish(r)
    /\ UNCHANGED <<expiring, stuck, time>>

\* A request that ends without a commit: its answer is 404, 409 or an empty
\* poll, an exception rolled it back, or the backend process died.
Rollback(r) ==
    /\ req[r].pc # "idle"
    /\ Finish(r)
    /\ UNCHANGED <<jobs, expiring, stuck, time>>

-----------------------------------------------------------------------------
(* The scheduler's passes.  The two run in threads of their own.            *)

ExpireWaitingRead ==
    /\ expiring = {}
    /\ expiring' = {j \in waitOver : jobs[j].status = "waiting_for_agent"}
    /\ expiring' # {}
    /\ UNCHANGED <<jobs, req, stuck, time>>

ExpireWaitingCommit ==
    /\ expiring # {}
    /\ \A j \in expiring : RowFree(j)
    /\ jobs' = [j \in Jobs |-> IF j \in expiring THEN MissedWrite(jobs[j]) ELSE jobs[j]]
    /\ expiring' = {}
    /\ UNCHANGED <<req, stuck, time>>

\* Mutated forms: every late run is marked again on each pass, never forced;
\* and a marked run is forced on the next pass, without the grace.
StuckMark_Always(j) == TRUE
StuckForce_NoGrace(j) == jobs[j].cancel_requested

\* The rows this pass decides to change: first mark, and after the grace force.
StuckMark(j) == ~jobs[j].cancel_requested
StuckForce(j) == jobs[j].cancel_requested /\ j \in graceOver

StuckIdle == stuck.mark = {} /\ stuck.force = {}

ExpireStuckRead ==
    /\ StuckIdle
    /\ LET late == {j \in overdue : jobs[j].status = "running"}
       IN stuck' = [mark |-> {j \in late : StuckMark(j)},
                    force |-> {j \in late : StuckForce(j)}]
    /\ stuck' # stuck
    /\ UNCHANGED <<jobs, req, expiring, time>>

\* Every row of the pass was loaded with status RUNNING.
ExpireStuckCommit ==
    /\ ~StuckIdle
    /\ \A j \in stuck.mark \cup stuck.force : RowFree(j)
    /\ LET seen(asked) == [status |-> "running", cancel_requested |-> asked]
       IN jobs' = [j \in Jobs |->
                     CASE j \in stuck.mark -> CancelRequestWrite(seen(FALSE), jobs[j])
                       [] j \in stuck.force -> CancelWrite(seen(TRUE), jobs[j])
                       [] OTHER -> jobs[j]]
    /\ stuck' = [mark |-> {}, force |-> {}]
    /\ UNCHANGED <<req, expiring, time>>

\* The scheduler process dies, or its database session does: what its passes
\* had loaded is gone, what they committed stays.
SchedulerRestart ==
    /\ expiring # {} \/ ~StuckIdle
    /\ expiring' = {}
    /\ stuck' = [mark |-> {}, force |-> {}]
    /\ UNCHANGED <<jobs, req, time>>

-----------------------------------------------------------------------------
(* Time.  Each instant is read only in the status named in its guard.      *)

DeadlinePasses(j) ==
    /\ jobs[j].status = "running"
    /\ j \notin overdue
    /\ overdue' = overdue \cup {j}
    /\ UNCHANGED <<jobs, req, expiring, stuck, graceOver, waitOver>>

GracePasses(j) ==
    /\ jobs[j].status = "running" /\ jobs[j].cancel_requested
    /\ j \notin graceOver
    /\ graceOver' = graceOver \cup {j}
    /\ UNCHANGED <<jobs, req, expiring, stuck, overdue, waitOver>>

WaitPasses(j) ==
    /\ jobs[j].status = "waiting_for_agent" /\ jobs[j].wait_expires
    /\ j \notin waitOver
    /\ waitOver' = waitOver \cup {j}
    /\ UNCHANGED <<jobs, req, expiring, stuck, overdue, graceOver>>

-----------------------------------------------------------------------------
RequestStep(r) ==
    \/ FailCommit(r) \/ LockAgentRow(r) \/ Claim(r)
    \/ StartCommit(r) \/ StartCommitBlocked(r)
    \/ CompleteCommit(r) \/ ReportCommit(r)
    \/ PollBlocked(r) \/ Rollback(r)

Next ==
    \/ \E j \in Jobs : Create(j) \/ DeadlinePasses(j) \/ GracePasses(j) \/ WaitPasses(j)
    \/ \E r \in Requests :
          \/ RequestStep(r)
          \/ \E w \in Workers : Poll(r, w) \/ \E j \in Jobs : Start(r, w, j)
          \/ \E j \in Jobs : Complete(r, j) \/ Report(r, j)
    \/ ExpireWaitingRead \/ ExpireWaitingCommit
    \/ ExpireStuckRead \/ ExpireStuckCommit
    \/ SchedulerRestart

\* Time passes, a transaction ends, and APScheduler runs each pass again and
\* again (every 30 s and 5 min).  A pass may be restarted and a claim rolled
\* back, but not every time.
Fairness ==
    /\ \A j \in Jobs : WF_vars(DeadlinePasses(j)) /\ WF_vars(GracePasses(j))
                       /\ WF_vars(WaitPasses(j))
    /\ \A r \in Requests : /\ WF_vars(RequestStep(r))
                            /\ SF_vars(StartCommit(r) \/ StartCommitBlocked(r))
    /\ WF_vars(ExpireWaitingRead) /\ SF_vars(ExpireWaitingCommit)
    /\ WF_vars(ExpireStuckRead) /\ SF_vars(ExpireStuckCommit)

Spec == Init /\ [][Next]_vars
FairSpec == Spec /\ Fairness
-----------------------------------------------------------------------------
(* Safety.                                                                  *)

\* docs/DEVELOPMENT.md: "Two concurrent starts for the same Agent identity
\* cannot both succeed".  At most one run of an agent is running, however many
\* processes present its identity: the job of lock_agent_row.
OneRunningPerAgent ==
    \A a \in Agents : \A i, j \in Jobs :
        /\ jobs[i].status = "running" /\ jobs[i].claimed_by = a
        /\ jobs[j].status = "running" /\ jobs[j].claimed_by = a
        => i = j

\* docs/DEVELOPMENT.md: "atomic claim".  While a start has claimed a run and
\* not yet committed, the run is still there to be taken and no other start,
\* of any agent or central scanner, has claimed it too.
ClaimIsExclusive ==
    \A r \in Requests : req[r].pc = "claimed" =>
        /\ Claimable(jobs[req[r].job], req[r].job \in LanJobs)
        /\ \A q \in Requests : req[q].pc = "claimed" /\ req[q].job = req[r].job => q = r

\* The claim is final: no later claim, failure, cancel or expiry,
\* decided on whatever stale row, hands a claimed run to another worker.
ClaimIsPermanent ==
    [][\A j \in Jobs : jobs[j].claimed_by # NoOne
                          => jobs'[j].claimed_by = jobs[j].claimed_by]_vars

\* A run that has ended in any way is never queued, offered or executed again.
NoResurrection ==
    [][\A j \in Jobs : jobs[j].status \in Terminal => jobs'[j].status \in Terminal]_vars

\* MASTER_PLAN.md, Sec H7: "Expiry first sets cancel_requested_at ... After
\* cancel grace the control plane force-marks cancelled".  A running run is
\* cancelled under its worker only once the request stood for the grace, or
\* because the worker itself reported the run over.
CancelIsAnnounced ==
    [][\A j \in Jobs :
          jobs[j].status = "running" /\ jobs'[j].status = "cancelled"
          => \/ jobs[j].cancel_requested /\ j \in graceOver
             \/ \E r \in Requests : /\ req[r].job = j
                                    /\ req[r].pc \in {"reporting", "reportingCancel"}
                                    /\ req'[r] = Idle]_vars

-----------------------------------------------------------------------------
(* The inductive invariant behind OneRunningPerAgent and the refinement.    *)

Present(j) == jobs[j].status # "absent"

\* Whatever a request or a pass has loaded exists.
LoadedIsPresent ==
    /\ \A r \in Requests :
          /\ req[r].pc \notin {"idle", "polling"} => req[r].job \in Jobs /\ Present(req[r].job)
          /\ \A j \in req[r].todo : Present(j)
    /\ \A j \in expiring \cup stuck.mark \cup stuck.force : Present(j)

\* claimed_by stays NULL until a claim ends the wait for it.
PendingIsUnclaimed ==
    \A j \in Jobs : jobs[j].status \in {"absent"} \cup Pending => jobs[j].claimed_by = NoOne

\* A start is made by a worker of the run's pool; only LAN starts lock.
StartersInPool ==
    \A r \in Requests :
        /\ req[r].pc \in {"starting", "locked", "claimed"} => req[r].who \in Pool(req[r].job)
        /\ req[r].pc = "locked" => req[r].job \in LanJobs

\* The agent's row lock, held from lock_agent_row to the commit ...
AgentLockIsExclusive ==
    \A q, r \in Requests :
        /\ req[q].pc \in {"locked", "claimed"} /\ req[r].pc \in {"locked", "claimed"}
        /\ req[q].who \in Agents /\ req[q].who = req[r].who
        => q = r

\* ... is why what was checked under it still holds at the commit.
ClaimerIsNotBusy ==
    \A r \in Requests : req[r].pc = "claimed" /\ req[r].who \in Agents => ~Busy(req[r].who)

Inv ==
    /\ TypeOK
    /\ LoadedIsPresent
    /\ PendingIsUnclaimed
    /\ StartersInPool
    /\ AgentLockIsExclusive
    /\ ClaimIsExclusive
    /\ ClaimerIsNotBusy
    /\ OneRunningPerAgent

-----------------------------------------------------------------------------
(* Refinement: dispatch implements RunClaims.                               *)

PhaseOf(status) ==
    CASE status = "absent" -> "absent"
      [] status \in Pending -> "pending"
      [] status = "running" -> "active"
      [] OTHER -> "over"

Claims == INSTANCE RunClaims WITH
              Runs <- Jobs, Takers <- Workers, Nobody <- NoOne,
              phase <- [j \in Jobs |-> PhaseOf(jobs[j].status)],
              taker <- [j \in Jobs |-> jobs[j].claimed_by]

\* Every commit of every handler is a submit, a take or an end of RunClaims,
\* or changes neither a phase nor a taker.
ImplementsRunClaims == Claims!Spec

-----------------------------------------------------------------------------
(* Liveness, under Fairness.                                                *)

\* A run that is being executed ends: whatever its worker does or fails to do,
\* expire_stuck_jobs requests its cancel and then forces it.  A run that leaves
\* "running" has ended, which is part of ImplementsRunClaims.
RunningEnds == \A j \in Jobs : []<>(jobs[j].status # "running")

\* MASTER_PLAN.md 10.6: a waiting run is claimed or failed, or it is missed when
\* its wait expires; the wait never outlasts expire_waiting_jobs.
WaitingEnds == \A j \in Jobs : []<>(jobs[j].status # "waiting_for_agent")

-----------------------------------------------------------------------------
(* What the documentation or an error text says, and the code does not keep. *)

\* MASTER_PLAN.md 10.6: if all eligible agents are unavailable a run waits, and
\* when the wait period expires it becomes missed or failed.
UnstartedRunsSettle ==
    \A j \in LanJobs : jobs[j].status \in Pending ~> jobs[j].status \notin Pending
=============================================================================
