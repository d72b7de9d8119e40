------------------------------ MODULE MCPasses ------------------------------
(***************************************************************************)
(* The scheduler processes and the passes they run.  The leader lock, the  *)
(* ends of runs, the aging of assets and the catch-up of labels share no   *)
(* state: a behaviour is of one of them.                                   *)
(***************************************************************************)
EXTENDS ScanJobs, SchedulerLeader, AssetLifecycle, DiscoverySweep

CONSTANT Parts

VARIABLE part    \* the pass that this behaviour is of

passVars == <<part, vars, leaderVars, agingVars, sweepVars>>

InitPasses ==
    /\ part \in Parts
    /\ Init /\ InitLeaders /\ InitAging /\ InitSweep
    /\ part # "sweep" => \A d, e \in DeviceIds :
                           devices[d] = devices[e] /\ devices[d].label = devices[d].look
                           /\ devices[d].look \notin Unlabelled

\* A step of one part leaves the others alone.
Others(p) ==
    /\ part = p /\ UNCHANGED part
    /\ IF p = "runs" THEN TRUE ELSE UNCHANGED vars
    /\ IF p = "leader" THEN TRUE ELSE UNCHANGED leaderVars
    /\ IF p = "aging" THEN TRUE ELSE UNCHANGED agingVars
    /\ IF p = "sweep" THEN TRUE ELSE UNCHANGED sweepVars

NextPass ==
    \/ part = "runs" /\ Next /\ Others("runs")
    \/ part = "leader" /\ NextLeaders /\ Others("leader")
    \/ part = "aging" /\ NextAging /\ Others("aging")
    \/ part = "sweep" /\ NextSweep /\ Others("sweep")

Of(p, step) == part = p /\ step /\ Others(p)

\* Fairness of ScanJobs, which says why.
RunFairness ==
    /\ \A j \in Jobs : /\ WF_passVars(Of("runs", DeadlinePasses(j)))
                       /\ WF_passVars(Of("runs", GracePasses(j)))
                       /\ WF_passVars(Of("runs", WaitPasses(j)))
    /\ \A r \in Requests : /\ WF_passVars(Of("runs", RequestStep(r)))
                           /\ SF_passVars(Of("runs", StartCommit(r) \/ StartCommitBlocked(r)))
    /\ WF_passVars(Of("runs", ExpireStuckRead)) /\ SF_passVars(Of("runs", ExpireStuckCommit))

\* The main thread of a scheduler process is not suspended for ever, its jobs
\* end (each opens and closes its session in bounded work), and PostgreSQL
\* notices a dead session.
LeaderFairness ==
    /\ \A p \in SchedulerProcesses :
          /\ WF_passVars(Of("leader", Runs(p)))
          /\ \A t \in Tasks : WF_passVars(Of("leader", JobEnds(p, t)))
    /\ WF_passVars(Of("leader", NoticeDead))

\* Each pass comes round (every 30 s, 30 min or 5 min); its commit may fail, but
\* not always; requests end.  mark_stale_devices is one statement.
PassFairness ==
    /\ WF_passVars(Of("runs", ExpireWaitingRead) \/ Of("aging", InactiveLoad) \/ Of("sweep", SweepLoad))
    /\ SF_passVars(Of("runs", ExpireWaitingCommit) \/ Of("aging", InactiveCommit)
                      \/ Of("sweep", SweepCommit))
    /\ WF_passVars(Of("aging", MarkStale))
    /\ \A i \in Ingests : WF_passVars(Of("sweep", IngestEnds(i)))

PassSpec ==
    /\ InitPasses /\ [][NextPass]_passVars
    /\ RunFairness /\ LeaderFairness /\ PassFairness

-----------------------------------------------------------------------------
\* scheduler_process.py, lifecycle.py and refresh_discovery_metadata: what the
\* passes are for gets done, and nothing is overwritten on the way.  After
\* every loss, crash and stop a process leads again, as long as one was not
\* asked to stop, and a leader that lost its session leaves.  What is not seen
\* any more becomes inactive and stale.  Labels are written from current rows,
\* and every device ends with the label of what it looks like.
PassesDoTheirWork ==
    /\ []<>(part = "leader" => Led) /\ LostLeaderStops
    /\ UnseenGoesInactive /\ UnseenGoesStale
    /\ SweepReadsCurrent /\ LabelsSettle
=============================================================================
