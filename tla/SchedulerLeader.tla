-------------------------- MODULE SchedulerLeader --------------------------
(***************************************************************************)
(* Which scheduler process runs the passes (scheduler_process.py, the      *)
(* leader lock and the APScheduler calls of scheduler.py).  A process      *)
(* holds one database session; the advisory lock belongs to that session   *)
(* and dies with it, while the passes of the process run in sessions of    *)
(* their own and go on.                                                    *)
(*                                                                         *)
(* Compose restarts a process that ended (restart: unless-stopped) unless  *)
(* it was asked to stop.  A session may end for the process and live on in *)
(* PostgreSQL until that notices: its lock is then held by nobody alive.   *)
(* Bound: MaxTroubles lost sessions and crashes together.                  *)
(***************************************************************************)
EXTENDS Naturals

CONSTANTS SchedulerProcesses,
          Tasks,         \* the job ids of register_scheduler_jobs
          Free, Dead,    \* the lock is free; its session has no process any more
          MaxTroubles

ASSUME LeaderAssumption ==
    Free \notin SchedulerProcesses /\ Dead \notin SchedulerProcesses /\ Free # Dead /\ MaxTroubles \in Nat

VARIABLES
    process,     \* per process: where it is, whether _stop is set, its outcome is "lost"
    session,     \* per process: the session it opened with engine.connect()
    holder,      \* the session that has SCHEDULER_LEADER_LOCK_KEY
    inFlight,    \* per process: the jobs its worker threads are running
    troubles

leaderVars == <<process, session, holder, inFlight, troubles>>

Places == {"down", "waiting", "locked", "leading", "draining", "released"}

LeaderTypeOK ==
    /\ process \in [SchedulerProcesses -> [pc : Places, asked : BOOLEAN, lost : BOOLEAN]]
    /\ session \in [SchedulerProcesses -> {"none", "open", "lost"}]
    /\ holder \in SchedulerProcesses \cup {Free, Dead}
    /\ inFlight \in [SchedulerProcesses -> SUBSET Tasks]
    /\ troubles \in 0 .. MaxTroubles

InitLeaders ==
    /\ process = [p \in SchedulerProcesses |-> [pc |-> "down", asked |-> FALSE, lost |-> FALSE]]
    /\ session = [p \in SchedulerProcesses |-> "none"]
    /\ holder = Free
    /\ inFlight = [p \in SchedulerProcesses |-> {}]
    /\ troubles = 0

At(p, place) == process[p].pc = place
Goes(p, place) == process' = [process EXCEPT ![p].pc = place]

\* A session that ends gives the lock back.
GivesBack(p) == holder' = IF holder = p THEN Free ELSE holder

\* The process is gone, and with it the session it held.
Ends(p) ==
    /\ process' = [process EXCEPT ![p] = [pc |-> "down", asked |-> @.asked, lost |-> FALSE]]
    /\ session' = [session EXCEPT ![p] = "none"]

-----------------------------------------------------------------------------
(* run_scheduler_process *)

Launch(p) ==
    /\ At(p, "down") /\ ~process[p].asked
    /\ Goes(p, "waiting") /\ session' = [session EXCEPT ![p] = "open"]
    /\ UNCHANGED <<holder, inFlight, troubles>>

\* try_acquire_scheduler_leader_lock; while another session has the lock the
\* process sleeps and tries again.
TryLock(p) ==
    /\ At(p, "waiting") /\ session[p] = "open" /\ holder = Free
    /\ Goes(p, "locked") /\ holder' = p
    /\ UNCHANGED <<session, inFlight, troubles>>

\* Leaves before it leads: _stop is set, or a query raised.
GiveUp(p) ==
    /\ At(p, "waiting") \/ At(p, "locked")
    /\ process[p].asked \/ session[p] = "lost"
    /\ Ends(p) /\ GivesBack(p) /\ UNCHANGED <<inFlight, troubles>>

-----------------------------------------------------------------------------
(* hold_leadership *)

\* scheduler_backend_pid raises on a lost session; else start_scheduler.
Hold(p) ==
    /\ At(p, "locked") /\ session[p] = "open" /\ Goes(p, "leading")
    /\ UNCHANGED <<session, holder, inFlight, troubles>>

\* A job that still runs is not started again (max_instances).
JobStarts(p, t) ==
    /\ At(p, "leading") /\ t \notin inFlight[p]
    /\ inFlight' = [inFlight EXCEPT ![p] = @ \cup {t}]
    /\ UNCHANGED <<process, session, holder, troubles>>

JobEnds(p, t) ==
    /\ t \in inFlight[p]
    /\ inFlight' = [inFlight EXCEPT ![p] = @ \ {t}]
    /\ UNCHANGED <<process, session, holder, troubles>>

\* leader_session_is_current: the backend is the one that took the lock.
Current(p) == session[p] = "open"

\* The probe, every probe_seconds.  stop_scheduler starts no further job.
Probe(p) ==
    /\ At(p, "leading") /\ ~Current(p)
    /\ process' = [process EXCEPT ![p].pc = "draining", ![p].lost = TRUE]
    /\ UNCHANGED <<session, holder, inFlight, troubles>>

StopLeading(p) ==
    /\ At(p, "leading") /\ process[p].asked /\ Goes(p, "draining")
    /\ UNCHANGED <<session, holder, inFlight, troubles>>

\* Mutated form: shutdown(wait=False).
Quiet_NoWait(p) == TRUE

\* shutdown(wait=True) returns when the worker threads are done.
Quiet(p) == inFlight[p] = {}

\* After the wait: the lock is released unless the session was lost.  On a
\* session lost in the meantime the release raises, which is logged.
Release(p) ==
    /\ At(p, "draining") /\ Quiet(p) /\ Goes(p, "released")
    /\ IF process[p].lost \/ session[p] = "lost" THEN UNCHANGED holder ELSE GivesBack(p)
    /\ UNCHANGED <<session, inFlight, troubles>>

\* Returns, or SystemExit(1) after a loss; Compose starts it again.
Exit(p) ==
    /\ At(p, "released") /\ Ends(p) /\ GivesBack(p)
    /\ UNCHANGED <<inFlight, troubles>>

-----------------------------------------------------------------------------
(* What happens to a process *)

\* SIGTERM of docker compose stop: _request_stop.
AskStop(p) ==
    /\ ~process[p].asked /\ process' = [process EXCEPT ![p].asked = TRUE]
    /\ UNCHANGED <<session, holder, inFlight, troubles>>

Trouble == troubles < MaxTroubles /\ troubles' = troubles + 1

\* PostgreSQL drops the lock with its session, at once or when it notices.
Drops(p) == holder' \in IF holder = p THEN {Free, Dead} ELSE {holder}

\* A dropped connection, or a backend that was terminated.
SessionLost(p) ==
    /\ Trouble /\ session[p] = "open"
    /\ session' = [session EXCEPT ![p] = "lost"] /\ Drops(p)
    /\ UNCHANGED <<process, inFlight>>

Crash(p) ==
    /\ Trouble /\ ~At(p, "down") /\ Ends(p) /\ Drops(p)
    /\ inFlight' = [inFlight EXCEPT ![p] = {}]

\* TCP keepalive ends the session of a process that is gone.
NoticeDead ==
    /\ holder = Dead /\ holder' = Free
    /\ UNCHANGED <<process, session, inFlight, troubles>>

\* The main thread of a process.
Runs(p) ==
    \/ Launch(p) \/ TryLock(p) \/ GiveUp(p) \/ Hold(p)
    \/ Probe(p) \/ StopLeading(p) \/ Release(p) \/ Exit(p)

NextLeaders ==
    \/ \E p \in SchedulerProcesses :
        \/ Runs(p) \/ AskStop(p) \/ SessionLost(p) \/ Crash(p)
        \/ \E t \in Tasks : JobStarts(p, t) \/ JobEnds(p, t)
    \/ NoticeDead

LeaderSpec == InitLeaders /\ [][NextLeaders]_leaderVars

-----------------------------------------------------------------------------
\* Two processes run jobs at once only while one of them has lost its session
\* and is about to find out: a stand-by never starts beside a leader that is
\* merely finishing (docs/DEVELOPMENT.md, S3B: the lock is released only after
\* the workers are done).
OverlapIsFenced ==
    \A p, q \in SchedulerProcesses :
        p # q /\ inFlight[p] # {} /\ inFlight[q] # {} => "lost" \in {session[p], session[q]}

\* A process without its session leaves, whatever it was doing: the overlap
\* that the property above admits has an end.
LostLeaderStops == \A p \in SchedulerProcesses : []<>(session[p] # "lost")

Leads(p) == At(p, "leading") /\ session[p] = "open"

\* Some process leads, or all were asked to stop.
Led == (\E p \in SchedulerProcesses : Leads(p)) \/ \A p \in SchedulerProcesses : process[p].asked
=============================================================================
