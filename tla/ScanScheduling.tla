--------------------------- MODULE ScanScheduling ---------------------------
(***************************************************************************)
(* How runs of scan definitions come to be: staff requests that run, edit  *)
(* or archive a scan (routers/scans.py) against the scheduler's tick       *)
(* (scheduler.py, jobs.py), over the tables scans and scan_jobs.           *)
(*                                                                         *)
(* As in ScanJobs a handler loads rows in one step and commits in another. *)
(* The ORM writes the columns whose value differs from the LOADED one, so  *)
(* two edits of a row are merged column by column.                         *)
(***************************************************************************)
EXTENDS ScanTimes, Sequences

CONSTANTS Scans, Plans,
          Staff,        \* requests of staff that the API serves at once
          Schedulers,   \* processes that run tick_schedules
          NoScan,
          Touched,      \* bound: the scans that requests, and changes of targets, are about
          MaxTime, MaxRevision, MaxRuns   \* bounds: the clock, edits, manual runs

ASSUME SchedulingAssumption ==
    /\ Scans \subseteq Nat /\ NoScan \notin Scans /\ Touched \subseteq Scans
    /\ Plans # {}
    /\ \A p \in Plans : IsPlan(p)
    /\ MaxTime \in Nat /\ MaxRevision \in Nat /\ MaxRuns \in Nat

VARIABLES
    scans,      \* scans[s]: the committed definition s
    valid,      \* valid[s]: validate_definition accepts it for a run
    runs,       \* runs[s]: the committed runs of s, oldest first
    staff,      \* staff[r]: the request r is serving
    tick,       \* tick[k]: how far scheduler k is in tick_schedules
    now

vars == <<scans, valid, runs, staff, tick, now>>

Definition == [enabled : BOOLEAN, archived : BOOLEAN, plan : Plans,
               next : Time, revision : Nat]

\* due: scheduled_for, NULL for a manual run; over: its status is terminal.
Run == [due : Time, made : Nat, revision : Nat, over : BOOLEAN]

\* seen, new: the loaded definition and what the handler has made of it.
Nothing == [enabled |-> FALSE, archived |-> FALSE, plan |-> CHOOSE p \in Plans : TRUE,
            next |-> NoTime, revision |-> 0]
Idle == [pc |-> "idle", scan |-> NoScan, seen |-> Nothing, new |-> Nothing]

\* todo: the due scans not yet visited, in the order of the instants that
\* due_scans has read; loaded: their rows, until the first commit or rollback
\* of the tick expires them.
IdleTick == [pc |-> "idle", todo |-> {}, order |-> [s \in Scans |-> 0],
             loaded |-> [s \in Scans |-> Nothing],
             expired |-> TRUE, scan |-> NoScan, seen |-> Nothing, new |-> Nothing,
             insert |-> FALSE, made |-> 0]

StaffState == [pc : {"idle", "running", "editing"}, scan : Scans \cup {NoScan},
               seen : Definition, new : Definition]
TickState ==
    [pc : {"idle", "ticking", "queueing"}, todo : SUBSET Scans, order : [Scans -> Nat],
     loaded : [Scans -> Definition], expired : BOOLEAN,
     scan : Scans \cup {NoScan}, seen : Definition, new : Definition,
     insert : BOOLEAN, made : Nat]

TypeOK ==
    /\ scans \in [Scans -> Definition]
    /\ valid \in [Scans -> BOOLEAN]
    /\ runs \in [Scans -> Seq(Run)]
    /\ staff \in [Staff -> StaffState]
    /\ tick \in [Schedulers -> TickState]
    /\ now \in Nat

FirstRun(enabled, archived, plan) ==
    IF enabled /\ ~archived THEN NextOccurrence(plan, now) ELSE NoTime

\* create_scan has committed every definition at time 0.
Init ==
    /\ now = 0
    /\ scans \in [Scans -> {d \in [enabled : BOOLEAN, archived : {FALSE}, plan : Plans,
                                   next : {NextOccurrence(p, 0) : p \in Plans} \cup {NoTime},
                                   revision : {1}] :
                               d.next = FirstRun(d.enabled, FALSE, d.plan) /\ d.next # NoOccurrence}]
    /\ valid = [s \in Scans |-> TRUE]
    /\ runs = [s \in Scans |-> << >>]
    /\ staff = [r \in Staff |-> Idle]
    /\ tick = [k \in Schedulers |-> IdleTick]

-----------------------------------------------------------------------------
\* has_active_job
HasActive(s) == \E i \in DOMAIN runs[s] : ~runs[s][i].over

\* Mutated form: no unique key.
Occurred_NoKey(s, due) == FALSE

\* The unique key (scan_id, scheduled_for) is taken.
Occurred(s, due) == \E i \in DOMAIN runs[s] : runs[s][i].due = due

\* Mutated form: a column that did not change is written as NULL.
Column_Nulls(seen, new, row) == IF new = seen THEN NoTime ELSE new

\* The columns a flush writes are those the handler changed.
Column(seen, new, row) == IF new = seen THEN row ELSE new
Flush(seen, new, row) ==
    [enabled  |-> Column(seen.enabled, new.enabled, row.enabled),
     archived |-> Column(seen.archived, new.archived, row.archived),
     plan     |-> Column(seen.plan, new.plan, row.plan),
     next     |-> Column(seen.next, new.next, row.next),
     revision |-> Column(seen.revision, new.revision, row.revision)]

NewRun(s, due, made, definition) ==
    runs' = [runs EXCEPT ![s] = Append(@, [due |-> due, made |-> made,
                                           revision |-> definition.revision, over |-> FALSE])]

-----------------------------------------------------------------------------
(* Staff requests.                                                          *)

\* run_scan: the definition and then has_active_job are read ...
RunScan(r, s) ==
    /\ staff[r].pc = "idle"
    /\ ~scans[s].archived /\ valid[s]
    /\ ~HasActive(s)
    /\ Len(runs[s]) < MaxRuns
    /\ staff' = [staff EXCEPT ![r] = [Idle EXCEPT !.pc = "running", !.scan = s,
                                                  !.seen = scans[s]]]
    /\ UNCHANGED <<scans, valid, runs, tick, now>>

\* ... and the run is committed.
RunScanCommit(r) ==
    /\ staff[r].pc = "running"
    /\ NewRun(staff[r].scan, NoTime, now, staff[r].seen)
    /\ staff' = [staff EXCEPT ![r] = Idle]
    /\ UNCHANGED <<scans, valid, tick, now>>

Edit(r, s, new) ==
    /\ staff[r].pc = "idle"
    /\ scans[s].revision < MaxRevision
    /\ staff' = [staff EXCEPT ![r] = [pc |-> "editing", scan |-> s, seen |-> scans[s],
                   new |-> [new EXCEPT !.revision = scans[s].revision + 1]]]
    /\ UNCHANGED <<scans, valid, runs, tick, now>>

\* update_scan, also of an archived definition; a payload that does not
\* validate, or has no occurrence in sight, changes nothing.
UpdateScan(r, s, enabled, plan) ==
    LET next == FirstRun(enabled, scans[s].archived, plan) IN
    /\ next # NoOccurrence
    /\ Edit(r, s, [scans[s] EXCEPT !.enabled = enabled, !.plan = plan, !.next = next])

\* _archive_scan
ArchiveScan(r, s) ==
    /\ ~scans[s].archived
    /\ Edit(r, s, [scans[s] EXCEPT !.archived = TRUE, !.enabled = FALSE, !.next = NoTime])

EditCommit(r) ==
    /\ staff[r].pc = "editing"
    /\ scans' = [scans EXCEPT ![staff[r].scan] = Flush(staff[r].seen, staff[r].new, @)]
    /\ staff' = [staff EXCEPT ![r] = Idle]
    /\ UNCHANGED <<valid, runs, tick, now>>

\* An error, a lost connection or the death of the API process.
RequestAborts(r) ==
    /\ staff[r].pc # "idle"
    /\ staff' = [staff EXCEPT ![r] = Idle]
    /\ UNCHANGED <<scans, valid, runs, tick, now>>

-----------------------------------------------------------------------------
(* tick_schedules.                                                          *)

\* due_scans
IsDue(s) ==
    /\ scans[s].enabled /\ ~scans[s].archived
    /\ scans[s].next # NoTime /\ scans[s].next <= now

Tick(k) ==
    /\ tick[k].pc = "idle"
    /\ LET due == {s \in Scans : IsDue(s)}
       IN /\ due # {}
          /\ tick' = [tick EXCEPT ![k] = [IdleTick EXCEPT !.pc = "ticking", !.todo = due,
                             !.order = [s \in Scans |-> IF s \in due THEN scans[s].next ELSE 0],
                             !.expired = FALSE,
                             !.loaded = [s \in Scans |-> IF s \in due THEN scans[s] ELSE Nothing]]]
    /\ UNCHANGED <<scans, valid, runs, staff, now>>

\* The order of due_scans: by instant, then by id.
Precedes(s, at, u, on) == at < on \/ (at = on /\ s <= u)

\* The tick has come to s.
Visits(k, s) ==
    /\ tick[k].pc = "ticking" /\ s \in tick[k].todo
    /\ \A u \in tick[k].todo : Precedes(s, tick[k].order[s], u, tick[k].order[u])

\* The row queue_scheduled_run works on: loaded by due_scans, or, after a
\* commit of this tick, loaded again, and then perhaps not due any more.
RowOf(k, s) == IF tick[k].expired THEN scans[s] ELSE tick[k].loaded[s]

\* What is left of the tick once s is dealt with.
Rest(k, s) ==
    IF tick[k].todo = {s} THEN IdleTick
    ELSE [IdleTick EXCEPT !.pc = "ticking", !.todo = tick[k].todo \ {s},
                          !.order = [tick[k].order EXCEPT ![s] = 0]]

\* validate_definition(for_run=True), and an instant to run for
MayQueue(k, s) == ~HasActive(s) /\ valid[s] /\ ~RowOf(k, s).archived /\ RowOf(k, s).next # NoTime

\* s has an active run, or no longer validates (its site, a network, a target):
\* the tick goes on.
TickSkip(k, s) ==
    /\ Visits(k, s)
    /\ ~MayQueue(k, s)
    /\ tick' = [tick EXCEPT ![k] = Rest(k, s)]
    /\ UNCHANGED <<scans, valid, runs, staff, now>>

\* Mutated form: an occurrence that has run already is left due.
NextRun_Stays(s, row) ==
    IF Occurred(s, row.next) THEN row.next ELSE CatchUp(row.plan, row.next, now)

\* The next_run_at that queue_scheduled_run leaves behind.
NextRun(s, row) ==
    IF row.plan.kind = "manual" THEN NoTime ELSE CatchUp(row.plan, row.next, now)

\* queue_scheduled_run up to its flush.
TickQueue(k, s) ==
    /\ Visits(k, s) /\ MayQueue(k, s)
    /\ LET row == RowOf(k, s)
       IN /\ NextRun(s, row) # NoOccurrence
          /\ tick' = [tick EXCEPT
                ![k].pc = "queueing", ![k].scan = s, ![k].seen = row, ![k].made = now,
                ![k].new = [row EXCEPT !.next = NextRun(s, row)],
                ![k].insert = row.plan.kind # "manual" /\ ~Occurred(s, row.next)]
    /\ UNCHANGED <<scans, valid, runs, staff, now>>

\* next_future_after_catchup raises, which queue_scheduled_run does not catch:
\* the run is rolled back, and the whole tick ends.
TickRaises(k, s) ==
    /\ Visits(k, s) /\ MayQueue(k, s)
    /\ NextRun(s, RowOf(k, s)) = NoOccurrence
    /\ tick' = [tick EXCEPT ![k] = IdleTick]
    /\ UNCHANGED <<scans, valid, runs, staff, now>>

TickCommit(k) ==
    /\ tick[k].pc = "queueing"
    /\ LET s == tick[k].scan
       IN /\ IF tick[k].insert
             THEN /\ ~Occurred(s, tick[k].seen.next)
                  /\ NewRun(s, tick[k].seen.next, tick[k].made, tick[k].seen)
             ELSE UNCHANGED runs
          /\ scans' = [scans EXCEPT ![s] = Flush(tick[k].seen, tick[k].new, @)]
          /\ tick' = [tick EXCEPT ![k] = Rest(k, s)]
    /\ UNCHANGED <<valid, staff, now>>

\* The unique key was taken meanwhile: IntegrityError ends the whole tick.
TickConflict(k) ==
    /\ tick[k].pc = "queueing" /\ tick[k].insert
    /\ Occurred(tick[k].scan, tick[k].seen.next)
    /\ tick' = [tick EXCEPT ![k] = IdleTick]
    /\ UNCHANGED <<scans, valid, runs, staff, now>>

\* The scheduler process dies.
TickAborts(k) ==
    /\ tick[k].pc # "idle"
    /\ tick' = [tick EXCEPT ![k] = IdleTick]
    /\ UNCHANGED <<scans, valid, runs, staff, now>>

-----------------------------------------------------------------------------
\* A run ends, in any of the ways of ScanJobs.
RunEnds(s, i) ==
    /\ ~runs[s][i].over
    /\ runs' = [runs EXCEPT ![s][i].over = TRUE]
    /\ UNCHANGED <<scans, valid, staff, tick, now>>

\* The site, a network or a target of s is archived or restored.
TargetsChange(s) ==
    /\ valid' = [valid EXCEPT ![s] = ~@]
    /\ UNCHANGED <<scans, runs, staff, tick, now>>

TimePasses ==
    /\ now < MaxTime
    /\ now' = now + 1
    /\ UNCHANGED <<scans, valid, runs, staff, tick>>

Next ==
    \/ \E r \in Staff :
          \/ \E s \in Touched :
                \/ RunScan(r, s) \/ ArchiveScan(r, s)
                \/ \E enabled \in BOOLEAN, plan \in Plans : UpdateScan(r, s, enabled, plan)
          \/ RunScanCommit(r) \/ EditCommit(r) \/ RequestAborts(r)
    \/ \E k \in Schedulers :
          \/ Tick(k) \/ TickCommit(k) \/ TickConflict(k) \/ TickAborts(k)
          \/ \E s \in Scans : TickSkip(k, s) \/ TickQueue(k, s) \/ TickRaises(k, s)
    \/ \E s \in Touched : TargetsChange(s)
    \/ \E s \in Scans : \E i \in DOMAIN runs[s] : RunEnds(s, i)
    \/ TimePasses

\* Runs end (RunningEnds and WaitingEnds of ScanJobs, while agents are
\* available), requests end, and APScheduler ticks every 30 s.  The process may
\* die in a tick, but not at every tick before it has dealt with s or committed.
Fairness ==
    /\ \A s \in Scans : WF_vars(\E i \in DOMAIN runs[s] : RunEnds(s, i))
    /\ \A r \in Staff : WF_vars(RunScanCommit(r) \/ EditCommit(r) \/ RequestAborts(r))
    /\ \A k \in Schedulers :
          /\ WF_vars(Tick(k))
          /\ \A s \in Scans : SF_vars(TickSkip(k, s) \/ TickQueue(k, s) \/ TickRaises(k, s))
          /\ SF_vars(TickCommit(k)) /\ WF_vars(TickConflict(k))

Spec == Init /\ [][Next]_vars
FairSpec == Spec /\ Fairness

-----------------------------------------------------------------------------
(* Properties.                                                              *)

\* models.py, uq_scan_jobs_scan_id_scheduled_for: an occurrence of a schedule
\* is run once, also when an old and a new scheduler tick at the same time or a
\* late edit makes an old instant due again.
OccurrenceRunsOnce ==
    \A s \in Scans : \A i, j \in DOMAIN runs[s] :
        runs[s][i].due = runs[s][j].due /\ runs[s][i].due # NoTime => i = j

\* scan_schedule.py: "downtime creates at most one catch-up run".  Of the
\* occurrences that pass while nothing ticks one is run: the next run of the
\* same revision is for an occurrence that was still to come.  This takes one
\* scheduler and one edit at a time: a stale edit may bring an instant back.
CatchUpIsSingle ==
    \A s \in Scans : \A i, j \in DOMAIN runs[s] :
        /\ i < j
        /\ runs[s][i].due # NoTime /\ runs[s][j].due # NoTime
        /\ runs[s][i].revision = runs[s][j].revision
        => runs[s][i].made < runs[s][j].due

\* scan_schedule.py, next_future_after_catchup: the loop stops at the first
\* occurrence after now, for every kind of plan and every missed instant.
CatchUpIsTheLoop ==
    \A p \in Plans, due \in 0..MaxTime :
        p.kind # "manual" => CatchUpLoop(p, due, now) = CatchUp(p, due, now)

\* A scan that is due, or one that every tick visits before it, has no
\* occurrence in sight: the tick ends there.
Blocked(s) ==
    \E u \in Scans :
        /\ IsDue(u) /\ valid[u] /\ NextRun(u, scans[u]) = NoOccurrence
        /\ Precedes(u, scans[u].next, s, scans[s].next)

\* An enabled scan does not stay due, whatever edits, manual runs, dying ticks
\* and scans that are due before it come in between: its occurrence is run or
\* passed over, unless it does not validate or a ScheduleError ends each tick.
DueIsServed == \A s \in Scans : IsDue(s) ~> (~IsDue(s) \/ ~valid[s] \/ Blocked(s))

=============================================================================
