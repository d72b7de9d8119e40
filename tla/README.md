# nuclei-dashboard: TLA+ specifications

nuclei-dashboard is a multi-tenant vulnerability scanner: a FastAPI backend over
PostgreSQL (`backend/app`), a scheduler process of the same code base, LAN agents
and central scanners that execute scans (`scan_runtime`), and a web frontend.
This directory models what the program decides and keeps, from the queueing of a
run to the priority of a finding, checks it with TLC and proves the main safety
properties with TLAPS.

Run `tlc -config <name>.cfg <MC module>` for a check and `tlapm <module>.tla` for
the proofs. `PROJECT.json` ties every definition to the lines it models.

## 1. The system

Paths are relative to `src/backend/app` unless they start with `scan_runtime/`.

| Component | State | Operations | Correct when |
|---|---|---|---|
| Job dispatch and the run life cycle (`jobs`, `job_control`, `scan_dispatch`, `scan_execution`, `routers/agent_api`, `routers/scanner_api`) | `scan_jobs` rows: status, claim, deadline, cancel request, wait expiry | create, poll, start (lock, claim), complete, report, fail, cancel | a run is taken once, an agent runs one at a time, ended runs stay ended, every run ends |
| Scan scheduling (`scan_schedule`, `scan_definitions`, `routers/scans`, `jobs`, `scheduler`) | `scans` rows: plan, `next_run_at`, revision, enabled, archived | create, update, archive, run, tick | an occurrence is run once, downtime gives one catch-up run, a due scan is served |
| Scheduler passes (`scheduler`, `lifecycle`, `inventory`) | what a pass has loaded, the cursor of the label sweep | expire waiting and stuck runs, tick, aging, labels, treatments, artifacts, alerts, priorities | each pass tolerates a restart and a concurrent request, and gets its work done |
| Scheduler leadership (`scheduler_process`) | PostgreSQL advisory lock, leader session | acquire, probe, lose, release, drain, restart | jobs of two leaders overlap only until a lost session is noticed, and somebody leads again |
| Agent worker and spool (`scan_runtime/agent_main`, `job_finish`, `spool`, `api_client`) | three threads, their slot and events; chunks, raw output and `pipeline.done` on disk | poll, start, scan, upload, acknowledge, complete, resume, abandon, heartbeat | no result is lost or counted twice over crashes and lost answers; work taken is worked |
| Central scanner worker (`scan_runtime/scanner_main`) | one loop, a watcher, the same spool | the same, from a list of runs | the same |
| Scan pipeline stages (`scan_runtime/runner`) | device index, spool, staging | discovery, ports, fingerprints, Nuclei groups, declaration | what is declared covered was scanned |
| Finding life cycle (`finding_lifecycle`, `finding_ingest`) | findings, evidence, evaluations, detector mappings | ingest, finalize, resolve, reopen, merge, move a mapping | resolved only after consecutive clean runs; evidence is where the mapping says |
| Assets and inventory (`assets`, `correlation`, `scan_ingest`, `inventory`, `identity_ops`) | assets, identifiers, observations, decisions | correlate, link, create, merge, split, reassociate, correct | an ambiguous report is not linked; what an asset shows is what it observed |
| Events and alerts (`events`, `alert_engine`, `routers/alerts`) | event queue, routes, alerts, deliveries with leases | route, deduplicate, claim, send, retry, give up | each event counts once, sends are bounded |
| Agent enrollment (`routers/agents`, `routers/agent_api`, `agent_challenges`, `auth_throttle`) | agent row, challenges, throttle | enroll, approve, revoke, challenge, token, prune | a challenge is used once, a window gives a bounded number |
| Policies (`policy`, `routers/policies`) | rules by scope and priority, the asset they handle | create, change, enable, archive, apply, reconcile | the strongest rule wins and handling settles |
| Treatments (`treatments`, `routers/treatments`) | treatments, controls, the projection on the finding | create, approve, revoke, expire, merge | one in force, and the finding shows it |
| Vulnerability intelligence (`intel/`) | NVD, EPSS and KEV rows, stored priorities | refresh, age pass, the edits that change a factor | the stored priority is that of the factors |
| Raw artifacts (`raw_artifacts`) | files and rows | upload, declare, complete, retain | a row has its bytes, a done run its evidence |
| Compliance (`compliance`) | frameworks, controls, references | import, map, unmap, archive, merge | a merge loses no mapping |
| Tenants, sites, networks, exclusions and access (`locality`, `routers/sites`, `networks`, `agents`, `exclusions`, `scan_exclusions`, `scan_security`, `scan_snapshot`, `wan_targets`, `access`) | sites, networks, placed agents; exclusions, snapshots | place, authorize, prefer, archive; exclude, resolve, start, build the payload | a preference never blocks dispatch, nothing forbidden is scanned |
| Staff login and users (`routers/auth`, `routers/users`, `auth_throttle`) | user, grants, throttles | login, edit, expire | guesses of a password are bounded |
| Reporting and history, migration, frontend | none of their own | query, render | not modelled, see section 6 |

### How the parts interact

All parts meet in the database. An API request is a transaction of its own
(`database.get_db`), served by a thread pool and possibly by several backend
processes. PostgreSQL runs at its default READ COMMITTED, and rows are loaded
without a lock except where the code says `with_for_update`. The scheduler
process runs each pass in an APScheduler thread with its own session. Agents and
central scanners only ever call the API, and repeat what was not answered.

### What is hard

* **Decide, then write.** A handler decides from the row it loaded and writes by
  id at its commit; another transaction commits in between. Most hazards of
  `PROJECT.json` are of this kind.
* **The ORM's writes.** SQLAlchemy writes the columns that differ from the loaded
  ones, so two edits are merged column by column, and a commit expires every
  loaded row, so a loop over rows reads some of them twice.
* **Time.** Deadlines, graces, waits and schedules pass while nobody looks.
* **Failure.** A worker, the backend or the scheduler dies; an answer is lost.

## 2. Modules

| Module | Models |
|---|---|
| `ScanJobRow`, `ScanJobs` | one row of `scan_jobs` and every write made to it; the requests and passes that write these rows |
| `RunClaims` | abstract specification of dispatch, which `ScanJobs` implements |
| `ScanTimes`, `ScanScheduling` | `scan_schedule.py` over a discrete clock; staff requests against `tick_schedules` |
| `ResultUpload` | the spool of a worker, its calls and the handlers that take results |
| `AgentWorker`, `ScannerWorker` | the threads of the LAN agent and of the central scanner around `ResultUpload` |
| `ScanPipeline` | one run of the stages of a worker |
| `RunTargets` | which addresses a run may scan, from the definition to the payload |
| `FindingLifecycle`, `DetectorCatalog` | findings of one vulnerability over runs; which vulnerability a report is about |
| `AssetInventory`, `Correlation` | assets, observations and what staff do to them; the match of a report to an asset |
| `FindingPriority` | feeds, factors and stored priorities |
| `AlertOutbox`, `Policies`, `Treatments`, `RawArtifacts`, `Compliance` | the services that act on the results |
| `AgentEnrollment`, `StaffAccess`, `Locality` | who may act, and where |
| `SchedulerLeader` | which scheduler process runs the passes |
| `AssetLifecycle`, `DiscoverySweep` | the aging and return of an asset and its device; the catch-up of device labels |
| `MCScanJobs`, `MCScanScheduling`, `MCPasses`, `MCResults`, `MCServices` | instances for TLC |
| `ScanJobsProofs` | theorems about `ScanJobs` and its refinement of `RunClaims` |
| `SchedulerProofs` | theorems about `ScanTimes`, `ScanScheduling` and `SchedulerLeader` |
| `ResultsProofs` | theorems about `MCResults`: `ResultUpload` with `AgentWorker` and `ScannerWorker` |
| `ScopeProofs` | theorems about `AgentEnrollment`, `StaffAccess`, `Locality`, `RunTargets`, `ScanPipeline`, `RawArtifacts` |
| `ServicesProofs` | theorems about `Treatments`, `AlertOutbox`, `Policies`, `Compliance` |
| `FindingsProofs` | theorems about `DetectorCatalog`, `FindingLifecycle`, `AssetInventory`, `Correlation`, `FindingPriority` |
| `MCServicesProofs` | that the theorems about single services hold of their composition |
| `OrderLemmas` | induction over sets of naturals and over finite sets, which the others cite |

`MCResults` composes the two workers with the handlers of central. `MCServices`
extends the fifteen modules about single services. These share no state with each
other at the grain of their modules, so a behaviour is of one of them (`part`) and
the rest of the state stands still; a run names the services it looks at. `MCPasses`
does the same for the scheduler: the ends of runs (`ScanJobs`), the leadership, the
aging and the sweep.

The modules meet where one replaces another by a free choice: runs end in
`ScanScheduling` by `RunEnds`, which stands for all of `ScanJobs`, and are created
in `ScanJobs` by `Create`, which stands for all of `ScanScheduling`; the pipeline is
the one step `Scan` of `ResultUpload`; the pool of eligible agents of `Locality` and
the checks of `RunTargets` are choices of `ScanJobs.Start`.

### ScanJobRow and ScanJobs

`jobs[j]` is the committed row of run `j`. The timestamp columns
`cancel_requested_at` and `wait_expires_at` are Booleans (NULL or not); which
instants have passed is kept in `overdue`, `graceOver` and `waitOver`, each of
which grows by an action of its own. A write is an operator over two rows:
`seen`, which the handler loaded and decides from, and `row`, the committed row
it writes to. `transition_job_to_failed`, for instance, is `FailWrite(seen, row)`:
the test is on `seen`, the column is set in `row`.

`req[r]` is one request the backend serves. `pc` says how far it is:

| pc | In the code |
|---|---|
| polling, failing | `poll_jobs` visiting its list; `fail_job` about to commit |
| starting, locked, claimed | `start_job` after its checks; after `lock_agent_row`; after the claiming UPDATE |
| completing | `complete_job` with `ok`, past `require_owned_run_for_persist` |
| reporting, reportingCancel | `complete_job` without `ok`; its error text does or does not speak of a cancel |

A transaction that holds a row lock keeps others from committing a write to the
row: `RowFree(j)` guards the commits (the claiming UPDATE holds the run's row),
`AgentRowFree(a)` guards `LockAgentRow`. `Rollback` ends a request at any point:
an error answer, an exception or a dead backend. `SchedulerRestart` does so for
the passes.

The checks that read other tables (is the agent approved, healthy, in the run's
site; are targets excluded; is the payload buildable) are chosen freely, since
staff and heartbeats may change those rows at any time. Which of several due runs
a poll returns is free as well. What is left out of `complete_job` is what it
does to findings; the uploads do not write the status.

### ScanTimes and ScanScheduling

`NextOccurrence` knows three kinds of plan: manual, the legacy interval that
counts from the last instant, and a clock schedule that names its instants. Daily,
weekly, monthly and cron plans are of the third kind: all return the first of
their instants strictly after the given one, and differ in calendar data. A cron
expression is searched for 366 days (`Horizon`); where it names nothing in that time
`_next_cron` raises `ScheduleError`, which is the value `NoOccurrence`.
`CatchUpLoop` is `next_future_after_catchup` as the code writes it, `CatchUp` is
what it computes, the error included; a run checks that they are equal, it is proved
for every plan and clock, and the actions use the second.

`scans[s]` is the committed definition and `runs[s]` the sequence of its runs, each
with the occurrence it is for (`due`, the column `scheduled_for`), the instant it
was `made`, the definition's `revision` and whether it is `over`. A request of staff
(`staff[r]`) or a scheduler (`tick[k]`) loads in one step and commits in another:

* `RunScan` / `RunScanCommit`: the check of `has_active_job`, then the insert.
* `UpdateScan`, `ArchiveScan` / `EditCommit`: `Flush` writes the changed columns.
* `Tick` loads the due rows in the order of `next_run_at` and `id`. `TickQueue` is
  `queue_scheduled_run` up to its flush, `TickCommit` the commit, `TickConflict` the
  violated unique key, which ends the tick, `TickSkip` an active run or a definition
  that does not validate now, `TickRaises` the `ScheduleError`, which nothing in
  `queue_scheduled_run` or the loop of the tick catches: it ends the tick for the
  scans behind it, too. `RowOf` is the loaded row, or the row as it is now once the
  tick has committed or rolled back. `TickAborts` is the death of the scheduler.

`valid[s]` says whether `validate_definition` accepts the definition for a run: its
site, networks, targets and snapshot are in order. `TargetsChange` turns it over at any
time, and it may stay false for ever, as after the site was archived. `enabled` also
stands for `needs_review` being unset, which only migrated definitions have set.

### SchedulerLeader, AssetLifecycle and DiscoverySweep

A scheduler `process` waits for the advisory lock, starts its jobs (`inFlight`), probes
its `session`, drains and leaves (`scheduler_process.py`). `holder` is the session
PostgreSQL gave the lock to. A session may be lost while the jobs, which have sessions
of their own, go on; and PostgreSQL may not notice at once that a session has no
process any more (`Dead`). What overlapping jobs do to the data is in `ScanScheduling`
(two schedulers) and `AlertOutbox` (two job instances).

`AssetLifecycle` follows one asset and one device over days: reports and the inactivity
pass load the row and write changed columns later, `MarkStale` is one UPDATE, and staff
edit states and move observations (which are left is a free choice). In `DiscoverySweep` a page is the rows a sweep
locked (`FOR UPDATE SKIP LOCKED`), reports hold the row from flush to commit, and
`cursor` lives in the memory of the scheduler. The features of a device are one value
(`look`), and the label is what they were when it was inferred.

### ResultUpload, AgentWorker and ScannerWorker

`central[j]` is the row of a run with the parts of its results (devices, findings,
coverage, raw output, provenance) that central holds; `disk[j]` is the directory of
its spool: the chunks ready to be sent, the raw files, and whether `pipeline.done`
was written. `wk` is the memory of the thread that executes a run, and is lost in a
crash; `wk.pc` follows `finish_pipeline_run` and the except clauses around it.

A call is *answered*, or *fails* in one of three ways: central refuses it; central
handles it and the answer is lost; or it times out and waits in `flight`, from where
`Deliver` may hand it to central at any later time, or never. `_request` repeats
nothing, and only `_upload_artifact` repeats a transient failure at once; otherwise the
thread repeats a call after a restart or at the next poll.

The agent's control loop (`ctl`), worker thread (`wk`) and heartbeat thread (`beat`)
share `slot`: `_work` with its resume flag, and the events `_idle` and `_work_ready`.
`_set_work` writes these one after the other, and so do `AssignWork` / `PublishWork`
and `EmptySlot` / `SetIdle` / `ClearReady`. A heartbeat carries the run of the slot at
the time it is sent and sets the cancel event of the run that is worked when it
returns. The scanner has one loop (`loop`) over the list it got and a watcher. An
agent and a scanner share no run, so a behaviour shows one of them (`lan`).

### ScanPipeline and RunTargets

`ScanPipeline` runs the stages in order over `pipe`, the device index: which hosts
were found, get ports, are given to Nuclei, ended well. `cancelled` may become true
at any time, and each command may fail, be cancelled or yield malformed output.
`output` is what was appended to the spool and staged. Hosts are explicit targets, a
group each, or members of one CIDR.

In `RunTargets` ranges are sets of addresses. Queueing takes a snapshot, the start
checks it, the claim commits, the payload is computed after that, and a resume
computes none; exclusions and DNS answers change in between.

### Findings, assets and priorities

`FindingLifecycle`: a completion reads all rows it will change (`loaded`) and writes
the changed columns in one commit; nothing locks `asset_findings`. A merge joins the
findings, evidence and evaluations of two assets. `DetectorCatalog` has many
detectors, CVEs and assets. A call of `ingest_findings` is open from `StartIngest` to
`CommitIngest` or `FailIngest`, and handles its reports one after the other
(`IngestReport`): one that names a second CVE moves the mapping and repartitions all
evidence. `ingest.index` is the `FindingRunIndex` of the call, which holds finding rows
by the asset and vulnerability they had when it met them. It follows a row that a
move renames, under the old key, and keeps one that a move deleted. Evidence that an
entry of the first kind sends to the renamed finding is marked `astray`; evidence for
the second refers to a deleted row, and the call fails.

`AssetInventory` keeps observations with the identifier each carries; evidence that
only decides between assets is a free choice there, and `Correlation` has the scores:
a candidate is the contributions `score_candidate` sums, and `Decide` is the ranking
with its thresholds and the ambiguity margin.

`FindingPriority` has the sources' rows, the factors and the stored result. A session
computes from what it reads and commits later: the feeds, edits of the asset,
ingestions, the renaming of a finding by a moved mapping, the merge of its asset into
another, treatments and the age pass. `drifted` records, per finding, what its stored
priority may not have followed since it was last computed: it grew older, the commits
of two sessions crossed, its asset was tagged, or the change was one the code does not
recalculate it after (`Overlooked`).

### The other services

`AlertOutbox`: an event and its queue row are committed with the fact; a router
evaluates and commits one route; a sender commits a claim with a lease, sends
outside a transaction and writes the outcome later, whoever holds the lease then.
`Policies` has rules as rows, the loop that picks one, and the handling of an asset by a
report, an edit or the reconcile pass. The rules are applied in a locality: of the
scan for a report (`ReportLocality`), of the asset for the pass and for a tag
(`OwnLocality`, which is that of the last observation if it was on the asset's site), of
the new site for a move. These differ for an asset that a strong identifier links
to a report from another site. `Treatments` locks the finding's row, so a request is
one step. In `RawArtifacts` an upload writes a temporary file, moves it, commits the
row; retention deletes bytes, then commits. `Compliance` leaves concurrency to the
unique index and the foreign key, which are guards of the commits. `AgentEnrollment`
and `StaffAccess` read rows unlocked and write columns, but lock challenges and
throttles; only `prune_expired_challenges` selects challenges without a lock
(`SelectExpired`) and deletes what it selected at the commit of `CreateChallenge`, even
a row that was consumed in between by a request whose clock was read in time. `Locality` is one step per request of an admin.

Every module's header names its own bounds (one throttle for the two that are counted
alike, one account, one network and so on).

## 3. Runs

| Run | Instance | Distinct states | Shows |
|---|---|---|---|
| claims | 2 LAN runs, 1 agent, 2 requests | 908,657 | `OneRunningPerAgent`, `NoResurrection`, `ImplementsRunClaims` |
| pool | 1 LAN and 1 WAN run, 2 agents, 2 requests | 349,122 | `ClaimIsPermanent`, `CancelIsAnnounced` |
| live | 1 LAN run, 1 agent, 2 requests; 2 scheduler processes, 2 jobs; 1 asset, clock to 4; 2 devices; fair | 74,674 | `RunningEnds`, `WaitingEnds`, `OverlapIsFenced`, `PassesDoTheirWork` |
| stranded | 1 LAN run, no request, fair | violation | `UnstartedRunsSettle` does not hold |
| schedule | 2 scans, 1 of them edited, 1 request, 1 scheduler, clock to 2, fair | 152,456 | `CatchUpIsSingle`, `DueIsServed` |
| overlap | 1 scan, 1 request, 2 schedulers, clock to 3 | 461,096 | `OccurrenceRunsOnce`, `CatchUpIsTheLoop` |
| results | agent or scanner, 2 runs, faults, a crash, fair | 1,095,956 | `DoneIsComplete`, `CountedOnce`, `DeletedIsStored`, `AcceptedIsWorked`, `FinishedIsCleared` |
| retained | the same, 1 run | violation | `RawIsRetained` does not hold |
| evidence | findings, catalogue, priorities, policies | 1,502,863 | `ResolvedWasClean`, `CleanHasNoEvidence`, `EvidenceFollowsMapping`, `FindingIsSupported`, `PriorityFollowsFactors`, `WinnerIsStrongest`, `HandlingSettles`, `TypeOK` |
| reopened | findings, overlapping runs | violation | `ResolvedWasClean` does not hold then |
| tagged | priorities | violation | `PriorityFollowsTags` does not hold |
| operations | the eleven other services | 1,736,885 | `AlertCountsItsEvents`, `SendsAreBounded`, `ActiveIsProjected`, `StoredHasItsBytes`, `DoneHasItsEvidence`, `ChallengesAreLimited`, `CoverageWasScanned`, `GuessesAreBounded`, `PreferenceIsEligible`, `ForbiddenIsNeverScanned`, `ProjectionFollowsObservations`, `DecisionsResolve`, `LinkIsUnrivalled`, `MappingsSurviveMerge` |

Run `evidence` checks the types of its services; those of all modules but
`AssetLifecycle` and `DiscoverySweep` are proved. `claims` and `pool` use the symmetry of agents, requests and LAN
runs, none of which an action or a property names; the runs with liveness
properties use no symmetry.

**Bounds.** The conflicts of `ScanJobs` are between two transactions over one run
or one agent, with the passes as further writers, so two requests and two runs
show them all: two starts of one run, of two runs by one agent, a stale failure
against a start, a completion against either pass. Requests are served again and
again, so nothing bounds the number of steps; a run is created once. In
`ScanScheduling`, `MaxTime` bounds the clock, `MaxRevision` the edits and `MaxRuns`
the number of runs at which no further manual run is asked for; `Touched` are the
scans that staff and their targets' changes are about. With two scans one may be due
before the other, be edited, not validate, hold an active run or raise, while the
other waits behind it; the scans that are not touched meet only ticks, runs and the
clock. Time 2 lets a plan of every instant miss one occurrence and be caught up
over it, and lets `Rare`, two instants and then none within the `Horizon` of 3, raise when the
second is reached late or in time. Time 3 and two schedulers let a tick of an old
leader straddle two ticks and an edit of the new, and there all four kinds of plan are edited
into one another.

In the rest of `MCPasses`, two troubles are a lost session and a crash, or one for each
of two processes. Four days let an asset outlast the longer of two thresholds; one
report in hand is enough for a load before and a commit after a pass. Two devices in
pages of one give a walk that skips a locked row, one that ends short and one that
begins anew; two requests can change one device or lock two, and each may be restarted.

In `MCResults`, `MaxFaults` counts calls that fail although central runs, `MaxCrashes`
restarts of the worker and `MaxBeats` heartbeats that name a run; `MaxLoad` bounds
queued runs, faults and crashes together, so that two runs meet a fault or a crash and
one run meets both: a lost answer, the crash after it, the resume and the late arrival
of the first call. A second run matters because the recovery of a spool deletes the
directories of the others, and because of the hand-over of the work slot. `Findings`
is 2 so that a count made twice differs from one made once.

In `MCServices`, two of each kind that can conflict (requests, routers, uploads,
sites, agents, rules, treatments, sessions) and three where a history is needed: three
runs give a detection between two clean scans with a threshold of two, three assets a
chain of merges, three candidates a rival behind the rival; the corroborations 15, 28
and 38 let such a rival score below the review threshold of 40, where it is overlooked. `Overlap = FALSE` says that
runs on the same asset do not overlap in time, as when one agent, which runs one at a
time (`OneRunningPerAgent`), serves a network; run `reopened` takes this away. The priority
model has one asset with one finding per vulnerability, and values on either side of
a band; a finding is renamed to a new vulnerability (`Renamings`), its asset merged into a
heavier one (`MergeTargets`), and after a change that nothing recalculates only a
recalculation follows. Two vulnerabilities of a detector, two detectors of a
vulnerability and two assets are what the catalogue needs for every way in which a mapping
moves; `MaxEvidence` of four rows lets a call remember a finding, rename it for another
detector and meet it again. Calls do not overlap there (see section 4). Two
rules, of a site and of a network in it, and an asset on the site, outside all, or seen
elsewhere than it is placed give every pair of localities that differ. The
prune's limit of 200 rows is left out, and so are rules about host names and ports.
The sessions of `FindingPriority` are symmetric: no action or property names one.

Deadlock checking is off in all runs: with all runs ended, the clock or a counter at
its bound, or a pipeline finished, the modelled system has nothing left to do.

**Fairness.** In `ScanJobs`, time passes, a request ends, and APScheduler starts each
pass again (`register_scheduler_jobs`: every 30 s and every 5 minutes). A pass may
be restarted and its commit delayed by row locks any number of times, but not
always, hence strong fairness of the commits of the passes; likewise for the commit of
a claim. `RunningEnds` and `WaitingEnds` say that no run stays in its state for ever;
that it leaves `running` only by ending is part of `ImplementsRunClaims`.
Nothing is assumed of workers: no fairness of `Poll`, `Start`, `Complete` or
`Report`, and a commit competes with a rollback. In `ScanScheduling`, runs end (that
is `RunningEnds` and `WaitingEnds`, while agents are available; run `stranded` says
what happens otherwise), requests end, and the scheduler ticks. A tick may die, but not each time
before it has dealt with the scan it is at: skipped it, flushed its run, or raised (strong
fairness of the three together, for each scan). That a definition validates in the
end is not assumed, nor that its plan has an occurrence: `DueIsServed` excepts a scan
that does not validate and one behind which, or at which, every tick raises. Manual runs are bounded by
`MaxRuns`, so `DueIsServed` does not speak of staff who keep a scan active for ever.

In the rest of `MCPasses`, the main thread of a scheduler process is not suspended for ever (it
polls every few seconds; Compose restarts it), its jobs end, PostgreSQL notices a dead
session (TCP keepalive), the aging passes and the sweep come round every 30 and 5
minutes and may fail but not always (strong fairness of their commits), and requests
end. Nothing is assumed of reports or staff.

In `MCResults`, the worker thread, the control loop and the scanner's loop are not
suspended for ever (weak fairness of all steps of a thread together), and the pass over
stuck runs comes round (weak fairness of `ForceCancel`), which is `RunningEnds`.
Nothing is assumed of heartbeats, of a call's delivery, of deadlines or of crashes;
failing calls and crashes are finitely many. `MCServices` states no fairness: its
properties are safety, and bounded counters end its behaviours.

**Properties.** `ImplementsRunClaims` is the refinement: seen through the status and
`claimed_by` only, each commit of each handler is a submit, a take or an end of
`RunClaims`. `ClaimIsPermanent` and `NoResurrection` bound what stale writers can
do; `CancelIsAnnounced` says that a running run is cancelled under its worker only
after the announced grace. `OccurrenceRunsOnce` is what the unique key and the
lookup before it are for. `CatchUpIsSingle` holds for one scheduler and one edit at
a time, the documented operating model; with two schedulers an edit in between
can make an old instant due again for a revision that already had a run.

`OverlapIsFenced` is what the drain before the release is for. `PassesDoTheirWork` says
that somebody leads again after losses, crashes and stops and a process without its
session leaves; that what is unseen becomes inactive and stale, whatever reports race
with a pass that decides from what it loaded; that the sweep never writes from a stale
row; and that all labels settle although pages skip locked rows.

`DoneIsComplete`, `CountedOnce` and `DeletedIsStored` say together that delivery is
exactly once: nothing is deleted before it is stored, what is sent again is not
counted again, and a run is done only with all of it. They rest on the order of
`finish_pipeline_run`, on the keys of the upload handlers, and on completion being
refused for a run that has ended. `AcceptedIsWorked` holds only since the wait for
`_work_ready` has a timeout: the clear that ends one run can swallow the wake-up of
the next (its mutant removes the timeout). `PreferenceIsEligible` leaves out a
preferred agent that was revoked, which does block dispatch until an admin changes
the preference; `PriorityFollowsFactors` leaves out what only a later recalculation repairs,
and `EvidenceFollowsMapping` the evidence that the index of its call led astray.
`HandlingSettles` is about one locality at a time, and about reports from the asset's own
site against the pass. `ChallengesAreLimited` lets the row of a used challenge be deleted by
a prune; it gives no second token then, since a token request needs the row.
`LinkIsUnrivalled` says what `decide` guarantees although it looks at the first rival only: a
rival that would make the match ambiguous is overlooked only below the review threshold,
and behind one that does not make it so.
The comment before each property in its module states it in full.

## 4. Findings

Four statements of the documentation do not hold of the code; each has a run whose
counterexample is a few steps long.

* **stranded** (`scheduler.py:63`): only runs created `waiting_for_agent` have a wait
  expiry. One that was queued for a healthy agent waits for ever when every
  eligible agent then becomes unavailable (MASTER_PLAN.md 10.6 says it expires),
  and, being active, keeps its scan from being scheduled.
* **retained** (`scan_runtime/agent_main.py:307`): when a finished spool is offered for
  resume, any failing status call, a timeout too, counts as "not mine", and the
  spool is deleted with raw artifacts that central does not have, although
  docs/DEVELOPMENT.md:176 keeps it until the server acknowledged every one.
* **reopened** (`finding_lifecycle.py:1401`): of two runs on an asset whose completions
  overlap, the one that commits last adds its clean scan to the count it had loaded,
  over the other's detection, and can resolve the finding; docs/DEVELOPMENT.md:440
  promises consecutive clean scans.
* **tagged** (`routers/assets.py:591`): the recalculation runs before the new tags are
  flushed (`autoflush=False`), so the CUI factor (MASTER_PLAN.md:1111) is that of the
  tags before until the next age pass.

Also within the models, but denied by no document: a completion that loaded the run
before its deadline commits `done` after the cancel request was committed; `fail_job`
of a stale poll turns a run that another worker has just started, or even finished,
into `failed`; `expire_waiting_jobs` turns a run that was just claimed into `missed`;
`run_scan` and a tick create two active runs of one scan; a tick that reloads rows
after its first commit runs an occurrence early; two concurrent updates of a
definition get the same revision and their columns are mixed; an approval decided on a
stale row overwrites a concurrent revoke; a heartbeat that names a run before its
claim is committed is told to cancel it.

Calls, reports and passes meet in more ways than a property can promise away:

* **A cron plan with nothing to come ends every tick** (`scan_schedule.py:199-214`). Once
  its last occurrence within 366 days is due, `next_future_after_catchup`, called outside the
  `try` of `queue_scheduled_run` (`jobs.py:222`), raises; nothing in the tick catches it
  (`scheduler.py:51-55`), the run is rolled back, and the scan stays due and ends each
  later tick in the same way. The scans behind it in the order of `next_run_at` are not
  served until somebody edits it. `DueIsServed` excepts them by name (`Blocked`).
* **The run index is not told of a move** (`finding_ingest.py:316-330`,
  `finding_lifecycle.py:598-613`). After a report of one call renames a finding that an
  earlier report met, evidence for the old vulnerability goes to the renamed finding; if
  the finding was merged away, the evidence row refers to nothing and the call fails.
* **Overlapping ingests of two runs** are outside `DetectorCatalog`. By reading the code: the evidence of
  one keeps the mapping the other moves meanwhile; two moves off a shared donor
  each see the other's evidence on it and leave it with none; a merge deletes a donor
  to which the other adds evidence, whose reference the database then sets to NULL.
* **Priorities nobody recalculates**: a finding on another asset that a moved mapping renames
  (`finding_lifecycle.py:608-611`), and one that a merge of assets carries over without a
  keeper (`finding_lifecycle.py:1639-1647`), until the age pass.
* **Reports of another site** are handled by that site's rules, and the passes after
  them by the asset's own (`policy.py:975-989`, `policy.py:1269-1279`): under fixed rules
  the disposition may change back and forth for ever.
* **A prune deletes a used challenge** that it had selected as expired
  (`agent_challenges.py:20-31`), whose token is issued all the same.

`AssetLifecycle` has two behaviours at odds with MASTER_PLAN.md:590 ("If observed again,
the same Asset should reactivate"), described here without a run of their own:
`mark_inactive_assets` writes `inactive` over an asset that a report in hand, which had
loaded it as active, has just seen (`lifecycle.py:69`); and `recalculate_asset_seen`
keeps an inactive state whatever observations it is given (`assets.py:656`).

## 5. Proofs

Proved by `tlapm` for all values of the constants that satisfy the named assumption
(`...Assumption`) of each module. These say that a null value is outside the set it
completes, that ids, limits and bounds are naturals, that a limit is not zero, that sets of
facts, senders, runs, assets and logins are finite, that plans are well formed, that
no CIDR holds a prohibited address and no explicit target, that scores, ages and severities
are in their ranges, and that `Parts` are names of services. Two theorems have a hypothesis
of their own, stated below. Every invariant of the passing runs is stated by a
theorem, and so are their action properties and the refinement, except for `SweepReadsCurrent`.

### ScanJobsProofs

`TypeCorrect`, `OneRunning`, `ExclusiveClaim`, `ClaimsArePermanent`,
`EndingsArePermanent`, `CancelsAreAnnounced` and `Implementation`, all from `InvHolds`.
`OneRunningPerAgent` is not inductive: that an agent is idle was read before the
commit that makes it busy. The invariant `Inv` therefore says

* `AgentLockIsExclusive`: one request at most is between `lock_agent_row` and its
  commit for an agent, and so `ClaimerIsNotBusy`: what it checked still holds;
* `ClaimIsExclusive`: a claimed row is still claimable and claimed by no other;
* `PendingIsUnclaimed`, `LoadedIsPresent`, `StartersInPool`: what a stale writer may
  have loaded, which keeps its writes from undoing the above.

The actions fall into those that take a run (`LockAgentRow`, `Claim` and the commits
of a claim) and all others, which are *quiet*: they make no run running, change no
claim and lock nothing. One lemma per taking action and one for all quiet ones give
`InvStep`; the refinement maps the first to `Take` and the others to `Submit`, `End` or
a stutter. `CancelsAreAnnounced` adds `ForcedIsAnnounced`: a row `expire_stuck_jobs` has
loaded to be forced was asked to cancel and is past its grace, and stays so until
the pass commits, since no write takes a cancel request back.

### SchedulerProofs

`TypeCorrect` and `RunsOnce`, from `Inv` (`TypeOK`, `BusyHasScan`,
`OccurrenceRunsOnce`). Every step leaves the runs of a scan as they are, up to `over`, or
appends one whose occurrence is new (`Extends`); the unique key is used nowhere else,
so the theorem holds for any number of schedulers, edits and restarts.

`CatchUpIsFuture` says that the catch-up, unless it raises, ends after now for every plan
and delay, and `LoopEndsInTheFuture` that the loop of the code computes it and raises
exactly when it does: the loop is a recursive function, and the two agree by induction on how
far the occurrence is behind. `FirstInstant` and `ClockNext` carry the clock plans: what
`NextOccurrence` finds within the horizon is the least instant named after the given one.

`CatchUpRunsOnce` is `CatchUpIsSingle`, for one scheduler and one request of staff at a time
(`OneOf(Schedulers)`, `OneOf(Staff)`; it is false of more, see section 3). The
invariant `SingleInv` says that whatever names the next occurrence of a revision names one
that the scheduled runs of that revision do not reach: the committed row
(`CommittedAhead`), the row an edit is about to write (`EditFollows`), the rows a tick has
loaded (`LoadedAhead`) and the run it has flushed (`QueuedAhead`).

`OverlapStaysFenced`, from `LeaderInvHolds`: a process that took the lock and kept its
session is the holder (`HoldersHold`), and jobs run only between the start of a scheduler
and the end of its drain (`JobsAreHeld`). So two processes with jobs and open sessions
would both hold the lock.

### ResultsProofs

`DoneStaysComplete`, `FindingsCountedOnce`, `DeletedStaysStored` and `ResultsTypeCorrect`, from
`ResultsInv`, for any number of runs, parts, faults and crashes. None of the three properties
is inductive alone. `CentralOK` says how the count, the findings and the status of a row go
together; `ThreadOK` what the place in `finish_pipeline_run` says about the spool and
central: the chunk that is about to be deleted is stored, and a completion without an error
follows every chunk. `LateCompletions` says that a completion in flight was sent when central had
everything, which stays true because central only grows (`CentralGrows`). `ControlAlone` says that
the control loop takes work only when the worker thread has none, which keeps the
recovery from deleting a spool that is in use; `BeatNamesRun` that a heartbeat names a run.

### ScopeProofs

`ChallengesStayLimited`, from `EnrollmentInv`. That a challenge
gives one token is not inductive, since the token is issued after the commit that
consumes the challenge, and a prune may delete the row in between. `HoldersAreSafe` says that a
request holding the row's lock finds it unconsumed, that two requests never hold, or have
consumed, the same one, and that one whose token is due gave none yet. `ThrottleCounts` ties the
challenges of a window to the attempts it counted, which the limit bounds.

`GuessesStayBounded`, from `StaffInv`. `GuessesAreCounted` has two halves: while the name is
open, a wrong guess is counted or one of the logins that are about to count it; from the
lockout on, only the logins that were allowed before it may still guess.

`PreferencesAreEligible`, from `AgentsAreLocal`: every network has a
site, its authorized agents are placed on it, and the preferred one is authorized.
Moving or archiving restores this by removing the agent from all its networks.

`ForbiddenNeverScanned`, from `PayloadIsSafe`: what the payload holds
is within the snapshot and outside what was excluded then and at the time it was
made. `CoverageIsScanned`, from `ScanProgress`: before Nuclei
nothing is covered; during it the hosts given and not still to do were scanned unless a
group broke; only an unbroken run is declared.

`StoredKeepsItsBytes` and `DoneKeepsItsEvidence`, from `ArtifactInv`: a row names the upload
that wrote its file (`RowsNameUploads`), two inserts of one key exclude each other
(`InsertsAreAlone`, the unique key), and bytes are deleted of expired rows only, before the row
says so (`CleanupIsOfExpired`).

### ServicesProofs

`ActiveIsTheProjection`, from `TreatmentInv`: besides the property,
a treatment in force belongs to a finding that still exists, and a control in force to a
treatment. Expiry before each operation is a lemma of its own; approval, revocation and
merge then each leave at most one treatment in force.

`AlertsCountTheirEvents` and `SendsStayBounded`, from `OutboxInv`: an event is claimed by one
router (`ClaimsAreExclusive`), the row of an alert is locked by one (`LocksAreExclusive`), so what
a router read of the alert it will write is still so (`ReadsAreCurrent`); and every send, made or
to come, was counted as an attempt when it was claimed (`SendsAreCounted`).

`WinnersAreStrongest`: by induction along the evaluation loop, the rule in hand after
each turn is the strongest of those seen. `HandlingIsSettled`: handling keeps what the rules
match on, so in the same locality the same rule wins again and finds its effect in place; and
a report from the asset's site leaves it in that report's locality, which the pass then uses.
`MergesKeepMappings`, an action property, from `MappingIsUnique` and `MergeReads`: the
mappings that a merge has read are still the donor's, and the controls it found mapped to the
keeper still are, unless somebody unmapped them since.

### FindingsProofs

`EvidenceKeepsToMapping` and `FindingsAreSupported`, from `CatalogInv`: the tables as committed
and as the open call sees them have the property, and only mapped detectors have evidence (`GoodTables`). What the index gives for a key is the finding
of that key, or marks the evidence astray, or has been deleted and fails the call.

`NoCleanWithEvidence`, from `FindingInv`: only completed runs evaluated a finding
(`OnlyDoneEvaluates`), those with evidence as detected (`EvidenceIsDetected`), and a completion has
loaded the row of every finding the run left evidence on (`LoadedHasRow`).

`ResolvedStaysClean` is `ResolvedWasClean` under the hypothesis `~Overlap`: the runs, which are
those on the same assets, do not overlap in time. Run `reopened` shows that it is false without. The
invariant says that at most one such run is open (`OneAtATime`), that a finding which a run has
detected is open (`HitIsOpen`), and that the row of an open finding counts clean runs since its
last detection (`Counted`). A merge joins two histories: the later of the two counted tails
is one of the joined history (`TailsJoin`).

`FactsFollowObservations` and `DecisionsStayResolved`, from `InventoryInv`. That a
decision resolves is not inductive: the chain of `merged_into` it follows must have no
cycle. The invariant has every asset begin a `Chain` of distinct assets to one that is not merged, which
a merge extends (`ChainsGrow`) and all else leaves (`ChainsStay`).

`LinksAreUnrivalled`: the candidate that `decide` takes has the best score of the eligible ones, and
the rival it looks at the best of the others; one that would block the link behind a rival that does
not must itself be below the review threshold.

`PrioritiesFollowFactors`, from `PriorityInv`: an open transaction that no other has crossed is
about to store, for every finding whose priority its change moves and which it does not overlook,
the priority of the factors it leaves (`Recalculates`).

### MCServicesProofs and OrderLemmas

`MCServices` has one `Next` for its services, and each behaviour shows one. `PartSteps` and
`PartsBehave` say that to each service its behaviours are behaviours of its own
specification; hence `ServicesTypeCorrect`, the `TypeOK` of the run, and
`ServicesKeepTheirProperties`, all properties of runs `evidence` and `operations` in one theorem.

The induction theorems of the library take an operator as a parameter, which
the provers at hand cannot instantiate. `OrderLemmas` derives from the well-foundedness of the
naturals that a set of naturals has a least element (`Least`), and from it induction over a *set* of
naturals (`SetInduction`) and over a set of finite sets (`FiniteInduction`).

### Model-checked only

Liveness under fairness is beyond the prover: `RunningEnds`,
`WaitingEnds`, `DueIsServed`, `AcceptedIsWorked`, `FinishedIsCleared` and `PassesDoTheirWork`, which is a
conjunction of liveness with one action property (`SweepReadsCurrent`). The four runs that
expect a violation have counterexamples, not proofs.

## 6. Not modelled

* **Reporting and history**: read-only queries and rendering.
* **Schema migration and bootstrap**: run once, before the program serves. **Web
  frontend**: user interface over the API.
* **Data**: calendars, time zones and cron expressions (one kind of plan), address
  arithmetic (ranges are sets), names, titles, versions and the contents of a device
  record, messages and the SMTP exchange, the paging of feeds. Signatures, passwords,
  sessions and the validation of payloads are verdicts, chosen freely.
* **Legacy**: the merging of legacy device rows, and the one-off pass
  `fail_pending_legacy_pre_1d_jobs`.
* **Two merges of assets at once** in opposite directions, and a merge of findings
  that overlaps a treatment request: a merge is one step in those modules.
