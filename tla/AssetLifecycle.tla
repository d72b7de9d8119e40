--------------------------- MODULE AssetLifecycle ---------------------------
(***************************************************************************)
(* How one asset, and the device row of its last report, age and return    *)
(* (lifecycle.py, mark_stale_devices of scheduler.py, the lifecycle part   *)
(* of assets.py and inventory.py, the edits of staff).                     *)
(*                                                                         *)
(* A report and the inactivity pass load the asset in one step and write   *)
(* the columns they changed in another; mark_stale_devices is one UPDATE.  *)
(* Time is in days; a day that has passed is at least 30 minutes of        *)
(* passes.  The observations that staff leave with an asset are a free     *)
(* choice, and the requests of staff are one step.  Bound: the clock ends  *)
(* at MaxDay.                                                              *)
(***************************************************************************)
EXTENDS Naturals, FiniteSetsExt

CONSTANTS Reports,      \* reports that may be in hand at once
          Thresholds,   \* values of inactive_after_days, by settings and policies
          StaleDays,    \* the setting stale_days
          MaxDay

ASSUME AgingAssumption ==
    Thresholds \subseteq Nat \ {0} /\ Thresholds # {} /\ StaleDays \in Nat /\ MaxDay \in Nat

VARIABLES
    today,
    asset,        \* state: none, active or inactive; begun: first_seen is set; last_seen
    device,       \* status: new, known or stale; last_seen
    report,       \* per report: the rows it loaded, and its day
    marking       \* the inactivity pass loaded the asset and found it unseen for too long

agingVars == <<today, asset, device, report, marking>>

Never == 0      \* a NULL instant

NoReport == [busy |-> FALSE]

\* An asset, and its device, as create_discovered_asset left them.
InitAging ==
    /\ today = 1
    /\ asset = [state |-> "active", begun |-> TRUE, last |-> 1]
    /\ device = [status |-> "new", last |-> 1]
    /\ report = [r \in Reports |-> NoReport]
    /\ marking = FALSE

\* SQLAlchemy writes a column that differs from the loaded value.
Write(current, loaded, value) == IF value = loaded THEN current ELSE value

\* A write of lifecycle_state.
Becomes(row, loaded, state) == [row EXCEPT !.state = Write(@, loaded, state)]

-----------------------------------------------------------------------------
(* Reports *)

SightingLoad(r) ==
    /\ ~report[r].busy
    /\ report' = [report EXCEPT ![r] = [busy |-> TRUE, asset |-> asset, device |-> device, day |-> today]]
    /\ UNCHANGED <<today, asset, device, marking>>

Released(r) == report' = [report EXCEPT ![r] = NoReport]

\* _project_device: a stale device is known again, a new one is known once
\* another run than its last (last_scan_job_id) has seen it.
Recognized(status, anotherRun) ==
    IF status = "stale" \/ (status = "new" /\ anotherRun) THEN "known" ELSE status

\* _apply_observation_lifecycle with append_observation, and _project_device.
SightingCommit(r) ==
    LET seen == report[r]
    IN /\ seen.busy /\ Released(r)
       /\ asset' = [Becomes(asset, seen.asset.state, "active") EXCEPT
                       !.begun = Write(@, seen.asset.begun, TRUE),
                       !.last = Write(@, seen.asset.last, seen.day)]
       /\ \E anotherRun \in BOOLEAN : device' =
             [status |-> Write(device.status, seen.device.status, Recognized(seen.device.status, anotherRun)),
              last |-> Write(device.last, seen.device.last, seen.day)]
       /\ UNCHANGED <<today, marking>>

SightingFails(r) ==
    /\ report[r].busy /\ Released(r)
    /\ UNCHANGED <<today, asset, device, marking>>

-----------------------------------------------------------------------------
(* The passes of the scheduler *)

\* The query of mark_inactive_assets.
Selected(a, moment) ==
    a.state = "active" /\ a.begun /\ a.last # Never /\ a.last + 1 < moment

\* last_seen is before the cutoff.
Unseen(last, days, moment) == last + days < moment

InactiveLoad ==
    /\ ~marking /\ Selected(asset, today)
    /\ \E days \in Thresholds : Unseen(asset.last, days, today)
    /\ marking' = TRUE /\ UNCHANGED <<today, asset, device, report>>

\* The row it loaded was active, so inactive is written over any other state.
InactiveCommit ==
    /\ marking /\ marking' = FALSE
    /\ asset' = Becomes(asset, "active", "inactive")
    /\ UNCHANGED <<today, device, report>>

\* The pass raises, or the scheduler dies.
InactiveFails ==
    /\ marking /\ marking' = FALSE
    /\ UNCHANGED <<today, asset, device, report>>

MayGoStale(status) == status # "stale"

\* mark_stale_devices
MarkStale ==
    /\ MayGoStale(device.status) /\ device.last + StaleDays < today
    /\ device' = [device EXCEPT !.status = "stale"]
    /\ UNCHANGED <<today, asset, report, marking>>

-----------------------------------------------------------------------------
(* Staff *)

\* update_asset and update_device
SetLifecycle(state) ==
    /\ asset.state # state /\ asset' = Becomes(asset, asset.state, state)
    /\ UNCHANGED <<today, device, report, marking>>

SetStatus(status) ==
    /\ device.status # status /\ device' = [device EXCEPT !.status = status]
    /\ UNCHANGED <<today, asset, report, marking>>

\* recalculate_asset_seen, of the last observation that is left, or of none.
Recalculated(row, last) ==
    IF last = Never THEN [row EXCEPT !.state = "none", !.begun = FALSE, !.last = Never]
    ELSE [row EXCEPT !.begun = TRUE, !.last = last,
                     !.state = IF @ = "inactive" THEN @ ELSE "active"]

\* reassociate_observations, with the asset as source or as target.
Reassociate(last) ==
    /\ asset' = Recalculated(asset, last)
    /\ UNCHANGED <<today, device, report, marking>>

NextDay == today < MaxDay /\ today' = today + 1 /\ UNCHANGED <<asset, device, report, marking>>

NextAging ==
    \/ \E r \in Reports : SightingLoad(r) \/ SightingCommit(r) \/ SightingFails(r)
    \/ InactiveLoad \/ InactiveCommit \/ InactiveFails \/ MarkStale
    \/ \E state \in {"active", "inactive"} : SetLifecycle(state)
    \/ \E status \in {"new", "known", "stale"} : SetStatus(status)
    \/ \E last \in {Never} \cup 1 .. today : Reassociate(last)
    \/ NextDay

-----------------------------------------------------------------------------
\* Unseen for longer than the most patient policy allows.  A report that
\* races with the removal of all observations leaves last_seen without
\* first_seen; such a row is in no query of the pass until the next report.
Overdue ==
    /\ asset.state = "active" /\ asset.begun
    /\ asset.last # Never /\ asset.last + Max(Thresholds) < today

\* MASTER_PLAN 11.7: an asset that is not seen any more becomes inactive,
\* unless it is seen again, moved or changed by staff, however often the pass
\* fails and whatever reports race with it.
UnseenGoesInactive == []<>~Overdue

\* A device that is not reported any more becomes stale.
UnseenGoesStale == []<>(device.status = "stale" \/ today <= device.last + StaleDays)
=============================================================================
