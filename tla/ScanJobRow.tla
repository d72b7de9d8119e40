---------------------------- MODULE ScanJobRow ----------------------------
(***************************************************************************)
(* One row of scan_jobs: its columns that control a run, and the writes    *)
(* that jobs.py, job_control.py, scan_dispatch.py and finding_lifecycle.py *)
(* make to it.                                                             *)
(*                                                                         *)
(* The ORM emits UPDATE ... SET <changed columns> WHERE id = <id>: it      *)
(* neither locks the row it loaded nor compares a version.  So a handler   *)
(* DECIDES from the row it loaded (seen) and WRITES to the row as it is    *)
(* when its transaction commits (row); every operator below takes both.   *)
(* Only the atomic claims put their condition in the UPDATE itself.        *)
(***************************************************************************)
EXTENDS Naturals

CONSTANT NoOne          \* NULL in the column claimed_by

Pending  == {"queued", "waiting_for_agent"}
Active   == Pending \cup {"running"}
Terminal == {"failed", "cancelled", "done", "missed"}
Statuses == {"absent"} \cup Active \cup Terminal

\* cancel_requested and wait_expires say whether the timestamp columns
\* cancel_requested_at and wait_expires_at hold a value.
Row(workers) ==
    [status : Statuses, claimed_by : workers \cup {NoOne},
     cancel_requested : BOOLEAN, wait_expires : BOOLEAN]

Absent == [status |-> "absent", claimed_by |-> NoOne,
           cancel_requested |-> FALSE, wait_expires |-> FALSE]

\* Mutated form: wait_expires_at is not set.
Created_NoExpiry(status) == [Absent EXCEPT !.status = status]

\* create_run: a LAN run without a healthy agent waits, with an expiry.
Created(status) ==
    [Absent EXCEPT !.status = status,
                   !.wait_expires = (status = "waiting_for_agent")]

\* The columns a handler that loaded the row decides from.
Seen == [status : Statuses, cancel_requested : BOOLEAN]
See(row) == [status |-> row.status, cancel_requested |-> row.cancel_requested]

-----------------------------------------------------------------------------
\* The statuses in which a run is listed, started and claimed: only a LAN run
\* waits for an agent.
Startable(lan) == IF lan THEN Pending ELSE {"queued"}

\* WHERE of atomic_claim_job (a LAN run) and of atomic_claim_central_job.
Claimable(row, lan) ==
    row.status \in Startable(lan) /\ row.claimed_by = NoOne

ClaimWrite(row, worker) ==
    [row EXCEPT !.status = "running", !.claimed_by = worker]

\* Mutated form: clear_claim for every failure.
FailWrite_ClearsClaim(seen, row) ==
    IF seen.status \in {"failed", "cancelled"} THEN row
    ELSE [row EXCEPT !.status = "failed", !.claimed_by = NoOne]

\* transition_job_to_failed: only FAILED and CANCELLED are left alone.
FailWrite(seen, row) ==
    IF seen.status \in {"failed", "cancelled"} THEN row
    ELSE [row EXCEPT !.status = "failed"]

\* transition_job_to_cancelled: no terminal status is changed.
CancelWrite(seen, row) ==
    IF seen.status \in Terminal THEN row
    ELSE [row EXCEPT !.status = "cancelled", !.cancel_requested = TRUE]

\* Mutated form: the request replaces the status it should stand beside.
CancelRequestWrite_Status(seen, row) == [row EXCEPT !.status = "cancelling"]

\* mark_cancel_requested
CancelRequestWrite(seen, row) ==
    IF seen.status # "running" THEN row
    ELSE [row EXCEPT !.cancel_requested = TRUE]

\* mark_job_missed checks nothing.
MissedWrite(row) == [row EXCEPT !.status = "missed"]

\* complete_scan_run, ok: the last assignment of a successful completion.
DoneWrite(row) == [row EXCEPT !.status = "done"]

\* complete_scan_run, not ok.  cancelText: the worker's error text is one of
\* "scan cancelled", "scan deadline exceeded", "timed out after".
ReportWrite(seen, row, cancelText) ==
    IF seen.cancel_requested \/ cancelText
    THEN CancelWrite(seen, row)
    ELSE FailWrite(seen, row)

\* require_owned_run_for_persist, for a run claimed by the caller.
MayComplete(row, overdue) ==
    row.status = "running" /\ ~row.cancel_requested /\ ~overdue
MayReport(row) == row.status \in {"running", "cancelled", "failed"}
=============================================================================
