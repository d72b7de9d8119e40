--------------------------- MODULE DiscoverySweep ---------------------------
(***************************************************************************)
(* The catch-up of device labels (refresh_discovery_metadata_job of        *)
(* scheduler.py, refresh_discovery_metadata and _project_device of         *)
(* inventory.py): one keyset page per tick, its rows taken with FOR UPDATE *)
(* SKIP LOCKED, against reports that update the same rows.                 *)
(*                                                                         *)
(* What a device is known by (ports, title, tech, hostname) is one value;  *)
(* the label that the heuristics infer from it is written as that value.   *)
(* Classification follows the same rule once and tech is cleaned like it.  *)
(* Bounds: MaxReports reports that change a device, MaxRestarts restarts of *)
(* the scheduler; devices are not added.                                   *)
(***************************************************************************)
EXTENDS Naturals, FiniteSetsExt

CONSTANTS DeviceIds,
          Looks,         \* what a device can look like
          Unlabelled,    \* the looks from which infer_label infers nothing
          BatchSize,     \* DISCOVERY_METADATA_BATCH_SIZE
          Ingests,       \* requests that carry device reports
          MaxReports, MaxRestarts

ASSUME SweepAssumption ==
    /\ DeviceIds \subseteq Nat \ {0} /\ IsFiniteSet(DeviceIds) /\ BatchSize \in Nat \ {0}
    /\ Unlabelled \subseteq Looks /\ MaxReports \in Nat /\ MaxRestarts \in Nat

VARIABLES
    devices,     \* committed rows
    cursor,     \* _discovery_metadata_after_id, in the memory of the scheduler
    page,       \* the rows the open sweep transaction holds, as it loaded them
    ingest,     \* per request: the row it loaded, the one it flushed
    reports, restarts

sweepVars == <<devices, cursor, page, ingest, reports, restarts>>

NoPage == [open |-> FALSE, rows |-> << >>]

\* Labels are of older heuristics.
InitSweep ==
    /\ devices \in [DeviceIds -> [look : Looks, label : Looks]]
    /\ cursor = 0
    /\ page = NoPage
    /\ ingest = [i \in Ingests |-> [at |-> "idle"]]
    /\ reports = 0 /\ restarts = 0

-----------------------------------------------------------------------------
(* Reports *)

Flushed(i, d) == ingest[i].at = "flushed" /\ ingest[i].id = d

\* Mutated form: the page is read without FOR UPDATE.
DeviceFree_Unlocked(d) == \A i \in Ingests : ~Flushed(i, d)

\* No open transaction has updated, or locked, the row.
DeviceFree(d) == (\A i \in Ingests : ~Flushed(i, d)) /\ d \notin DOMAIN page.rows

IngestLoad(i, d) ==
    /\ ingest[i].at = "idle" /\ reports < MaxReports /\ reports' = reports + 1
    /\ ingest' = [ingest EXCEPT ![i] = [at |-> "loaded", id |-> d, row |-> devices[d]]]
    /\ UNCHANGED <<devices, cursor, page, restarts>>

\* The flush of _project_device: the columns that differ from those loaded,
\* the label only when one was inferred.
IngestFlush(i, look) ==
    LET row == ingest[i].row
        label == IF look \in Unlabelled THEN row.label ELSE look
    IN /\ ingest[i].at = "loaded" /\ DeviceFree(ingest[i].id)
       /\ ingest' = [ingest EXCEPT ![i] =
             [at |-> "flushed", id |-> @.id, look |-> look, label |-> label,
              newLook |-> look # row.look, newLabel |-> label # row.label]]
       /\ UNCHANGED <<devices, cursor, page, reports, restarts>>

IngestCommit(i) ==
    LET f == ingest[i] IN
    /\ f.at = "flushed"
    /\ devices' = [devices EXCEPT ![f.id] =
          [look |-> IF f.newLook THEN f.look ELSE @.look, label |-> IF f.newLabel THEN f.label ELSE @.label]]
    /\ ingest' = [ingest EXCEPT ![i] = [at |-> "idle"]]
    /\ UNCHANGED <<cursor, page, reports, restarts>>

IngestFails(i) ==
    /\ ingest[i].at # "idle" /\ ingest' = [ingest EXCEPT ![i] = [at |-> "idle"]]
    /\ UNCHANGED <<devices, cursor, page, reports, restarts>>

-----------------------------------------------------------------------------
(* The sweep *)

Unheld == {d \in DeviceIds : d > cursor /\ \A i \in Ingests : ~Flushed(i, d)}

\* The first rows, by id, that nobody has locked.
PageOf(ids) == {d \in ids : Cardinality({e \in ids : e < d}) < BatchSize}

SweepLoad ==
    /\ ~page.open
    /\ page' = [open |-> TRUE, rows |-> [d \in PageOf(Unheld) |-> devices[d]]]
    /\ UNCHANGED <<devices, cursor, ingest, reports, restarts>>

\* A short page ends the walk over the table, which begins anew.
NextCursor(ids) == IF Cardinality(ids) < BatchSize THEN 0 ELSE Max(ids)

\* apply_stored_discovery_metadata on the loaded rows, and the commit.
SweepCommit ==
    /\ page.open /\ page' = NoPage
    /\ devices' = [d \in DeviceIds |->
          IF d \in DOMAIN page.rows /\ page.rows[d].label # page.rows[d].look
          THEN [devices[d] EXCEPT !.label = page.rows[d].look] ELSE devices[d]]
    /\ cursor' = NextCursor(DOMAIN page.rows)
    /\ UNCHANGED <<ingest, reports, restarts>>

\* An exception; the cursor stays.
SweepFails ==
    /\ page.open /\ page' = NoPage
    /\ UNCHANGED <<devices, cursor, ingest, reports, restarts>>

\* The cursor is lost with the process.
SchedulerRestarts ==
    /\ restarts < MaxRestarts /\ restarts' = restarts + 1
    /\ cursor' = 0 /\ page' = NoPage
    /\ UNCHANGED <<devices, ingest, reports>>

IngestEnds(i) == IngestCommit(i) \/ IngestFails(i)

NextSweep ==
    \/ \E i \in Ingests :
        \/ IngestEnds(i)
        \/ \E d \in DeviceIds : IngestLoad(i, d)
        \/ \E look \in Looks : IngestFlush(i, look)
    \/ SweepLoad \/ SweepCommit \/ SweepFails \/ SchedulerRestarts

-----------------------------------------------------------------------------
\* The docstring of refresh_discovery_metadata: a report is not overwritten by
\* a stale catch-up snapshot.  What a sweep writes is what the row, as it is
\* at the commit, is labelled.
SweepReadsCurrent ==
    [][page.open /\ ~page'.open =>
          \A d \in DeviceIds : devices'[d] # devices[d] => devices'[d].label = devices[d].look]_sweepVars

\* Every device ends with the label of what it looks like: neither the rows
\* that a page skipped because they were locked, nor a label that a report and
\* a sweep made from different looks, nor the devices behind the last page of
\* a walk are left for ever.
LabelsSettle == <>[](\A d \in DeviceIds : devices[d].label = devices[d].look)
=============================================================================
