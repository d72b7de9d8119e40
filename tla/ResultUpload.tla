--------------------------- MODULE ResultUpload ---------------------------
(***************************************************************************)
(* How the results of a run reach central: the worker's spool on disk      *)
(* (spool.py), the upload of what it holds (job_finish.py) over calls that *)
(* may fail (api_client.py), and the handlers of central that take them.   *)
(* AgentWorker and ScannerWorker add the loops that find and start runs.   *)
(*                                                                         *)
(* A call is answered, or its answer is lost, or it times out and reaches  *)
(* central later or never.  The disk outlives a crash of the worker; wk,   *)
(* the memory of the thread that executes the run, does not.               *)
(***************************************************************************)
EXTENDS Naturals, FiniteSets

CONSTANTS Jobs,          \* ids of runs, in the order they were created
          Findings,      \* number of findings a full scan reports
          MaxFaults,     \* bound: calls that fail although central runs
          MaxCrashes     \* bound: crashes of the worker

ASSUME UploadAssumption ==
    Jobs \subseteq Nat \ {0} /\ {Findings, MaxFaults, MaxCrashes} \subseteq Nat

VARIABLES
    lan,        \* LAN runs of an agent, or WAN runs of the central scanner
    central,    \* per run: status, cancel asked, parts stored, findings_count
    disk,       \* per run: pipeline.done, chunks ready to send, raw staging
    wk,         \* the executing thread: where it is, and for which run
    cancel,     \* the thread's cancel event
    flight,     \* calls that timed out and may still reach central
    faults,     \* failing calls still to come
    crashes     \* crashes still to come

NoJob == 0
Oldest(runs) == CHOOSE j \in runs : \A k \in runs : j <= k

uploadVars == <<central, disk, wk, cancel, flight, faults, crashes>>

\* The chunk kinds in the order _submit_spool sends them.
Kinds == <<"devices", "findings", "coverage">>
KindSet == {Kinds[i] : i \in 1 .. 3}
Parts == KindSet \cup {"raw", "provenance"}

Ended == {"done", "failed", "cancelled"}
Row == [status : {"queued", "running"} \cup Ended, asked : BOOLEAN,
        held : SUBSET Parts, count : 0 .. Findings]
Spool == [done : BOOLEAN, ready : SUBSET KindSet, raw : BOOLEAN]
NoSpool == [done |-> FALSE, ready |-> {}, raw |-> FALSE]

Calls == [op : Parts \cup {"complete"}, ok : BOOLEAN, text : BOOLEAN]
Upload(part) == [op |-> part, ok |-> TRUE, text |-> FALSE]
\* text: the error is one that complete_scan_run takes for a cancellation.
Complete(ok, text) == [op |-> "complete", ok |-> ok, text |-> text]

Steps == {"wait", "start", "resume", "scan", "mark", "refresh", "raw",
          "provenance", "chunks", "ack", "complete", "error",
          "end", "free", "clear"}
Worker == [pc : Steps, job : Jobs \cup {NoJob}, resume : BOOLEAN,
           failed : BOOLEAN, text : BOOLEAN, bad : BOOLEAN]
Free == [pc |-> "wait", job |-> NoJob, resume |-> FALSE,
         failed |-> FALSE, text |-> FALSE, bad |-> FALSE]

UploadTypeOK ==
    /\ lan \in BOOLEAN
    /\ central \in [Jobs -> Row]
    /\ disk \in [Jobs -> Spool]
    /\ wk \in Worker
    /\ cancel \in BOOLEAN
    /\ flight \subseteq Jobs \X Calls
    /\ faults \in 0 .. MaxFaults /\ crashes \in 0 .. MaxCrashes

InitUpload ==
    /\ lan \in BOOLEAN
    /\ \E waiting \in SUBSET Jobs :      \* the others ended before
        central = [j \in Jobs |->
                     [status |-> IF j \in waiting THEN "queued" ELSE "failed",
                      asked |-> FALSE, held |-> {}, count |-> 0]]
    /\ disk = [j \in Jobs |-> NoSpool]
    /\ wk = Free
    /\ cancel = FALSE
    /\ flight = {}
    /\ faults \in 0 .. MaxFaults /\ crashes \in 0 .. MaxCrashes

Go(pc) == wk' = [wk EXCEPT !.pc = pc]

-----------------------------------------------------------------------------
(* Central *)

\* Mutated form: every finding of a chunk is counted as new.
Stored_Recounted(c, part) ==
    [c EXCEPT !.held = @ \cup {part},
              !.count = IF part = "findings" THEN @ + Findings ELSE @]

\* The upload handlers.  Findings, observations, coverage and artifacts have
\* a key of their own in the run: what is already there is not added again.
Stored(c, part) ==
    [c EXCEPT !.held = @ \cup {part},
              !.count = IF part = "findings" /\ part \notin c.held
                        THEN @ + Findings ELSE @]

\* complete_scan_run, not ok: only a run that has not ended is changed.
Reported(c, text) ==
    IF c.status # "running" THEN c
    ELSE [c EXCEPT !.status = IF c.asked \/ text THEN "cancelled" ELSE "failed"]

\* require_owned_run_for_persist, the declared raw evidence and the required
\* provenance.
Accepts(c, call) ==
    IF call.op = "complete" /\ call.ok
    THEN c.status = "running" /\ ~c.asked /\ {"raw", "provenance"} \subseteq c.held
    ELSE c.status \in {"running", "cancelled", "failed"}

Handled(c, call) ==
    IF call.op # "complete" THEN Stored(c, call.op)
    ELSE IF call.ok THEN [c EXCEPT !.status = "done"]
    ELSE Reported(c, call.text)

\* A call that had timed out reaches central after all.
Deliver ==
    \E q \in flight :
        LET j == q[1] IN
        /\ flight' = flight \ {q}
        /\ central' = IF Accepts(central[j], q[2])
                      THEN [central EXCEPT ![j] = Handled(@, q[2])] ELSE central
        /\ UNCHANGED <<disk, wk, cancel, faults, crashes>>

\* The deadline of a running run passes, which asks it to cancel.
Expire ==
    \E j \in Jobs :
        /\ central[j].status = "running" /\ ~central[j].asked
        /\ central' = [central EXCEPT ![j].asked = TRUE]
        /\ UNCHANGED <<disk, wk, cancel, flight, faults, crashes>>

\* expire_stuck_jobs after the grace.
ForceCancel ==
    \E j \in Jobs :
        /\ central[j].status = "running" /\ central[j].asked
        /\ central' = [central EXCEPT ![j].status = "cancelled"]
        /\ UNCHANGED <<disk, wk, cancel, flight, faults, crashes>>

-----------------------------------------------------------------------------
(* A call of the executing thread *)

Fault == faults > 0 /\ faults' = faults - 1

Answered(call) ==
    /\ Accepts(central[wk.job], call)
    /\ central' = [central EXCEPT ![wk.job] = Handled(@, call)]
    /\ UNCHANGED <<flight, faults>>

\* _request raises ApiError: a refusal, a lost answer, or a timeout.
Fails(call) ==
    \/ ~Accepts(central[wk.job], call) /\ UNCHANGED <<central, flight, faults>>
    \/ /\ Fault
       /\ Accepts(central[wk.job], call)
       /\ central' = [central EXCEPT ![wk.job] = Handled(@, call)]
       /\ UNCHANGED flight
    \/ Fault /\ flight' = flight \cup {<<wk.job, call>>} /\ UNCHANGED central

-----------------------------------------------------------------------------
(* The spool *)

\* recover_owned_spool: JobSpool.for_job deletes every other run's directory,
\* and a directory without pipeline.done is abandoned.
Recovered(j) ==
    [k \in Jobs |-> IF k = j /\ disk[j].done THEN disk[j] ELSE NoSpool]

Resume ==
    /\ wk.pc = "resume"
    /\ disk' = Recovered(wk.job)
    /\ IF disk[wk.job].done THEN Go("refresh")
       ELSE wk' = [wk EXCEPT !.pc = "complete", !.failed = TRUE]
    /\ UNCHANGED <<central, cancel, flight, faults, crashes>>

\* _run_pipeline: the stages fill the spool with raw artifacts and chunks ...
Scan ==
    /\ wk.pc = "scan"
    /\ disk' = [disk EXCEPT ![wk.job] =
                    [done |-> FALSE, ready |-> KindSet, raw |-> TRUE]]
    /\ Go("mark")
    /\ UNCHANGED <<central, cancel, flight, faults, crashes>>

\* ... and mark_pipeline_complete makes them recoverable.
MarkComplete ==
    /\ wk.pc = "mark"
    /\ disk' = [disk EXCEPT ![wk.job].done = TRUE]
    /\ Go("refresh")
    /\ UNCHANGED <<central, cancel, flight, faults, crashes>>

\* PipelineError: a stage failed or was cancelled; fail seals what there is,
\* which is never the coverage.
PipelineFails ==
    /\ wk.pc \in {"scan", "mark"}
    /\ \E cancelled, any \in BOOLEAN :
        /\ cancelled => (cancel \/ central[wk.job].asked)
        /\ disk' = IF wk.pc = "mark" THEN disk
                   ELSE [disk EXCEPT ![wk.job] =
                            IF any THEN [done |-> FALSE, raw |-> TRUE,
                                         ready |-> {"devices", "findings"}]
                            ELSE NoSpool]
        /\ wk' = [wk EXCEPT !.pc = "refresh", !.failed = TRUE, !.text = cancelled]
    /\ UNCHANGED <<central, cancel, flight, faults, crashes>>

\* An exception before the pipeline has a spool.
PipelineRaises ==
    /\ wk.pc = "scan"
    /\ Go("error")
    /\ UNCHANGED <<central, disk, cancel, flight, faults, crashes>>

-----------------------------------------------------------------------------
(* finish_pipeline_run *)

\* persist_artifacts, then cleanup_staging.  A resumed run skips artifacts
\* whose file is gone; _upload_artifact repeats a transient failure, so a
\* fault leaves the thread where it is or raises.
NoArtifacts ==
    /\ wk.pc = "raw" /\ ~disk[wk.job].raw
    /\ Go("provenance")
    /\ UNCHANGED <<central, disk, cancel, flight, faults, crashes>>

PersistArtifacts ==
    /\ wk.pc = "raw" /\ disk[wk.job].raw
    /\ \/ /\ Answered(Upload("raw"))
          /\ disk' = [disk EXCEPT ![wk.job].raw = FALSE]
          /\ Go("provenance")
       \/ /\ Fails(Upload("raw"))
          /\ Go("raw") \/ Go("error")
          /\ UNCHANGED disk
    /\ UNCHANGED <<cancel, crashes>>

\* A failure is kept for the completion and the upload goes on.
PersistProvenance ==
    /\ wk.pc = "provenance"
    /\ \/ Answered(Upload("provenance")) /\ Go("chunks")
       \/ Fails(Upload("provenance")) /\ wk' = [wk EXCEPT !.pc = "chunks", !.bad = TRUE]
    /\ UNCHANGED <<disk, cancel, crashes>>

\* The first chunk still on disk, in the order of Kinds.
NextChunk ==
    Kinds[CHOOSE i \in 1 .. 3 :
            /\ Kinds[i] \in disk[wk.job].ready
            /\ \A n \in 1 .. i - 1 : Kinds[n] \notin disk[wk.job].ready]

\* Mutated form: the chunk is deleted although the call failed.
SubmitChunk_Deletes ==
    /\ wk.pc = "chunks" /\ disk[wk.job].ready # {}
    /\ Answered(Upload(NextChunk)) \/ Fails(Upload(NextChunk))
    /\ Go("ack")
    /\ UNCHANGED <<disk, cancel, crashes>>

SubmitChunk ==
    /\ wk.pc = "chunks" /\ disk[wk.job].ready # {}
    /\ \/ Answered(Upload(NextChunk)) /\ Go("ack")
       \/ Fails(Upload(NextChunk)) /\ wk' = [wk EXCEPT !.pc = "complete", !.bad = TRUE]
    /\ UNCHANGED <<disk, cancel, crashes>>

AckDelete ==
    /\ wk.pc = "ack"
    /\ disk' = [disk EXCEPT ![wk.job].ready = @ \ {NextChunk}]
    /\ Go("chunks")
    /\ UNCHANGED <<central, cancel, flight, faults, crashes>>

\* Mutated form: a chunk that could not be sent is passed over.
NoMoreChunks_Skips ==
    /\ wk.pc \in {"chunks", "complete"} /\ wk' = [wk EXCEPT !.pc = "complete", !.bad = FALSE]
    /\ UNCHANGED <<central, disk, cancel, flight, faults, crashes>>

NoMoreChunks ==
    /\ wk.pc = "chunks" /\ disk[wk.job].ready = {}
    /\ Go("complete")
    /\ UNCHANGED <<central, disk, cancel, flight, faults, crashes>>

\* The one completion call; ok only without any error before it.
CompleteRun ==
    /\ wk.pc = "complete"
    /\ LET call == Complete(~wk.failed /\ ~wk.bad, wk.text) IN
       \/ Answered(call) /\ Go("end")
       \/ Fails(call) /\ Go("error")
    /\ UNCHANGED <<disk, cancel, crashes>>

\* The except clauses of run_job and execute_wan_job: a finished spool is
\* kept for the next attempt, anything else is cleaned up and reported.
KeepSpool ==
    /\ wk.pc = "error" /\ disk[wk.job].done
    /\ Go("end")
    /\ UNCHANGED <<central, disk, cancel, flight, faults, crashes>>

ReportError ==
    /\ wk.pc = "error" /\ ~disk[wk.job].done
    /\ Answered(Complete(FALSE, FALSE)) \/ Fails(Complete(FALSE, FALSE))
    /\ disk' = [disk EXCEPT ![wk.job].raw = FALSE]
    /\ Go("end")
    /\ UNCHANGED <<cancel, crashes>>

\* Steps of the executing thread once it has a run.
Execute ==
    \/ Resume \/ Scan \/ MarkComplete \/ PipelineFails \/ PipelineRaises
    \/ NoArtifacts \/ PersistArtifacts \/ PersistProvenance
    \/ SubmitChunk \/ AckDelete \/ NoMoreChunks \/ CompleteRun
    \/ KeepSpool \/ ReportError

CentralSteps == Deliver \/ Expire \/ ForceCancel

-----------------------------------------------------------------------------
(* Properties *)

\* A run is done only with every part of its results stored and each finding
\* counted once, whatever was lost, sent again, delayed or interrupted by a
\* crash (POST /complete is the only successful finalization).
DoneIsComplete ==
    \A j \in Jobs : central[j].status = "done" =>
        central[j].held = Parts /\ central[j].count = Findings

\* findings_count is the number of findings stored, although a chunk whose
\* answer was lost is sent again and may arrive late as well.
CountedOnce ==
    \A j \in Jobs : central[j].count =
        IF "findings" \in central[j].held THEN Findings ELSE 0

\* A finished spool lacks a chunk, or its raw artifacts, only when central
\* holds them: ack_delete and cleanup_staging come after the answer.
DeletedIsStored ==
    \A j \in Jobs : disk[j].done =>
        /\ KindSet \ disk[j].ready \subseteq central[j].held
        /\ disk[j].raw \/ "raw" \in central[j].held

\* The raw artifacts of a finished run that is still running at central are
\* deleted only after central acknowledged them.
RawIsRetained ==
    [][\A j \in Jobs :
          disk[j].done /\ disk[j].raw /\ central[j].status = "running"
              /\ "raw" \notin central[j].held
          => disk'[j].raw \/ "raw" \in central'[j].held]_<<central, disk>>
=============================================================================
