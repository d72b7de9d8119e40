--------------------------- MODULE ScannerWorker ---------------------------
(***************************************************************************)
(* The central scanner process (scanner_main.py): one loop that resumes    *)
(* finished spools and then executes the queued WAN runs it listed, and a  *)
(* watcher thread per run that asks central for the cancel request.        *)
(***************************************************************************)
EXTENDS ResultUpload

VARIABLE loop           \* the main loop: where it is, the runs still to execute

LoopTop == [pc |-> "top", todo |-> {}]

ScannerTypeOK == loop \in [pc : {"top", "probe", "jobs"}, todo : SUBSET Jobs]

InitScanner == loop = LoopTop

Done == {j \in Jobs : disk[j].done}
Begin(j, pc) ==
    /\ wk' = [Free EXCEPT !.pc = pc, !.job = j, !.resume = (pc = "resume")]
    /\ cancel' = FALSE

\* try_resume_completed_jobs: a finished spool whose run is still running is
\* resumed and the rest is left to the next round ...
TryResume ==
    /\ loop.pc = "top" /\ wk.pc = "wait"
    /\ IF Done = {} THEN loop' = [loop EXCEPT !.pc = "jobs"] /\ UNCHANGED <<wk, cancel>>
       ELSE /\ central[Oldest(Done)].status = "running"
            /\ Begin(Oldest(Done), "resume")
            /\ loop' = [loop EXCEPT !.pc = "jobs"]
    /\ UNCHANGED <<central, disk, flight, faults, crashes>>

\* Mutated form: the spool of a run that has ended is left alone.
ScannerAbandons_Unread ==
    /\ loop.pc = "top" /\ wk.pc = "wait" /\ Done # {}
    /\ Fault
    /\ disk' = [disk EXCEPT ![Oldest(Done)] = NoSpool]
    /\ UNCHANGED <<central, wk, cancel, flight, crashes, loop>>

\* ... any other is abandoned, as is one whose status could not be read.
ScannerAbandons ==
    /\ loop.pc = "top" /\ wk.pc = "wait" /\ Done # {}
    /\ LET j == Oldest(Done) IN
        /\ \/ central[j].status # "running" /\ UNCHANGED faults
           \/ Fault
        /\ disk' = [disk EXCEPT ![j] = NoSpool]
    /\ UNCHANGED <<central, wk, cancel, flight, crashes, loop>>

\* GET /jobs lists the queued runs once; a failed call ends the round.
ListJobs ==
    /\ loop.pc = "jobs" /\ wk.pc = "wait" /\ loop.todo = {}
    /\ \/ loop' = [loop EXCEPT !.todo = {j \in Jobs : central[j].status = "queued"}]
          /\ loop'.todo # {}
       \/ loop' = LoopTop
    /\ UNCHANGED uploadVars

\* execute_wan_job: POST /start; an error is raised to the main loop, which
\* forgets the rest of the list.
StartWan ==
    /\ loop.pc = "jobs" /\ wk.pc = "wait"
    /\ loop.todo # {}
    /\ LET j == Oldest(loop.todo) IN
        \/ /\ central[j].status = "queued"
           /\ central' = [central EXCEPT ![j].status = "running"]
           /\ \/ /\ Begin(j, "scan") /\ disk' = Recovered(j)
                 /\ loop' = [loop EXCEPT !.todo = @ \ {j}]
                 /\ UNCHANGED faults
              \/ Fault /\ loop' = LoopTop /\ UNCHANGED <<disk, wk, cancel>>
        \/ /\ central[j].status # "queued"
           /\ loop' = LoopTop
           /\ UNCHANGED <<central, disk, wk, cancel, faults>>
    /\ UNCHANGED <<flight, crashes>>

\* Its token needs no refresh.
NoRefresh ==
    /\ wk.pc = "refresh" /\ Go("raw")
    /\ UNCHANGED <<central, disk, cancel, flight, faults, crashes, loop>>

\* The next run of the list, or, after an exception, the next round.
EndWan ==
    /\ wk.pc = "end" /\ wk' = Free
    /\ loop' = LoopTop \/ UNCHANGED loop
    /\ UNCHANGED <<central, disk, cancel, flight, faults, crashes>>

\* _watch_cancel
WatchCancel ==
    /\ wk.job # NoJob /\ central[wk.job].asked /\ ~cancel
    /\ cancel' = TRUE
    /\ UNCHANGED <<central, disk, wk, flight, faults, crashes, loop>>

ScannerCrash ==
    /\ crashes > 0
    /\ crashes' = crashes - 1
    /\ wk' = Free /\ cancel' = FALSE /\ loop' = LoopTop
    /\ UNCHANGED <<central, disk, flight, faults>>

LoopStep ==
    \/ TryResume \/ ScannerAbandons \/ ListJobs \/ StartWan \/ NoRefresh \/ EndWan
    \/ Execute /\ UNCHANGED loop

NextScanner ==
    \/ LoopStep \/ WatchCancel \/ ScannerCrash
    \/ CentralSteps /\ UNCHANGED loop

-----------------------------------------------------------------------------
\* A finished spool of the central scanner does not stay on disk: it is
\* uploaded or abandoned and its directory removed.
FinishedIsCleared == ~lan /\ Done # {} ~> Done = {}
=============================================================================
