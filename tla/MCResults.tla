---------------------------- MODULE MCResults ----------------------------
(* Results of LAN runs, executed by an agent, and of WAN runs, executed by *)
(* the central scanner.  The two workers share no run: a behaviour shows   *)
(* one of them, as lan says.                                               *)
EXTENDS AgentWorker, ScannerWorker

vars == <<uploadVars, agentVars, loop, lan>>

TypeOK == UploadTypeOK /\ AgentTypeOK /\ ScannerTypeOK

\* Few runs meet more trouble than many: MaxLoad bounds the sum.
CONSTANT MaxLoad
Init ==
    /\ InitUpload /\ InitAgent /\ InitScanner
    /\ Cardinality(Queued) + faults + crashes <= MaxLoad

Next ==
    \/ lan /\ NextAgent /\ UNCHANGED <<loop, lan>>
    \/ ~lan /\ NextScanner /\ UNCHANGED <<agentVars, lan>>

\* The threads run, none of them suspended for ever, and the scheduler's
\* pass over stuck runs comes round.
Fairness ==
    /\ WF_vars(lan /\ WorkerStep /\ UNCHANGED <<loop, lan>>)
    /\ WF_vars(lan /\ ControlStep /\ UNCHANGED <<loop, lan>>)
    /\ WF_vars(~lan /\ LoopStep /\ UNCHANGED <<agentVars, lan>>)
    /\ WF_vars(ForceCancel /\ UNCHANGED <<agentVars, loop, lan>>)

Spec == Init /\ [][Next]_vars /\ Fairness
=============================================================================
