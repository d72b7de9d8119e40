--------------------------- MODULE ScanJobsProofs ---------------------------
(***************************************************************************)
(* Proofs about ScanJobs for every set of jobs, agents and requests:       *)
(* type correctness, the exclusive claim, one running run per agent, the   *)
(* permanence of claims and of endings, and the refinement of RunClaims.   *)
(***************************************************************************)
EXTENDS ScanJobs, TLAPS

(* Types of the helpers.                                                    *)

LEMMA WritesTyped ==
    ASSUME NEW W, NEW seen, NEW row \in Row(W), NEW w \in W \cup {NoOne},
           NEW cancelText \in BOOLEAN
    PROVE  /\ ClaimWrite(row, w) \in Row(W)
           /\ FailWrite(seen, row) \in Row(W)
           /\ CancelWrite(seen, row) \in Row(W)
           /\ CancelRequestWrite(seen, row) \in Row(W)
           /\ MissedWrite(row) \in Row(W)
           /\ DoneWrite(row) \in Row(W)
           /\ ReportWrite(seen, row, cancelText) \in Row(W)
BY DEF Row, Statuses, Active, Terminal, Pending, ClaimWrite, FailWrite, CancelWrite,
       CancelRequestWrite, MissedWrite, DoneWrite, ReportWrite

LEMMA CreatedTyped ==
    ASSUME NEW W, NEW s \in Statuses
    PROVE  Created(s) \in Row(W)
BY DEF Row, Created, Absent, Statuses

LEMMA StartableTyped ==
    ASSUME NEW lan
    PROVE  Startable(lan) \subseteq Pending
BY DEF Startable, Pending

LEMMA SeeTyped ==
    ASSUME NEW W, NEW row \in Row(W)
    PROVE  See(row) \in Seen
BY DEF Row, See, Seen

LEMMA IdleTyped == Idle \in Request
BY DEF Idle, Request, PCs, See, Seen, Absent, Statuses

LEMMA InitTyped == Init => TypeOK
<1> SUFFICES ASSUME Init PROVE TypeOK
  OBVIOUS
<1>1. Absent \in Row(Workers)
  BY DEF Absent, Row, Statuses
<1> QED
  BY <1>1, IdleTyped DEF Init, TypeOK

LEMMA LoadTyped ==
    ASSUME TypeOK, NEW r \in Requests, NEW pc \in PCs, NEW w \in Workers \cup {NoOne},
           NEW j \in Jobs, Load(r, pc, w, j)
    PROVE  req' \in [Requests -> Request]
BY SeeTyped, IdleTyped DEF TypeOK, Load, Request

LEMMA MoveToTyped ==
    ASSUME TypeOK, NEW r \in Requests, NEW pc \in PCs, MoveTo(r, pc)
    PROVE  req' \in [Requests -> Request]
BY DEF TypeOK, MoveTo, Request

LEMMA FinishTyped ==
    ASSUME TypeOK, NEW r \in Requests, Finish(r)
    PROVE  req' \in [Requests -> Request]
BY IdleTyped DEF TypeOK, Finish

LEMMA UpdateTyped ==
    ASSUME TypeOK, NEW j, NEW row, j \in Jobs => row \in Row(Workers)
    PROVE  [jobs EXCEPT ![j] = row] \in [Jobs -> Row(Workers)]
BY DEF TypeOK

-----------------------------------------------------------------------------
(* Type correctness: every request, pass and instant keeps TypeOK.          *)

LEMMA TypeStep == TypeOK /\ [Next]_vars => TypeOK'
<1> SUFFICES ASSUME TypeOK, [Next]_vars PROVE TypeOK'
  OBVIOUS
<1> USE DEF time
<1>1. ASSUME NEW j \in Jobs, Create(j) PROVE TypeOK'
  <2>1. PICK s \in Startable(j \in LanJobs) : jobs' = [jobs EXCEPT ![j] = Created(s)]
    BY <1>1 DEF Create
  <2>2. Created(s) \in Row(Workers)
    <3>1. s \in Statuses
      BY StartableTyped DEF Statuses, Active
    <3> QED
      BY <3>1, CreatedTyped
  <2> QED
    BY <1>1, <2>1, <2>2 DEF Create, TypeOK
<1>2. ASSUME NEW j \in Jobs, DeadlinePasses(j) \/ GracePasses(j) \/ WaitPasses(j)
      PROVE  TypeOK'
  BY <1>2 DEF DeadlinePasses, GracePasses, WaitPasses, TypeOK
<1>3. ASSUME NEW r \in Requests, NEW w \in Workers, Poll(r, w) PROVE TypeOK'
  <2>1. PICK listed \in SUBSET Jobs :
          req' = [req EXCEPT ![r] = [Idle EXCEPT !.pc = "polling", !.todo = listed]]
    BY <1>3 DEF Poll
  <2>2. [Idle EXCEPT !.pc = "polling", !.todo = listed] \in Request
    BY IdleTyped DEF Request, PCs
  <2> QED
    BY <1>3, <2>1, <2>2 DEF Poll, TypeOK
<1>4. ASSUME NEW r \in Requests, NEW w \in Workers, NEW j \in Jobs, Start(r, w, j)
      PROVE  TypeOK'
  <2>1. req' \in [Requests -> Request]
    BY <1>4, LoadTyped DEF Start, PCs
  <2> QED
    BY <1>4, <2>1 DEF Start, TypeOK
<1>5. ASSUME NEW r \in Requests, NEW j \in Jobs, Complete(r, j) \/ Report(r, j)
      PROVE  TypeOK'
  <2>1. req' \in [Requests -> Request]
    BY <1>5, LoadTyped DEF Complete, Report, PCs
  <2> QED
    BY <1>5, <2>1 DEF Complete, Report, TypeOK
<1>6. ASSUME NEW r \in Requests, PollBlocked(r) PROVE TypeOK'
  <2>1. PICK j \in req[r].todo :
          req' = [req EXCEPT ![r].pc = "failing", ![r].job = j, ![r].todo = @ \ {j},
                     ![r].seen = IF req[r].refreshed THEN See(jobs[j])
                                 ELSE See(Created("queued"))]
    BY <1>6 DEF PollBlocked
  <2>2. j \in Jobs
    BY <2>1 DEF TypeOK, Request
  <2>3. See(jobs[j]) \in Seen /\ See(Created("queued")) \in Seen
    BY <2>2, SeeTyped, CreatedTyped DEF TypeOK, Statuses, Active, Pending
  <2>4. req' \in [Requests -> Request]
    BY <2>1, <2>2, <2>3 DEF TypeOK, Request, PCs
  <2> QED
    BY <1>6, <2>4 DEF PollBlocked, TypeOK
<1>7. ASSUME NEW r \in Requests, FailCommit(r) PROVE TypeOK'
  <2>1. jobs' \in [Jobs -> Row(Workers)]
    BY <1>7, WritesTyped DEF FailCommit, TypeOK
  <2>2. [Idle EXCEPT !.pc = "polling", !.todo = req[r].todo, !.refreshed = TRUE] \in Request
    BY IdleTyped DEF Request, PCs, TypeOK
  <2>3. req' \in [Requests -> Request]
    BY <1>7, <2>2, FinishTyped DEF FailCommit, TypeOK
  <2> QED
    BY <1>7, <2>1, <2>3 DEF FailCommit, TypeOK
<1>8. ASSUME NEW r \in Requests, LockAgentRow(r) \/ Claim(r) PROVE TypeOK'
  <2>1. req' \in [Requests -> Request]
    BY <1>8, MoveToTyped DEF LockAgentRow, Claim, PCs
  <2> QED
    BY <1>8, <2>1 DEF LockAgentRow, Claim, TypeOK
<1>9. ASSUME NEW r \in Requests, Rollback(r) PROVE TypeOK'
  BY <1>9, FinishTyped DEF Rollback, TypeOK
<1>10. ASSUME NEW r \in Requests, StartCommit(r) \/ StartCommitBlocked(r)
       PROVE  TypeOK'
  <2> DEFINE j == req[r].job
             claimed == ClaimWrite(jobs[j], req[r].who)
  <2>1. j \in Jobs => claimed \in Row(Workers) /\ FailWrite(See(claimed), claimed) \in Row(Workers)
    BY WritesTyped DEF TypeOK, Request
  <2>2. jobs' \in [Jobs -> Row(Workers)]
    BY <1>10, <2>1, UpdateTyped DEF StartCommit, StartCommitBlocked
  <2> QED
    BY <1>10, <2>2, FinishTyped DEF StartCommit, StartCommitBlocked, TypeOK
<1>11. ASSUME NEW r \in Requests, CompleteCommit(r) PROVE TypeOK'
  <2>1. jobs' \in [Jobs -> Row(Workers)]
    BY <1>11, WritesTyped, UpdateTyped DEF CompleteCommit, TypeOK
  <2> QED
    BY <1>11, <2>1, FinishTyped DEF CompleteCommit, TypeOK
<1>12. ASSUME NEW r \in Requests, ReportCommit(r) PROVE TypeOK'
  <2>1. jobs' \in [Jobs -> Row(Workers)]
    BY <1>12, WritesTyped, UpdateTyped DEF ReportCommit, TypeOK
  <2> QED
    BY <1>12, <2>1, FinishTyped DEF ReportCommit, TypeOK
<1>13. CASE ExpireWaitingRead \/ ExpireStuckRead \/ SchedulerRestart
  BY <1>13 DEF ExpireWaitingRead, ExpireStuckRead, SchedulerRestart, TypeOK
<1>14. CASE ExpireWaitingCommit
  BY <1>14, WritesTyped DEF ExpireWaitingCommit, TypeOK
<1>15. CASE ExpireStuckCommit
  BY <1>15, WritesTyped DEF ExpireStuckCommit, TypeOK
<1>16. CASE UNCHANGED vars
  BY <1>16 DEF vars, TypeOK
<1> QED
  BY <1>1, <1>2, <1>3, <1>4, <1>5, <1>6, <1>7, <1>8, <1>9, <1>10, <1>11, <1>12,
     <1>13, <1>14, <1>15, <1>16 DEF Next, RequestStep

\* Type correctness: every row of scan_jobs keeps a status the code knows and a
\* worker or NULL in claimed_by, and every request is in a known state.
THEOREM TypeCorrect == Spec => []TypeOK
<1>1. Init => TypeOK
  BY InitTyped
<1>2. TypeOK /\ [Next]_vars => TypeOK'
  BY TypeStep
<1> QED
  BY <1>1, <1>2, PTL DEF Spec
-----------------------------------------------------------------------------
(* What a step does to a row, seen from dispatch: a Quiet change creates it *)
(* or ends it, and never takes it.                                         *)

Quiet(row, new) ==
    /\ new.claimed_by = row.claimed_by
    /\ \/ new.status = row.status
       \/ row.status # "absent" /\ new.status \in Terminal
       \/ row.status = "absent" /\ new.status \in Pending

LEMMA WritesQuiet ==
    ASSUME NEW row \in Row(Workers), row.status # "absent", NEW seen, NEW cancelText
    PROVE  /\ Quiet(row, FailWrite(seen, row))
           /\ Quiet(row, CancelWrite(seen, row))
           /\ Quiet(row, CancelRequestWrite(seen, row))
           /\ Quiet(row, MissedWrite(row))
           /\ Quiet(row, DoneWrite(row))
           /\ Quiet(row, ReportWrite(seen, row, cancelText))
BY DEF Row, Quiet, FailWrite, CancelWrite, CancelRequestWrite, MissedWrite, DoneWrite,
       ReportWrite, Terminal

\* What a request may become without holding a lock.
Unlocked(q) ==
    /\ q.pc \notin {"locked", "claimed"}
    /\ q.pc \notin {"idle", "polling"} => q.job \in Jobs /\ Present(q.job)
    /\ \A j \in q.todo : Present(j)
    /\ q.pc = "starting" => q.who \in Pool(q.job)

\* A step that takes no lock and no run keeps the inductive invariant.
LEMMA QuietStep ==
    ASSUME Inv, TypeOK',
           \A j \in Jobs : Quiet(jobs[j], jobs'[j]),
           \A j \in Jobs : ~RowFree(j) => jobs'[j] = jobs[j],
           \A q \in Requests : req'[q] = req[q] \/ Unlocked(req'[q]),
           \A j \in expiring' \cup stuck'.mark \cup stuck'.force : Present(j)
    PROVE  Inv'
<1>1. \A j \in Jobs : Present(j) => Present(j)'
  BY DEF Quiet, Present, Terminal
<1>2. \A j \in Jobs : jobs'[j].status = "running"
                      => jobs[j].status = "running" /\ jobs[j].claimed_by = jobs'[j].claimed_by
  BY DEF Quiet, Terminal, Pending
<1>3. LoadedIsPresent'
  <2>1. ASSUME NEW q \in Requests, req'[q].pc \notin {"idle", "polling"}
        PROVE  req'[q].job \in Jobs /\ jobs'[req'[q].job].status # "absent"
    <3>1. req'[q].job \in Jobs /\ Present(req'[q].job)
      BY <2>1 DEF Inv, LoadedIsPresent, Unlocked
    <3> QED
      BY <3>1, <1>1 DEF Present
  <2>2. ASSUME NEW q \in Requests, NEW j \in req'[q].todo PROVE Present(j)'
    <3>1. j \in Jobs
      BY DEF TypeOK, Request
    <3>2. Present(j)
      BY DEF Inv, LoadedIsPresent, Unlocked
    <3> QED
      BY <3>1, <3>2, <1>1
  <2>3. ASSUME NEW j \in expiring' \cup stuck'.mark \cup stuck'.force PROVE Present(j)'
    BY <1>1 DEF TypeOK
  <2> QED
    BY <2>1, <2>2, <2>3 DEF LoadedIsPresent, Present
<1>4. StartersInPool'
  BY DEF Inv, StartersInPool, Unlocked, Pool
<1>5. AgentLockIsExclusive'
  BY DEF Inv, AgentLockIsExclusive, Unlocked
<1>6. ClaimIsExclusive'
  <2>1. ASSUME NEW r \in Requests, req'[r].pc = "claimed"
        PROVE  /\ Claimable(jobs'[req'[r].job], req'[r].job \in LanJobs)
               /\ req[r].pc = "claimed" /\ req'[r] = req[r]
    <3>1. req'[r] = req[r]
      BY <2>1 DEF Unlocked
    <3>2. req[r].job \in Jobs /\ ~RowFree(req[r].job)
      BY <2>1, <3>1 DEF Inv, LoadedIsPresent, RowFree
    <3> QED
      BY <2>1, <3>1, <3>2 DEF Inv, ClaimIsExclusive
  <2> QED
    BY <2>1 DEF Inv, ClaimIsExclusive
<1>7. ClaimerIsNotBusy'
  BY <1>2 DEF Inv, ClaimerIsNotBusy, Unlocked, Busy
<1>8. OneRunningPerAgent'
  BY <1>2 DEF Inv, OneRunningPerAgent
<1>9. PendingIsUnclaimed'
  BY DEF Inv, PendingIsUnclaimed, Quiet, Pending, Terminal
<1> QED
  BY <1>3, <1>4, <1>5, <1>6, <1>7, <1>8, <1>9 DEF Inv
-----------------------------------------------------------------------------
(* The inductive invariant.                                                 *)

LEMMA InitInv == Init => Inv
<1> SUFFICES ASSUME Init PROVE Inv
  OBVIOUS
<1>1. TypeOK
  BY InitTyped
<1>2. \A r \in Requests : req[r].pc = "idle" /\ req[r].todo = {}
  BY DEF Init, Idle
<1>3. \A j \in Jobs : jobs[j].status = "absent"
  BY DEF Init, Absent
<1>4. LoadedIsPresent
  BY <1>2 DEF Init, LoadedIsPresent
<1>5. PendingIsUnclaimed
  BY DEF Init, PendingIsUnclaimed, Absent
<1> QED
  BY <1>1, <1>2, <1>3, <1>4, <1>5 DEF Inv, StartersInPool, AgentLockIsExclusive, ClaimIsExclusive,
     ClaimerIsNotBusy, OneRunningPerAgent

\* A step that leaves the committed rows alone is quiet on every row.
LEMMA SameRowsQuiet ==
    ASSUME jobs' = jobs
    PROVE  /\ \A j \in Jobs : Quiet(jobs[j], jobs'[j])
           /\ \A j \in Jobs : ~RowFree(j) \/ ~Present(j) => jobs'[j] = jobs[j]
BY DEF Quiet

\* A commit changes rows that exist and that no claim holds, quietly.
LEMMA CommitQuiet ==
    ASSUME Inv, NEW r \in Requests, FailCommit(r) \/ CompleteCommit(r) \/ ReportCommit(r)
    PROVE  /\ \A j \in Jobs : Quiet(jobs[j], jobs'[j])
           /\ \A j \in Jobs : ~RowFree(j) \/ ~Present(j) => jobs'[j] = jobs[j]
<1> DEFINE k == req[r].job
<1>1. k \in Jobs /\ jobs[k].status # "absent" /\ RowFree(k)
  BY DEF Inv, LoadedIsPresent, Present, FailCommit, CompleteCommit, ReportCommit
<1>2. jobs[k] \in Row(Workers)
  BY <1>1 DEF Inv, TypeOK
<1>3. PICK new : jobs' = [jobs EXCEPT ![k] = new] /\ Quiet(jobs[k], new)
  BY <1>1, <1>2, WritesQuiet DEF FailCommit, CompleteCommit, ReportCommit
<1>4. jobs'[k] = new /\ \A j \in Jobs \ {k} : jobs'[j] = jobs[j]
  BY <1>1, <1>3 DEF Inv, TypeOK
<1> QED
  BY <1>1, <1>3, <1>4 DEF Quiet, Present

LEMMA PassQuiet ==
    ASSUME Inv, ExpireWaitingCommit \/ ExpireStuckCommit
    PROVE  /\ \A j \in Jobs : Quiet(jobs[j], jobs'[j])
           /\ \A j \in Jobs : ~RowFree(j) \/ ~Present(j) => jobs'[j] = jobs[j]
<1>1. ASSUME NEW j \in Jobs
      PROVE  /\ Quiet(jobs[j], jobs'[j])
             /\ ~RowFree(j) \/ ~Present(j) => jobs'[j] = jobs[j]
  <2>1. jobs[j] \in Row(Workers)
    BY DEF Inv, TypeOK
  <2>2. CASE ExpireWaitingCommit
    <3>1. CASE j \in expiring
      <4>1. jobs[j].status # "absent" /\ RowFree(j) /\ jobs'[j] = MissedWrite(jobs[j])
        BY <2>2, <3>1 DEF Inv, LoadedIsPresent, Present, ExpireWaitingCommit
      <4> QED
        BY <2>1, <4>1, WritesQuiet DEF Present
    <3>2. CASE j \notin expiring
      BY <2>2, <3>2 DEF ExpireWaitingCommit, Quiet
    <3> QED
      BY <3>1, <3>2
  <2>3. CASE ExpireStuckCommit
    <3>1. CASE j \in stuck.mark \cup stuck.force
      <4>1. jobs[j].status # "absent" /\ RowFree(j)
        BY <2>3, <3>1 DEF Inv, LoadedIsPresent, Present, ExpireStuckCommit
      <4>2. \/ jobs'[j] = CancelRequestWrite(
                              [status |-> "running", cancel_requested |-> FALSE], jobs[j])
            \/ jobs'[j] = CancelWrite(
                              [status |-> "running", cancel_requested |-> TRUE], jobs[j])
        BY <2>3, <3>1 DEF ExpireStuckCommit
      <4> QED
        BY <2>1, <4>1, <4>2, WritesQuiet DEF Present
    <3>2. CASE j \notin stuck.mark \cup stuck.force
      BY <2>3, <3>2 DEF ExpireStuckCommit, Quiet
    <3> QED
      BY <3>1, <3>2
  <2> QED
    BY <2>2, <2>3
<1> QED
  BY <1>1

\* Every step but the lock, the claim and its commit takes nothing.
Taking(r) == LockAgentRow(r) \/ Claim(r) \/ StartCommit(r) \/ StartCommitBlocked(r)

LEMMA IdleUnlocked == Unlocked(Idle)
BY DEF Unlocked, Idle

LEMMA NonTakingIsQuiet ==
    ASSUME Inv, [Next]_vars, \A r \in Requests : ~Taking(r)
    PROVE  /\ \A j \in Jobs : Quiet(jobs[j], jobs'[j])
           /\ \A j \in Jobs : ~RowFree(j) => jobs'[j] = jobs[j]
           /\ \A q \in Requests : req'[q] = req[q] \/ Unlocked(req'[q])
           /\ \A j \in expiring' \cup stuck'.mark \cup stuck'.force : Present(j)
           /\ \/ \E j \in Jobs : Create(j)
              \/ \A j \in Jobs : ~Present(j) => jobs'[j] = jobs[j]
<1> DEFINE Goal == /\ \A j \in Jobs : Quiet(jobs[j], jobs'[j])
                   /\ \A j \in Jobs : ~RowFree(j) => jobs'[j] = jobs[j]
                   /\ \A q \in Requests : req'[q] = req[q] \/ Unlocked(req'[q])
                   /\ \A j \in expiring' \cup stuck'.mark \cup stuck'.force : Present(j)
                   /\ \/ \E j \in Jobs : Create(j)
                      \/ \A j \in Jobs : ~Present(j) => jobs'[j] = jobs[j]
           PassesSame == expiring' = expiring /\ stuck' = stuck
<1> SUFFICES Goal
  OBVIOUS
<1>0. PassesSame => \A j \in expiring' \cup stuck'.mark \cup stuck'.force : Present(j)
  BY DEF Inv, LoadedIsPresent
<1>1. ASSUME NEW j \in Jobs, Create(j) PROVE Goal
  <2>1. PICK s \in Pending : jobs' = [jobs EXCEPT ![j] = Created(s)]
    BY <1>1, StartableTyped DEF Create
  <2>2. Quiet(jobs[j], Created(s))
    BY <1>1 DEF Create, Quiet, Created, Absent, Inv, PendingIsUnclaimed
  <2>3. RowFree(j)
    BY <1>1 DEF Create, Inv, ClaimIsExclusive, RowFree, Claimable, Startable, Pending
  <2>4. jobs'[j] = Created(s) /\ \A k \in Jobs \ {j} : jobs'[k] = jobs[k]
    BY <2>1 DEF Inv, TypeOK
  <2> QED
    BY <1>0, <1>1, <2>2, <2>3, <2>4 DEF Create, Quiet
<1>2. ASSUME NEW j \in Jobs, DeadlinePasses(j) \/ GracePasses(j) \/ WaitPasses(j) PROVE Goal
  BY <1>0, <1>2, SameRowsQuiet DEF DeadlinePasses, GracePasses, WaitPasses
<1>3. ASSUME NEW r \in Requests, NEW new, Unlocked(new), req' = [req EXCEPT ![r] = new],
             jobs' = jobs, PassesSame
      PROVE  Goal
  <2>1. \A q \in Requests : req'[q] = req[q] \/ Unlocked(req'[q])
    BY <1>3 DEF Inv, TypeOK
  <2> QED
    BY <1>0, <1>3, <2>1, SameRowsQuiet
<1>4. ASSUME NEW r \in Requests, NEW w \in Workers, Poll(r, w) PROVE Goal
  <2> DEFINE listed == {j \in Jobs : w \in Pool(j) /\ jobs[j].status \in Startable(j \in LanJobs)}
             new == [Idle EXCEPT !.pc = "polling", !.todo = listed]
  <2>1. Unlocked(new)
    BY StartableTyped DEF Unlocked, Idle, Present, Pending
  <2> QED
    BY <1>3, <1>4, <2>1 DEF Poll, Pool
<1>5. ASSUME NEW r \in Requests, NEW w \in Workers, NEW j \in Jobs, Start(r, w, j) PROVE Goal
  <2>1. PICK pc \in {"starting", "failing"}, u \in Workers \cup {NoOne} :
          /\ Load(r, pc, u, j)
          /\ pc = "starting" => u = w
    BY <1>5 DEF Start
  <2>2. Unlocked([Idle EXCEPT !.pc = pc, !.who = u, !.job = j, !.seen = See(jobs[j])])
    BY <1>5, <2>1, StartableTyped DEF Start, Unlocked, Idle, Present, Pending
  <2> QED
    BY <1>3, <1>5, <2>1, <2>2 DEF Start, Load
<1>6. ASSUME NEW r \in Requests, NEW j \in Jobs, Complete(r, j) \/ Report(r, j) PROVE Goal
  <2>1. PICK pc \in {"completing", "reporting", "reportingCancel"} : Load(r, pc, NoOne, j)
    BY <1>6 DEF Complete, Report
  <2>2. jobs[j].status # "absent"
    BY <1>6 DEF Complete, Report, MayComplete, MayReport
  <2>3. Unlocked([Idle EXCEPT !.pc = pc, !.who = NoOne, !.job = j, !.seen = See(jobs[j])])
    BY <2>1, <2>2 DEF Unlocked, Idle, Present
  <2> QED
    BY <1>3, <1>6, <2>1, <2>3 DEF Complete, Report, Load
<1>7. ASSUME NEW r \in Requests, PollBlocked(r) PROVE Goal
  <2>1. PICK j \in req[r].todo :
          req' = [req EXCEPT ![r].pc = "failing", ![r].job = j, ![r].todo = @ \ {j},
                     ![r].seen = IF req[r].refreshed THEN See(jobs[j])
                                 ELSE See(Created("queued"))]
    BY <1>7 DEF PollBlocked
  <2>2. j \in Jobs /\ Present(j)
    BY <2>1 DEF Inv, TypeOK, Request, LoadedIsPresent
  <2>3. Unlocked(req'[r]) /\ \A q \in Requests \ {r} : req'[q] = req[q]
    BY <2>1, <2>2 DEF Unlocked, Inv, TypeOK, Request, LoadedIsPresent
  <2> QED
    BY <1>0, <1>7, <2>3, SameRowsQuiet DEF PollBlocked
<1>8. ASSUME NEW r \in Requests, Rollback(r) PROVE Goal
  BY <1>3, <1>8, IdleUnlocked DEF Rollback, Finish
<1>9. ASSUME NEW r \in Requests, FailCommit(r) PROVE Goal
  <2> DEFINE polling == [Idle EXCEPT !.pc = "polling", !.todo = req[r].todo, !.refreshed = TRUE]
  <2>1. Unlocked(polling)
    BY DEF Unlocked, Idle, Inv, LoadedIsPresent
  <2>2. \A q \in Requests : req'[q] = req[q] \/ Unlocked(req'[q])
    BY <1>9, <2>1, IdleUnlocked DEF FailCommit, Finish, Inv, TypeOK
  <2> QED
    BY <1>0, <1>9, <2>2, CommitQuiet DEF FailCommit
<1>10. ASSUME NEW r \in Requests, CompleteCommit(r) \/ ReportCommit(r) PROVE Goal
  <2>1. \A q \in Requests : req'[q] = req[q] \/ Unlocked(req'[q])
    BY <1>10, IdleUnlocked DEF CompleteCommit, ReportCommit, Finish, Inv, TypeOK
  <2> QED
    BY <1>0, <1>10, <2>1, CommitQuiet DEF CompleteCommit, ReportCommit
<1>11. CASE ExpireWaitingRead
  BY <1>11, SameRowsQuiet DEF ExpireWaitingRead, Present, Inv, LoadedIsPresent
<1>12. CASE ExpireStuckRead
  BY <1>12, SameRowsQuiet DEF ExpireStuckRead, Present, Inv, LoadedIsPresent
<1>13. CASE SchedulerRestart
  BY <1>13, SameRowsQuiet DEF SchedulerRestart
<1>14. CASE ExpireWaitingCommit
  BY <1>14, PassQuiet DEF ExpireWaitingCommit, Inv, LoadedIsPresent
<1>15. CASE ExpireStuckCommit
  BY <1>15, PassQuiet DEF ExpireStuckCommit, Inv, LoadedIsPresent
<1>16. CASE UNCHANGED vars
  BY <1>0, <1>16, SameRowsQuiet DEF vars
<1> QED
  BY <1>1, <1>2, <1>4, <1>5, <1>6, <1>7, <1>8, <1>9, <1>10, <1>11, <1>12, <1>13,
     <1>14, <1>15, <1>16 DEF Next, RequestStep, Taking
LEMMA LockKeepsInv ==
    ASSUME Inv, TypeOK', NEW r \in Requests, LockAgentRow(r)
    PROVE  Inv'
<1>1. /\ req[r].pc = "starting" /\ req[r].job \in LanJobs /\ AgentRowFree(req[r].who)
      /\ jobs' = jobs /\ expiring' = expiring /\ stuck' = stuck
      /\ req'[r] = [req[r] EXCEPT !.pc = "locked"]
      /\ \A q \in Requests \ {r} : req'[q] = req[q]
  BY DEF LockAgentRow, MoveTo, Inv, TypeOK
<1>2. \A q \in Requests : /\ req'[q].job = req[q].job /\ req'[q].who = req[q].who
                          /\ req'[q].todo = req[q].todo
                          /\ req'[q].pc = IF q = r THEN "locked" ELSE req[q].pc
  BY <1>1 DEF Inv, TypeOK, Request
<1>3. LoadedIsPresent'
  BY <1>1, <1>2 DEF Inv, LoadedIsPresent, Present
<1>4. StartersInPool' /\ PendingIsUnclaimed'
  BY <1>1, <1>2 DEF Inv, StartersInPool, PendingIsUnclaimed
<1>5. AgentLockIsExclusive'
  BY <1>1, <1>2 DEF Inv, AgentLockIsExclusive, AgentRowFree
<1>6. ClaimIsExclusive' /\ ClaimerIsNotBusy' /\ OneRunningPerAgent'
  BY <1>1, <1>2 DEF Inv, ClaimIsExclusive, ClaimerIsNotBusy, OneRunningPerAgent, Busy
<1> QED
  BY <1>3, <1>4, <1>5, <1>6 DEF Inv

LEMMA ClaimKeepsInv ==
    ASSUME Inv, TypeOK', NEW r \in Requests, Claim(r)
    PROVE  Inv'
<1>1. /\ req[r].pc \in {"locked", "starting"}
      /\ req[r].pc = "locked" => ~Busy(req[r].who)
      /\ req[r].pc = "starting" => req[r].job \notin LanJobs
      /\ RowFree(req[r].job)
      /\ Claimable(jobs[req[r].job], req[r].job \in LanJobs)
      /\ jobs' = jobs /\ expiring' = expiring /\ stuck' = stuck
      /\ req'[r] = [req[r] EXCEPT !.pc = "claimed"]
      /\ \A q \in Requests \ {r} : req'[q] = req[q]
  BY DEF Claim, MoveTo, Inv, TypeOK
<1>2. \A q \in Requests : /\ req'[q].job = req[q].job /\ req'[q].who = req[q].who
                          /\ req'[q].todo = req[q].todo
                          /\ req'[q].pc = IF q = r THEN "claimed" ELSE req[q].pc
  BY <1>1 DEF Inv, TypeOK, Request
<1>3. req[r].pc = "starting" => req[r].who \notin Agents
  BY <1>1, JobsAssumption DEF Inv, StartersInPool, Pool
<1>4. LoadedIsPresent'
  BY <1>1, <1>2 DEF Inv, LoadedIsPresent, Present
<1>5. StartersInPool' /\ PendingIsUnclaimed'
  BY <1>1, <1>2 DEF Inv, StartersInPool, PendingIsUnclaimed
<1>6. AgentLockIsExclusive'
  BY <1>1, <1>2, <1>3 DEF Inv, AgentLockIsExclusive
<1>7. ClaimIsExclusive'
  BY <1>1, <1>2 DEF Inv, ClaimIsExclusive, RowFree
<1>8. ClaimerIsNotBusy' /\ OneRunningPerAgent'
  BY <1>1, <1>2, <1>3 DEF Inv, ClaimerIsNotBusy, OneRunningPerAgent, Busy
<1> QED
  BY <1>4, <1>5, <1>6, <1>7, <1>8 DEF Inv

\* Both commits of a start: the claimed run goes to the worker, running or failed.
LEMMA CommitOfClaim ==
    ASSUME Inv, NEW r \in Requests, StartCommit(r) \/ StartCommitBlocked(r)
    PROVE  /\ req[r].pc = "claimed" /\ req[r].job \in Jobs
           /\ req[r].who \in Pool(req[r].job)
           /\ Claimable(jobs[req[r].job], req[r].job \in LanJobs)
           /\ jobs'[req[r].job].claimed_by = req[r].who
           /\ jobs'[req[r].job].status \in {"running", "failed"}
           /\ \A j \in Jobs \ {req[r].job} : jobs'[j] = jobs[j]
           /\ req' = [req EXCEPT ![r] = Idle]
           /\ expiring' = expiring /\ stuck' = stuck
<1>1. /\ req[r].pc = "claimed" /\ req[r].job \in Jobs
      /\ req[r].who \in Pool(req[r].job)
      /\ Claimable(jobs[req[r].job], req[r].job \in LanJobs)
  BY DEF Inv, LoadedIsPresent, StartersInPool, ClaimIsExclusive, StartCommit, StartCommitBlocked
<1>2. jobs[req[r].job] \in Row(Workers)
  BY <1>1 DEF Inv, TypeOK
<1> DEFINE claimed == ClaimWrite(jobs[req[r].job], req[r].who)
<1>3. claimed.claimed_by = req[r].who /\ claimed.status = "running"
  BY <1>2 DEF ClaimWrite, Row
<1>4. LET failed == FailWrite(See(claimed), claimed)
      IN  failed.claimed_by = req[r].who /\ failed.status = "failed"
  BY <1>2, <1>3 DEF FailWrite, See, ClaimWrite, Row
<1>5. PICK new \in {claimed, FailWrite(See(claimed), claimed)} :
        jobs' = [jobs EXCEPT ![req[r].job] = new]
  BY DEF StartCommit, StartCommitBlocked
<1>6. /\ jobs'[req[r].job] = new
      /\ \A j \in Jobs \ {req[r].job} : jobs'[j] = jobs[j]
  BY <1>1, <1>5 DEF Inv, TypeOK
<1> QED
  BY <1>1, <1>3, <1>4, <1>5, <1>6 DEF StartCommit, StartCommitBlocked, Finish

LEMMA StartCommitKeepsInv ==
    ASSUME Inv, TypeOK', NEW r \in Requests, StartCommit(r) \/ StartCommitBlocked(r)
    PROVE  Inv'
<1> DEFINE k == req[r].job
           w == req[r].who
<1>1. /\ req[r].pc = "claimed" /\ k \in Jobs
      /\ jobs[k].status \in Pending /\ jobs[k].claimed_by = NoOne
      /\ jobs'[k].claimed_by = w /\ jobs'[k].status \in {"running", "failed"}
      /\ \A j \in Jobs \ {k} : jobs'[j] = jobs[j]
      /\ req' = [req EXCEPT ![r] = Idle]
      /\ expiring' = expiring /\ stuck' = stuck
  BY CommitOfClaim, StartableTyped DEF Claimable
<1>2. req'[r] = Idle /\ \A q \in Requests \ {r} : req'[q] = req[q]
  BY <1>1 DEF Inv, TypeOK
<1>3. LoadedIsPresent'
  BY <1>1, <1>2 DEF Inv, LoadedIsPresent, Present, Idle, TypeOK, Request
<1>4. StartersInPool' /\ AgentLockIsExclusive' /\ PendingIsUnclaimed'
  BY <1>1, <1>2 DEF Inv, StartersInPool, AgentLockIsExclusive, PendingIsUnclaimed, Idle, Pending
<1>5. ClaimIsExclusive'
  <2>1. ASSUME NEW q \in Requests, req'[q].pc = "claimed"
        PROVE  q # r /\ req'[q] = req[q] /\ req[q].job # k
    BY <2>1, <1>1, <1>2 DEF Inv, ClaimIsExclusive, Idle
  <2>2. \A q \in Requests : req[q].pc = "claimed" => req[q].job \in Jobs
    BY DEF Inv, LoadedIsPresent
  <2> QED
    BY <1>1, <2>1, <2>2 DEF Inv, ClaimIsExclusive
<1>6. ClaimerIsNotBusy'
  <2>1. ASSUME NEW q \in Requests, req'[q].pc = "claimed", req'[q].who \in Agents
        PROVE  req'[q] = req[q] /\ req[q].who # w /\ ~Busy(req[q].who)
    BY <2>1, <1>1, <1>2 DEF Inv, AgentLockIsExclusive, ClaimerIsNotBusy, Idle
  <2> QED
    BY <1>1, <2>1 DEF ClaimerIsNotBusy, Busy
<1>7. OneRunningPerAgent'
  <2>1. w \in Agents => ~Busy(w)
    BY <1>1 DEF Inv, ClaimerIsNotBusy
  <2> QED
    BY <1>1, <2>1 DEF Inv, OneRunningPerAgent, Busy
<1> QED
  BY <1>3, <1>4, <1>5, <1>6, <1>7 DEF Inv

LEMMA InvStep == Inv /\ [Next]_vars => Inv'
<1> SUFFICES ASSUME Inv, [Next]_vars PROVE Inv'
  OBVIOUS
<1>1. TypeOK'
  BY TypeStep DEF Inv
<1>2. CASE \E r \in Requests : Taking(r)
  BY <1>1, <1>2, LockKeepsInv, ClaimKeepsInv, StartCommitKeepsInv DEF Taking
<1>3. CASE \A r \in Requests : ~Taking(r)
  BY <1>1, <1>3, NonTakingIsQuiet, QuietStep
<1> QED
  BY <1>2, <1>3

THEOREM InvHolds == Spec => []Inv
<1>1. Init => Inv
  BY InitInv
<1>2. Inv /\ [Next]_vars => Inv'
  BY InvStep
<1> QED
  BY <1>1, <1>2, PTL DEF Spec

\* However many processes present an agent's identity and however their starts
\* interleave with everything else, the agent has at most one running run.
THEOREM OneRunning == Spec => []OneRunningPerAgent
<1>1. Inv => OneRunningPerAgent
  BY DEF Inv
<1> QED
  BY <1>1, InvHolds, PTL

\* No two starts have claimed the same run.
THEOREM ExclusiveClaim == Spec => []ClaimIsExclusive
<1>1. Inv => ClaimIsExclusive
  BY DEF Inv
<1> QED
  BY <1>1, InvHolds, PTL
-----------------------------------------------------------------------------
(* Action properties.                                                       *)

LEMMA StepOfRow ==
    ASSUME Inv, [Next]_vars, NEW j \in Jobs
    PROVE  \/ Quiet(jobs[j], jobs'[j])
           \/ /\ jobs[j].status \in Pending /\ jobs[j].claimed_by = NoOne
              /\ jobs'[j].claimed_by \in Workers
              /\ jobs'[j].status \in {"running", "failed"}
<1>1. CASE \A r \in Requests : ~Taking(r)
  BY <1>1, NonTakingIsQuiet
<1>2. CASE \E r \in Requests : LockAgentRow(r) \/ Claim(r)
  BY <1>2, SameRowsQuiet DEF LockAgentRow, Claim
<1>3. CASE \E r \in Requests : StartCommit(r) \/ StartCommitBlocked(r)
  BY <1>3, CommitOfClaim, StartableTyped DEF Claimable, Quiet, Pool, Workers
<1> QED
  BY <1>1, <1>2, <1>3 DEF Taking

\* No step of any handler, however stale the row it decided on, moves a claimed
\* run to another worker or back to nobody.
THEOREM ClaimsArePermanent == Spec => ClaimIsPermanent
<1>1. Inv /\ [Next]_vars
      => [\A j \in Jobs : jobs[j].claimed_by # NoOne
                            => jobs'[j].claimed_by = jobs[j].claimed_by]_vars
  BY StepOfRow DEF Quiet
<1> QED
  BY <1>1, InvHolds, PTL DEF Spec, ClaimIsPermanent

\* A run that has ended stays ended: stale writers may still exchange one
\* ending for another, but none brings a run back.
THEOREM EndingsArePermanent == Spec => NoResurrection
<1>1. Inv /\ [Next]_vars
      => [\A j \in Jobs : jobs[j].status \in Terminal => jobs'[j].status \in Terminal]_vars
  BY StepOfRow DEF Quiet, Pending, Terminal
<1> QED
  BY <1>1, InvHolds, PTL DEF Spec, NoResurrection

-----------------------------------------------------------------------------
(* A cancel is announced.                                                   *)

\* What expire_stuck_jobs has loaded to be forced was asked to stop, and its
\* grace is over: both stay so until the pass commits.
ForcedIsAnnounced ==
    \A j \in stuck.force : jobs[j].cancel_requested /\ j \in graceOver

\* No write takes a cancel request back, and what becomes of a status.
LEMMA WritesAnnounce ==
    ASSUME NEW row \in Row(Workers), NEW seen, NEW w
    PROVE  /\ row.cancel_requested => /\ ClaimWrite(row, w).cancel_requested
                                     /\ FailWrite(seen, row).cancel_requested
                                     /\ CancelWrite(seen, row).cancel_requested
                                     /\ CancelRequestWrite(seen, row).cancel_requested
                                     /\ MissedWrite(row).cancel_requested
                                     /\ DoneWrite(row).cancel_requested
           /\ row.status # "cancelled" => /\ ClaimWrite(row, w).status # "cancelled"
                                          /\ FailWrite(seen, row).status # "cancelled"
                                          /\ CancelRequestWrite(seen, row).status # "cancelled"
                                          /\ MissedWrite(row).status # "cancelled"
                                          /\ DoneWrite(row).status # "cancelled"
BY DEF Row, ClaimWrite, FailWrite, CancelWrite, CancelRequestWrite, MissedWrite, DoneWrite

\* The announced cancel of a run: a forced one, or the worker's own report.
Announced(j) ==
    \/ jobs[j].cancel_requested /\ j \in graceOver
    \/ \E r \in Requests : /\ req[r].job = j
                           /\ req[r].pc \in {"reporting", "reportingCancel"}
                           /\ req'[r] = Idle

AnnouncedStep(j) ==
    /\ Present(j) /\ jobs[j].cancel_requested => jobs'[j].cancel_requested
    /\ jobs[j].status = "running" /\ jobs'[j].status = "cancelled" => Announced(j)

LEMMA CommitsAnnounce ==
    ASSUME Inv, NEW r \in Requests,
           FailCommit(r) \/ StartCommit(r) \/ StartCommitBlocked(r) \/ CompleteCommit(r)
    PROVE  \A j \in Jobs : AnnouncedStep(j)
<1> DEFINE k == req[r].job
<1>1. k \in Jobs
  BY DEF Inv, LoadedIsPresent, FailCommit, StartCommit, StartCommitBlocked, CompleteCommit
<1>2. jobs[k] \in Row(Workers) /\ jobs \in [Jobs -> Row(Workers)]
  BY <1>1 DEF Inv, TypeOK
<1>3. ClaimWrite(jobs[k], req[r].who) \in Row(Workers)
  BY <1>2, WritesTyped DEF Inv, TypeOK, Request
<1>4. PICK new : /\ jobs' = [jobs EXCEPT ![k] = new]
                 /\ jobs[k].cancel_requested => new.cancel_requested
                 /\ jobs[k].status = "running" => new.status # "cancelled"
  <2>1. CASE FailCommit(r)
    BY <1>2, <2>1, WritesAnnounce DEF FailCommit
  <2>2. CASE StartCommit(r)
    BY <1>2, <2>2, WritesAnnounce DEF StartCommit
  <2>3. CASE StartCommitBlocked(r)
    <3> DEFINE claimed == ClaimWrite(jobs[k], req[r].who)
    <3>1. jobs' = [jobs EXCEPT ![k] = FailWrite(See(claimed), claimed)]
      BY <2>3 DEF StartCommitBlocked
    <3>2. /\ jobs[k].cancel_requested => claimed.cancel_requested
          /\ jobs[k].status # "cancelled" => claimed.status # "cancelled"
      BY <1>2, WritesAnnounce
    <3>3. /\ claimed.cancel_requested => FailWrite(See(claimed), claimed).cancel_requested
          /\ claimed.status # "cancelled" => FailWrite(See(claimed), claimed).status # "cancelled"
      BY <1>3, WritesAnnounce
    <3> HIDE DEF claimed
    <3> QED
      BY <3>1, <3>2, <3>3
  <2>4. CASE CompleteCommit(r)
    BY <1>2, <2>4, WritesAnnounce DEF CompleteCommit
  <2> QED
    BY <2>1, <2>2, <2>3, <2>4
<1>5. \A j \in Jobs : jobs'[j] = IF j = k THEN new ELSE jobs[j]
  BY <1>1, <1>2, <1>4
<1> QED
  BY <1>4, <1>5 DEF AnnouncedStep

LEMMA ReportAnnounces ==
    ASSUME Inv, NEW r \in Requests, ReportCommit(r)
    PROVE  \A j \in Jobs : AnnouncedStep(j)
<1> DEFINE k == req[r].job
           new == ReportWrite(req[r].seen, jobs[k], req[r].pc = "reportingCancel")
<1>1. k \in Jobs /\ jobs[k] \in Row(Workers) /\ jobs \in [Jobs -> Row(Workers)]
  BY DEF Inv, TypeOK, LoadedIsPresent, ReportCommit
<1>2. jobs[k].cancel_requested => new.cancel_requested
  BY <1>1, WritesAnnounce DEF ReportWrite
<1>3. jobs' = [jobs EXCEPT ![k] = new]
  BY DEF ReportCommit
<1>4. req[r].pc \in {"reporting", "reportingCancel"} /\ req'[r] = Idle
  BY DEF ReportCommit, Finish, Inv, TypeOK
<1> HIDE DEF new
<1>5. \A j \in Jobs : jobs'[j] = IF j = k THEN new ELSE jobs[j]
  BY <1>1, <1>3
<1> QED
  BY <1>2, <1>4, <1>5 DEF AnnouncedStep, Announced

LEMMA PassesAnnounce ==
    ASSUME Inv, ForcedIsAnnounced, ExpireWaitingCommit \/ ExpireStuckCommit
    PROVE  \A j \in Jobs : AnnouncedStep(j)
<1> SUFFICES ASSUME NEW j \in Jobs PROVE AnnouncedStep(j)
  OBVIOUS
<1>1. jobs[j] \in Row(Workers)
  BY DEF Inv, TypeOK
<1>2. CASE ExpireWaitingCommit
  BY <1>1, <1>2, WritesAnnounce DEF ExpireWaitingCommit, AnnouncedStep
<1>3. CASE ExpireStuckCommit
  <2>1. CASE j \in stuck.mark \cup stuck.force
    <3>1. \/ jobs'[j] = CancelRequestWrite(
                            [status |-> "running", cancel_requested |-> FALSE], jobs[j])
          \/ /\ j \in stuck.force
             /\ jobs'[j] = CancelWrite(
                            [status |-> "running", cancel_requested |-> TRUE], jobs[j])
      BY <1>3, <2>1 DEF ExpireStuckCommit
    <3>2. j \in stuck.force => jobs[j].cancel_requested /\ j \in graceOver
      BY DEF ForcedIsAnnounced
    <3> QED
      BY <1>1, <3>1, <3>2, WritesAnnounce DEF AnnouncedStep, Announced
  <2>2. CASE j \notin stuck.mark \cup stuck.force
    BY <1>3, <2>2 DEF ExpireStuckCommit, AnnouncedStep
  <2> QED
    BY <2>1, <2>2
<1> QED
  BY <1>2, <1>3

LEMMA EveryStepAnnounces ==
    ASSUME Inv, ForcedIsAnnounced, [Next]_vars
    PROVE  \A j \in Jobs : AnnouncedStep(j)
<1>1. CASE jobs' = jobs
  BY <1>1 DEF AnnouncedStep
<1>2. CASE \E k \in Jobs : Create(k)
  <2>1. PICK k \in Jobs, s \in Pending :
            jobs[k].status = "absent" /\ jobs' = [jobs EXCEPT ![k] = Created(s)]
    BY <1>2, StartableTyped DEF Create
  <2>2. \A j \in Jobs \ {k} : jobs'[j] = jobs[j]
    BY <2>1
  <2> QED
    BY <2>1, <2>2 DEF AnnouncedStep, Present
<1>3. CASE \E r \in Requests : \/ FailCommit(r) \/ StartCommit(r)
                               \/ StartCommitBlocked(r) \/ CompleteCommit(r)
  BY <1>3, CommitsAnnounce
<1>4. CASE \E r \in Requests : ReportCommit(r)
  BY <1>4, ReportAnnounces
<1>5. CASE ExpireWaitingCommit \/ ExpireStuckCommit
  BY <1>5, PassesAnnounce
<1>6. ASSUME NEW r \in Requests,
             \/ \E w \in Workers : Poll(r, w) \/ \E j \in Jobs : Start(r, w, j)
             \/ \E j \in Jobs : Complete(r, j) \/ Report(r, j)
             \/ LockAgentRow(r) \/ Claim(r) \/ PollBlocked(r) \/ Rollback(r)
      PROVE  jobs' = jobs
  BY <1>6 DEF Poll, Start, Complete, Report, LockAgentRow, Claim, PollBlocked, Rollback
<1>7. CASE \/ \E j \in Jobs : DeadlinePasses(j) \/ GracePasses(j) \/ WaitPasses(j)
           \/ ExpireWaitingRead \/ ExpireStuckRead \/ SchedulerRestart \/ UNCHANGED vars
  <2>1. jobs' = jobs
    BY <1>7 DEF DeadlinePasses, GracePasses, WaitPasses, ExpireWaitingRead,
                ExpireStuckRead, SchedulerRestart, vars
  <2> QED
    BY <1>1, <2>1
<1> QED
  BY <1>1, <1>2, <1>3, <1>4, <1>5, <1>6, <1>7 DEF Next, RequestStep

\* The rows to force are chosen by ExpireStuckRead, and time only passes.
LEMMA ForcedStep == Inv /\ ForcedIsAnnounced /\ [Next]_vars => ForcedIsAnnounced'
<1> SUFFICES ASSUME Inv, ForcedIsAnnounced, [Next]_vars, NEW j \in stuck'.force
             PROVE  jobs'[j].cancel_requested /\ j \in graceOver'
  BY DEF ForcedIsAnnounced
<1>1. \/ stuck' = stuck
      \/ stuck' = [mark |-> {}, force |-> {}]
      \/ ExpireStuckRead
  BY DEF Next, RequestStep, vars, time, Create, DeadlinePasses, GracePasses, WaitPasses,
         Poll, PollBlocked, FailCommit, Start, LockAgentRow, Claim, StartCommit,
         StartCommitBlocked, Complete, Report, CompleteCommit, ReportCommit, Rollback,
         ExpireWaitingRead, ExpireWaitingCommit, ExpireStuckCommit, SchedulerRestart
<1>2. graceOver \subseteq graceOver'
  BY DEF Next, RequestStep, vars, time, Create, DeadlinePasses, GracePasses, WaitPasses,
         Poll, PollBlocked, FailCommit, Start, LockAgentRow, Claim, StartCommit,
         StartCommitBlocked, Complete, Report, CompleteCommit, ReportCommit, Rollback,
         ExpireWaitingRead, ExpireWaitingCommit, ExpireStuckRead, ExpireStuckCommit,
         SchedulerRestart
<1>3. CASE stuck' = stuck
  <2>1. j \in stuck.force /\ j \in Jobs /\ Present(j)
    BY <1>3 DEF Inv, TypeOK, LoadedIsPresent
  <2>2. jobs'[j].cancel_requested
    BY <2>1, EveryStepAnnounces DEF ForcedIsAnnounced, AnnouncedStep
  <2> QED
    BY <1>2, <2>1, <2>2 DEF ForcedIsAnnounced
<1>4. CASE stuck' = [mark |-> {}, force |-> {}]
  BY <1>4
<1>5. CASE ExpireStuckRead
  BY <1>2, <1>5 DEF ExpireStuckRead, StuckForce
<1> QED
  BY <1>1, <1>3, <1>4, <1>5

LEMMA ForcedHolds == Spec => [](Inv /\ ForcedIsAnnounced)
<1>1. Init => ForcedIsAnnounced
  BY DEF Init, ForcedIsAnnounced
<1>2. Inv /\ ForcedIsAnnounced /\ [Next]_vars => ForcedIsAnnounced'
  BY ForcedStep
<1> QED
  BY <1>1, <1>2, InvHolds, PTL DEF Spec

\* MASTER_PLAN.md, Sec H7: whatever the passes, their restarts and stale
\* requests do, a running run is cancelled only after the request and the grace,
\* or by the report of its own worker.
THEOREM CancelsAreAnnounced == Spec => CancelIsAnnounced
<1>1. Inv /\ ForcedIsAnnounced /\ [Next]_vars
      => [\A j \in Jobs :
             jobs[j].status = "running" /\ jobs'[j].status = "cancelled"
             => \/ jobs[j].cancel_requested /\ j \in graceOver
                \/ \E r \in Requests : /\ req[r].job = j
                                       /\ req[r].pc \in {"reporting", "reportingCancel"}
                                       /\ req'[r] = Idle]_vars
  BY EveryStepAnnounces DEF AnnouncedStep, Announced
<1> QED
  BY <1>1, ForcedHolds, PTL DEF Spec, CancelIsAnnounced

-----------------------------------------------------------------------------
(* Refinement of RunClaims.                                                 *)

LEMMA RefinesInit == Init => Claims!Init
<1> SUFFICES ASSUME Init PROVE Claims!Init
  OBVIOUS
<1>1. \A j \in Jobs : jobs[j].status = "absent" /\ jobs[j].claimed_by = NoOne
  BY DEF Init, Absent
<1>2. \A j \in Jobs : PhaseOf(jobs[j].status) = "absent"
  BY <1>1 DEF PhaseOf, Pending
<1> QED
  BY <1>1, <1>2 DEF Claims!Init

LEMMA RefinesStep == Inv /\ [Next]_vars => [Claims!Next]_(Claims!vars)
<1> SUFFICES ASSUME Inv, [Next]_vars PROVE [Claims!Next]_(Claims!vars)
  OBVIOUS
<1> DEFINE phase == [j \in Jobs |-> PhaseOf(jobs[j].status)]
           taker == [j \in Jobs |-> jobs[j].claimed_by]
<1>1. \A j \in Jobs : jobs[j] \in Row(Workers) /\ jobs'[j] \in Row(Workers)
  BY TypeStep DEF Inv, TypeOK
<1>2. ASSUME NEW j \in Jobs, Create(j) PROVE Claims!Submit(j)
  <2>1. PICK s \in Pending : jobs' = [jobs EXCEPT ![j] = Created(s)]
    BY <1>2, StartableTyped DEF Create
  <2>2. /\ jobs'[j].status = s /\ jobs'[j].claimed_by = NoOne
        /\ \A k \in Jobs \ {j} : jobs'[k] = jobs[k]
    BY <2>1 DEF Created, Absent, Inv, TypeOK
  <2>3. jobs[j].status = "absent" /\ jobs[j].claimed_by = NoOne
    BY <1>2 DEF Create, Inv, PendingIsUnclaimed
  <2>4. phase' = [phase EXCEPT ![j] = "pending"]
    BY <2>2 DEF PhaseOf, Pending
  <2>5. UNCHANGED taker
    BY <2>2, <2>3
  <2>6. phase[j] = "absent"
    BY <2>3 DEF PhaseOf, Pending
  <2> QED
    BY <2>4, <2>5, <2>6 DEF Claims!Submit
<1>3. ASSUME NEW r \in Requests, StartCommit(r) \/ StartCommitBlocked(r),
             NEW k, NEW w, k = req[r].job, w = req[r].who
      PROVE  Claims!Take(k, w)
  <2>1. /\ req[r].pc = "claimed" /\ k \in Jobs
        /\ jobs[k].status \in Pending /\ jobs[k].claimed_by = NoOne
        /\ jobs'[k].claimed_by = w /\ jobs'[k].status \in {"running", "failed"}
        /\ \A j \in Jobs \ {k} : jobs'[j] = jobs[j]
    BY <1>3, CommitOfClaim, StartableTyped DEF Claimable
  <2>2. phase[k] = "pending" /\ taker[k] = NoOne
    BY <2>1 DEF PhaseOf, Pending
  <2>3. w \in Agents => \A j \in Jobs : ~(phase[j] = "active" /\ taker[j] = w)
    BY <1>1, <1>3, <2>1 DEF Inv, ClaimerIsNotBusy, Busy, PhaseOf, Row, Statuses, Active, Pending
  <2>4. \E p \in {"active", "over"} : phase' = [phase EXCEPT ![k] = p]
    BY <2>1 DEF PhaseOf, Pending
  <2>5. taker' = [taker EXCEPT ![k] = w]
    BY <2>1
  <2> QED
    BY <2>2, <2>3, <2>4, <2>5 DEF Claims!Take
<1>4. CASE \E r \in Requests : LockAgentRow(r) \/ Claim(r)
  BY <1>4 DEF LockAgentRow, Claim, Claims!vars
<1>5. ASSUME \A r \in Requests : ~Taking(r), \A j \in Jobs : ~Create(j)
      PROVE  \E S \in SUBSET Jobs : Claims!End(S)
  <2> DEFINE S == {j \in Jobs : jobs[j].status # "absent" /\ jobs'[j].status \in Terminal}
  <2>1. \A j \in Jobs : /\ Quiet(jobs[j], jobs'[j])
                        /\ jobs[j].status = "absent" => jobs'[j] = jobs[j]
    BY <1>5, NonTakingIsQuiet DEF Present
  <2>2. taker' = taker
    BY <2>1 DEF Quiet
  <2>3. phase' = [j \in Jobs |-> IF j \in S THEN "over" ELSE phase[j]]
    <3>1. ASSUME NEW j \in Jobs
          PROVE  PhaseOf(jobs'[j].status) = IF j \in S THEN "over" ELSE PhaseOf(jobs[j].status)
      BY <1>1, <2>1 DEF Quiet, PhaseOf, Terminal, Pending
    <3> QED
      BY <3>1
  <2>4. \A j \in S : phase[j] # "absent"
    BY DEF PhaseOf
  <2> QED
    BY <2>2, <2>3, <2>4 DEF Claims!End
<1>6. ASSUME NEW r \in Requests, StartCommit(r) \/ StartCommitBlocked(r)
      PROVE  req[r].job \in Jobs /\ req[r].who \in Workers
  BY <1>6, CommitOfClaim DEF Pool, Workers
<1>7. CASE \E j \in Jobs : Create(j)
  BY <1>2, <1>7 DEF Claims!Next
<1>8. CASE \E r \in Requests : StartCommit(r) \/ StartCommitBlocked(r)
  <2>1. PICK r \in Requests : StartCommit(r) \/ StartCommitBlocked(r)
    BY <1>8
  <2>2. PICK k \in Jobs, w \in Workers : k = req[r].job /\ w = req[r].who
    BY <1>6, <2>1
  <2>3. Claims!Take(k, w)
    BY <1>3, <2>1, <2>2
  <2>4. Claims!Next
    BY <2>3 DEF Claims!Next
  <2> QED
    BY <2>4
<1>9. CASE /\ \A r \in Requests : ~Taking(r)
           /\ \A j \in Jobs : ~Create(j)
  BY <1>5, <1>9 DEF Claims!Next
<1> QED
  BY <1>4, <1>7, <1>8, <1>9 DEF Taking

\* Dispatch keeps the promise of RunClaims: a run is submitted, taken once, by
\* a worker that runs nothing else if it is an agent, and ended for good.
THEOREM Implementation == Spec => ImplementsRunClaims
<1>1. Init => Claims!Init
  BY RefinesInit
<1>2. Inv /\ [Next]_vars => [Claims!Next]_(Claims!vars)
  BY RefinesStep
<1> QED
  BY <1>1, <1>2, InvHolds, PTL DEF Spec, ImplementsRunClaims, Claims!Spec
=============================================================================
