--------------------------- MODULE ResultsProofs ---------------------------
(***************************************************************************)
(* Proofs about MCResults, for any runs, findings, faults, crashes and     *)
(* heartbeats, and for both workers: a run is done only with all of its    *)
(* results, each finding is counted once, and a spool loses nothing that   *)
(* central has not stored.                                                 *)
(***************************************************************************)
EXTENDS MCResults, OrderLemmas, TLAPS

USE UploadAssumption, BeatsAssumption

\* Central counts each stored finding once, and a done run has everything.
RowOK(c) ==
    /\ c.count = IF "findings" \in c.held THEN Findings ELSE 0
    /\ c.status = "done" => c.held = Parts /\ c.count = Findings
CentralOK == \A j \in Jobs : RowOK(central[j])

\* What the thread knows of its spool and of what central stored: without a
\* failure the spool is finished; a new spool has all its chunks; the chunk to
\* delete was stored; and a completion without an error follows every chunk.
Uploading == {"refresh", "raw", "provenance", "chunks", "ack", "complete"}
ThreadOK ==
    /\ wk.pc # "wait" => wk.job \in Jobs
    /\ wk.pc \in Uploading /\ ~wk.failed => disk[wk.job].done
    /\ wk.pc = "mark" => disk[wk.job].ready = KindSet /\ disk[wk.job].raw
    /\ wk.pc = "ack" => disk[wk.job].ready # {} /\ NextChunk \in central[wk.job].held
    /\ wk.pc = "complete" /\ ~wk.failed /\ ~wk.bad => KindSet \subseteq central[wk.job].held

\* A completion that is still on its way was sent after every chunk.
LateCompletions ==
    \A q \in flight : q[2].op = "complete" /\ q[2].ok => KindSet \subseteq central[q[1]].held

UploadInv == UploadTypeOK /\ CentralOK /\ ThreadOK /\ DeletedIsStored /\ LateCompletions

\* While the agent's control loop looks for work the worker thread has none,
\* and the spools it found are still there.
Resting == {"wait", "clear"}
ControlAlone ==
    lan => /\ ctl.pc \in {"probe", "poll", "assign"} => slot.work = NoJob /\ wk.pc \in Resting
           /\ ctl.pc = "probe" => Completed # {}
           /\ ctl.pc = "sleep" /\ slot.idle => slot.work = NoJob /\ wk.pc \in Resting
           /\ wk.pc = "free" => slot.work = NoJob

BeatNamesRun == beat.at # "wait" => beat.job \in Jobs

ResultsInv == UploadInv /\ AgentTypeOK /\ ScannerTypeOK /\ ControlAlone /\ BeatNamesRun

-----------------------------------------------------------------------------
(* Central *)

\* The oldest of some runs is one of them.
LEMMA OldestIn ==
    ASSUME NEW runs \in SUBSET Jobs, runs # {}
    PROVE  Oldest(runs) \in runs
BY Least DEF Oldest

\* The kinds of results are three of the parts a run may upload.
LEMMA KindsAre == KindSet = {"devices", "findings", "coverage"} /\ KindSet \subseteq Parts
BY DEF KindSet, Kinds, Parts

\* A stored part is held from then on; nothing else of the row changes.
LEMMA StoredStep ==
    ASSUME NEW c \in Row, RowOK(c), c.status # "done", NEW part \in Parts
    PROVE  /\ Stored(c, part) \in Row /\ RowOK(Stored(c, part))
           /\ Stored(c, part).held = c.held \cup {part}
           /\ Stored(c, part).status = c.status
<1> DEFINE h == c.held \cup {part}
           n == IF part = "findings" /\ part \notin c.held THEN c.count + Findings ELSE c.count
<1>1. h \in SUBSET Parts
  BY DEF Row
<1>2. n = IF "findings" \in h THEN Findings ELSE 0
  BY DEF Row, RowOK
<1>3. n \in 0 .. Findings
  BY <1>2
<1>4. Stored(c, part) = [c EXCEPT !.held = h, !.count = n]
  BY DEF Stored, Row
<1> HIDE DEF h, n
<1>5. /\ Stored(c, part) \in Row /\ Stored(c, part).status = c.status
      /\ Stored(c, part).held = h /\ Stored(c, part).count = n
  BY <1>1, <1>3, <1>4 DEF Row
<1> QED
  BY <1>2, <1>5 DEF RowOK, h

\* What a handler that accepts a call does to the row of its run.
LEMMA HandledStep ==
    ASSUME NEW c \in Row, RowOK(c), NEW call \in Calls, Accepts(c, call),
           call.op = "complete" /\ call.ok => KindSet \subseteq c.held
    PROVE  /\ Handled(c, call) \in Row /\ RowOK(Handled(c, call))
           /\ c.held \subseteq Handled(c, call).held
           /\ call.op # "complete" => call.op \in Handled(c, call).held
<1>1. CASE call.op # "complete"
  <2>1. call.op \in Parts /\ c.status # "done"
    BY <1>1 DEF Calls, Accepts
  <2>2. Handled(c, call) = Stored(c, call.op)
    BY <1>1 DEF Handled
  <2> QED
    BY <1>1, <2>1, <2>2, StoredStep
<1>2. CASE call.op = "complete" /\ call.ok
  <2>1. Handled(c, call) = [c EXCEPT !.status = "done"] /\ {"raw", "provenance"} \subseteq c.held
    BY <1>2 DEF Handled, Accepts
  <2>2. c.held = Parts
    BY <1>2, <2>1 DEF Row, Parts
  <2>3. c.count = Findings
    BY <2>2, KindsAre DEF RowOK
  <2> QED
    BY <1>2, <2>1, <2>2, <2>3 DEF Row, RowOK, Ended
<1>3. CASE call.op = "complete" /\ ~call.ok
  <2>1. Handled(c, call) = Reported(c, call.text)
    BY <1>3 DEF Handled
  <2> QED
    BY <1>3, <2>1 DEF Reported, Row, RowOK, Ended
<1> QED
  BY <1>1, <1>2, <1>3

\* What no step does: take back what central stored, or break a row.
CentralGrows ==
    /\ central' \in [Jobs -> Row] /\ CentralOK'
    /\ \A j \in Jobs : central[j].held \subseteq central'[j].held

\* A step that leaves the centre alone loses nothing there.
LEMMA SameCentral == ASSUME UploadInv, central' = central PROVE CentralGrows
BY DEF UploadInv, UploadTypeOK, CentralOK, CentralGrows

\* An accepted call loses nothing at the centre, and a part is held after it.
LEMMA HandleGrows ==
    ASSUME UploadInv, NEW j \in Jobs, NEW call \in Calls, Accepts(central[j], call),
           call.op = "complete" /\ call.ok => KindSet \subseteq central[j].held,
           central' = [central EXCEPT ![j] = Handled(@, call)]
    PROVE  CentralGrows /\ (call.op # "complete" => call.op \in central'[j].held)
<1> DEFINE d == Handled(central[j], call)
<1>1. central[j] \in Row /\ RowOK(central[j])
  BY DEF UploadInv, UploadTypeOK, CentralOK
<1>2. /\ d \in Row /\ RowOK(d) /\ central[j].held \subseteq d.held
      /\ call.op # "complete" => call.op \in d.held
  BY <1>1, HandledStep
<1>3. central' = [central EXCEPT ![j] = d]
  OBVIOUS
<1> HIDE DEF d
<1>4. central' \in [Jobs -> Row] /\ central'[j] = d /\ \A k \in Jobs \ {j} : central'[k] = central[k]
  BY <1>2, <1>3 DEF UploadInv, UploadTypeOK
<1> QED
  BY <1>2, <1>4 DEF CentralGrows, CentralOK, UploadInv

\* A change of the status alone, which does not make a run done.
LEMMA StatusGrows ==
    ASSUME UploadInv, NEW j \in Jobs, NEW c \in Row, central' = [central EXCEPT ![j] = c],
           c.held = central[j].held, c.count = central[j].count, c.status # "done"
    PROVE  CentralGrows
<1>1. central' \in [Jobs -> Row] /\ central'[j] = c /\ \A k \in Jobs \ {j} : central'[k] = central[k]
  BY DEF UploadInv, UploadTypeOK
<1>2. RowOK(c)
  BY DEF UploadInv, CentralOK, RowOK
<1> QED
  BY <1>1, <1>2 DEF CentralGrows, CentralOK, UploadInv

\* The next chunk depends on the spooled results only.
LEMMA ChunkStays ==
    ASSUME disk'[wk'.job].ready = disk[wk.job].ready
    PROVE  NextChunk' = NextChunk
BY DEF NextChunk

\* The chunk to send is one of those on disk.
LEMMA ChunkIsReady ==
    ASSUME disk[wk.job].ready \in SUBSET KindSet, disk[wk.job].ready # {}
    PROVE  NextChunk \in disk[wk.job].ready
<1> DEFINE first(i) == Kinds[i] \in disk[wk.job].ready /\ \A n \in 1 .. i - 1 : Kinds[n] \notin disk[wk.job].ready
<1>1. \E i \in 1 .. 3 : first(i)
  <2>1. Kinds[1] \in disk[wk.job].ready \/ Kinds[2] \in disk[wk.job].ready \/ Kinds[3] \in disk[wk.job].ready
    BY DEF KindSet
  <2>2. Kinds[1] \in disk[wk.job].ready => first(1)
    OBVIOUS
  <2>3. Kinds[1] \notin disk[wk.job].ready /\ Kinds[2] \in disk[wk.job].ready => first(2)
    OBVIOUS
  <2>4. ASSUME Kinds[1] \notin disk[wk.job].ready, Kinds[2] \notin disk[wk.job].ready,
               Kinds[3] \in disk[wk.job].ready
        PROVE  first(3)
    <3>1. \A n \in 1 .. 3 - 1 : n = 1 \/ n = 2
      OBVIOUS
    <3>2. \A n \in 1 .. 3 - 1 : Kinds[n] \notin disk[wk.job].ready
      BY <2>4, <3>1
    <3> QED
      BY <2>4, <3>2
  <2> QED
    BY <2>1, <2>2, <2>3, <2>4
<1>2. first(CHOOSE i \in 1 .. 3 : first(i))
  BY <1>1
<1> QED
  BY <1>2 DEF NextChunk

-----------------------------------------------------------------------------
(* The parts of the invariant under a step *)

\* A spool deleted before or in the step is one whose results are stored.
LEMMA DeletedKept ==
    ASSUME UploadInv, CentralGrows,
           \A j \in Jobs : disk'[j].done =>
               disk[j].done /\ disk'[j].ready = disk[j].ready /\ disk'[j].raw = disk[j].raw
    PROVE  DeletedIsStored'
BY DEF UploadInv, DeletedIsStored, CentralGrows

\* A completion still under way was sent when its results were stored.
LEMMA LateKept ==
    ASSUME UploadInv, CentralGrows, flight' \subseteq flight
    PROVE  LateCompletions'
BY DEF UploadInv, UploadTypeOK, LateCompletions, CentralGrows

\* A call of the thread, answered or not.
LEMMA CallStep ==
    ASSUME UploadInv, wk.job \in Jobs, NEW call \in Calls, Answered(call) \/ Fails(call),
           call.op = "complete" /\ call.ok => KindSet \subseteq central[wk.job].held
    PROVE  /\ CentralGrows /\ LateCompletions'
           /\ flight' \subseteq Jobs \X Calls /\ faults' \in 0 .. MaxFaults
           /\ Answered(call) /\ call.op # "complete" => call.op \in central'[wk.job].held
<1>1. CASE \/ Answered(call)
           \/ /\ Fault /\ Accepts(central[wk.job], call)
              /\ central' = [central EXCEPT ![wk.job] = Handled(@, call)] /\ UNCHANGED flight
  <2>1. /\ Accepts(central[wk.job], call) /\ central' = [central EXCEPT ![wk.job] = Handled(@, call)]
        /\ flight' = flight
    BY <1>1 DEF Answered
  <2>2. CentralGrows /\ (call.op # "complete" => call.op \in central'[wk.job].held)
    BY <2>1, HandleGrows
  <2>3. faults' \in 0 .. MaxFaults
    BY <1>1 DEF Answered, Fault, UploadInv, UploadTypeOK
  <2> QED
    BY <2>1, <2>2, <2>3, LateKept DEF UploadInv, UploadTypeOK
<1>2. CASE ~Accepts(central[wk.job], call) /\ UNCHANGED <<central, flight, faults>>
  BY <1>2, SameCentral, LateKept DEF UploadInv, UploadTypeOK, Answered
<1>3. CASE Fault /\ flight' = flight \cup {<<wk.job, call>>} /\ UNCHANGED central
  <2>1. CentralGrows
    BY <1>3, SameCentral
  <2>2. LateCompletions'
    BY <1>3 DEF UploadInv, LateCompletions
  <2>3. flight' \subseteq Jobs \X Calls /\ faults' \in 0 .. MaxFaults
    BY <1>3 DEF Fault, UploadInv, UploadTypeOK
  <2>4. Answered(call) => central' = [central EXCEPT ![wk.job] = Handled(@, call)] /\ Accepts(central[wk.job], call)
    BY DEF Answered
  <2> QED
    BY <2>1, <2>2, <2>3, <2>4, HandleGrows
<1> QED
  BY <1>1, <1>2, <1>3 DEF Fails

\* A step of central alone.
LEMMA CentralStep ==
    ASSUME UploadInv, CentralGrows, flight' \subseteq flight, UNCHANGED <<lan, disk, wk, cancel, faults, crashes>>
    PROVE  UploadInv'
<1>1. UploadTypeOK'
  BY DEF UploadInv, UploadTypeOK, CentralGrows
<1>2. DeletedIsStored' /\ LateCompletions'
  BY DeletedKept, LateKept
<1>3. NextChunk' = NextChunk
  BY ChunkStays
<1>4. ThreadOK'
  BY <1>3 DEF UploadInv, ThreadOK, CentralGrows, Uploading
<1> QED
  BY <1>1, <1>2, <1>4 DEF UploadInv, CentralGrows

\* What the centre does by itself, or to a late call, keeps the invariant.
LEMMA CentralStepsKeep == ASSUME UploadInv, UNCHANGED lan, CentralSteps PROVE UploadInv'
<1>1. CASE Deliver
  <2>1. PICK q \in flight :
           /\ flight' = flight \ {q} /\ UNCHANGED <<disk, wk, cancel, faults, crashes>>
           /\ central' = IF Accepts(central[q[1]], q[2])
                         THEN [central EXCEPT ![q[1]] = Handled(@, q[2])] ELSE central
    BY <1>1 DEF Deliver
  <2>2. /\ q[1] \in Jobs /\ q[2] \in Calls
        /\ q[2].op = "complete" /\ q[2].ok => KindSet \subseteq central[q[1]].held
    BY DEF UploadInv, UploadTypeOK, LateCompletions
  <2>3. CentralGrows
    BY <2>1, <2>2, HandleGrows, SameCentral
  <2> QED
    BY <2>1, <2>3, CentralStep
<1>2. CASE Expire \/ ForceCancel
  <2>1. PICK j \in Jobs : /\ central[j].status = "running"
                          /\ \/ central' = [central EXCEPT ![j].asked = TRUE]
                             \/ central' = [central EXCEPT ![j].status = "cancelled"]
                          /\ UNCHANGED <<disk, wk, cancel, flight, faults, crashes>>
    BY <1>2 DEF Expire, ForceCancel
  <2>2. CentralGrows
    <3>1. central[j] \in Row
      BY DEF UploadInv, UploadTypeOK
    <3> DEFINE a == [central[j] EXCEPT !.asked = TRUE]
               e == [central[j] EXCEPT !.status = "cancelled"]
    <3>2. /\ a \in Row /\ a.held = central[j].held /\ a.count = central[j].count /\ a.status # "done"
          /\ e \in Row /\ e.held = central[j].held /\ e.count = central[j].count /\ e.status # "done"
      BY <2>1, <3>1 DEF Row, Ended
    <3>3. central' = [central EXCEPT ![j] = a] \/ central' = [central EXCEPT ![j] = e]
      BY <2>1
    <3> HIDE DEF a, e
    <3> QED
      BY <3>2, <3>3, StatusGrows
  <2> QED
    BY <2>1, <2>2, CentralStep
<1> QED
  BY <1>1, <1>2 DEF CentralSteps

-----------------------------------------------------------------------------
(* The executing thread *)

\* The worker has a run, and the run a spool, unless it waits.
LEMMA Typed == ASSUME UploadInv PROVE /\ wk \in Worker /\ disk \in [Jobs -> Spool]
                                      /\ wk.pc # "wait" => wk.job \in Jobs /\ disk[wk.job] \in Spool
BY DEF UploadInv, UploadTypeOK, ThreadOK

\* A step of the thread's own: central and the calls on their way stay.
LEMMA OwnStep ==
    ASSUME UploadInv, UNCHANGED <<lan, central, flight>>,
           disk' \in [Jobs -> Spool], wk' \in Worker, cancel' \in BOOLEAN,
           faults' \in 0 .. MaxFaults, crashes' \in 0 .. MaxCrashes, ThreadOK', DeletedIsStored'
    PROVE  UploadInv'
<1>1. CentralGrows /\ LateCompletions'
  BY SameCentral, LateKept
<1> QED
  BY <1>1 DEF UploadInv, UploadTypeOK, CentralGrows

\* A resumed run keeps a finished spool; without one it completes as failed.
LEMMA ResumeStep == ASSUME UploadInv, UNCHANGED lan, Resume PROVE UploadInv'
<1>1. wk \in Worker /\ disk \in [Jobs -> Spool] /\ wk.job \in Jobs
  BY Typed DEF Resume
<1>2. NoSpool \in Spool /\ ~NoSpool.done
  BY DEF NoSpool, Spool
<1>3. /\ disk' \in [Jobs -> Spool]
      /\ \A k \in Jobs : disk'[k].done => disk'[k] = disk[k]
      /\ disk[wk.job].done => disk'[wk.job] = disk[wk.job]
  BY <1>1, <1>2 DEF Resume, Recovered
<1>4. DeletedIsStored'
  BY <1>3 DEF Resume, UploadInv, DeletedIsStored
<1>5. wk' \in Worker /\ wk'.job = wk.job
      /\ (IF disk[wk.job].done THEN wk'.pc = "refresh" ELSE wk'.pc = "complete" /\ wk'.failed)
  BY <1>1 DEF Resume, Go, Worker, Steps
<1>6. ThreadOK'
  BY <1>1, <1>3, <1>5 DEF ThreadOK, Uploading
<1> QED
  BY <1>3, <1>4, <1>5, <1>6, OwnStep DEF Resume, UploadInv, UploadTypeOK

\* A scan writes the spool of the run that it has.
LEMMA ScanStep == ASSUME UploadInv, UNCHANGED lan, Scan \/ MarkComplete PROVE UploadInv'
<1>1. wk \in Worker /\ disk \in [Jobs -> Spool] /\ wk.job \in Jobs
  BY Typed DEF Scan, MarkComplete
<1>2. CASE Scan
  <2> DEFINE d == [done |-> FALSE, ready |-> KindSet, raw |-> TRUE]
  <2>1. d \in Spool
    BY DEF Spool
  <2>2. disk' \in [Jobs -> Spool] /\ disk'[wk.job] = d /\ \A k \in Jobs \ {wk.job} : disk'[k] = disk[k]
    BY <1>1, <1>2, <2>1 DEF Scan
  <2>3. wk' \in Worker /\ wk'.job = wk.job /\ wk'.pc = "mark"
    BY <1>1, <1>2 DEF Scan, Go, Worker, Steps
  <2>4. DeletedIsStored'
    BY <1>2, <2>2 DEF Scan, UploadInv, DeletedIsStored
  <2>5. ThreadOK'
    BY <1>1, <2>2, <2>3 DEF ThreadOK, Uploading
  <2> QED
    BY <1>2, <2>2, <2>3, <2>4, <2>5, OwnStep DEF Scan, UploadInv, UploadTypeOK
<1>3. CASE MarkComplete
  <2>1. disk[wk.job].ready = KindSet /\ disk[wk.job].raw
    BY <1>3 DEF MarkComplete, UploadInv, ThreadOK
  <2>2. /\ disk' \in [Jobs -> Spool] /\ disk'[wk.job].done
        /\ disk'[wk.job].ready = KindSet /\ disk'[wk.job].raw
        /\ \A k \in Jobs \ {wk.job} : disk'[k] = disk[k]
    BY <1>1, <1>3, <2>1 DEF MarkComplete, Spool
  <2>3. wk' \in Worker /\ wk'.job = wk.job /\ wk'.pc = "refresh"
    BY <1>1, <1>3 DEF MarkComplete, Go, Worker, Steps
  <2>4. DeletedIsStored'
    BY <1>3, <2>2 DEF MarkComplete, UploadInv, DeletedIsStored
  <2>5. ThreadOK'
    BY <1>1, <2>2, <2>3 DEF ThreadOK, Uploading
  <2> QED
    BY <1>3, <2>2, <2>3, <2>4, <2>5, OwnStep DEF MarkComplete, UploadInv, UploadTypeOK
<1> QED
  BY <1>2, <1>3

\* A pipeline that fails leaves its spool to the error path.
LEMMA PipelineSteps == ASSUME UploadInv, UNCHANGED lan, PipelineFails \/ PipelineRaises PROVE UploadInv'
<1>1. wk \in Worker /\ disk \in [Jobs -> Spool] /\ wk.job \in Jobs
  BY Typed DEF PipelineFails, PipelineRaises
<1>2. CASE PipelineFails
  <2>1. PICK cancelled \in BOOLEAN, any \in BOOLEAN :
          /\ disk' = IF wk.pc = "mark" THEN disk
                     ELSE [disk EXCEPT ![wk.job] =
                              IF any THEN [done |-> FALSE, raw |-> TRUE, ready |-> {"devices", "findings"}]
                              ELSE NoSpool]
          /\ wk' = [wk EXCEPT !.pc = "refresh", !.failed = TRUE, !.text = cancelled]
    BY <1>2 DEF PipelineFails
  <2> DEFINE d == IF any THEN [done |-> FALSE, raw |-> TRUE, ready |-> {"devices", "findings"}] ELSE NoSpool
  <2>2. d \in Spool /\ ~d.done
    BY KindsAre DEF NoSpool, Spool
  <2>3. disk' = disk \/ disk' = [disk EXCEPT ![wk.job] = d]
    BY <2>1
  <2> HIDE DEF d
  <2>4. disk' \in [Jobs -> Spool] /\ \A k \in Jobs : disk'[k].done => disk'[k] = disk[k]
    BY <1>1, <2>2, <2>3
  <2>5. wk' \in Worker /\ wk'.job = wk.job /\ wk'.pc = "refresh" /\ wk'.failed
    BY <1>1, <2>1 DEF Worker, Steps
  <2>6. DeletedIsStored'
    BY <1>2, <2>4 DEF PipelineFails, UploadInv, DeletedIsStored
  <2>7. ThreadOK'
    BY <1>1, <2>5 DEF ThreadOK, Uploading
  <2> QED
    BY <1>2, <2>4, <2>5, <2>6, <2>7, OwnStep DEF PipelineFails, UploadInv, UploadTypeOK
<1>3. CASE PipelineRaises
  <2>1. wk' \in Worker /\ wk'.job = wk.job /\ wk'.pc = "error"
    BY <1>1, <1>3 DEF PipelineRaises, Go, Worker, Steps
  <2>2. DeletedIsStored'
    BY <1>3 DEF PipelineRaises, UploadInv, DeletedIsStored
  <2>3. ThreadOK'
    BY <1>1, <2>1 DEF ThreadOK, Uploading
  <2> QED
    BY <1>1, <1>3, <2>1, <2>2, <2>3, OwnStep DEF PipelineRaises, UploadInv, UploadTypeOK
<1> QED
  BY <1>2, <1>3

\* A step of the thread that makes a call.
LEMMA CallingStep ==
    ASSUME UploadInv, UNCHANGED <<lan, cancel, crashes>>, CentralGrows, LateCompletions',
           flight' \subseteq Jobs \X Calls, faults' \in 0 .. MaxFaults,
           disk' \in [Jobs -> Spool], wk' \in Worker, ThreadOK', DeletedIsStored'
    PROVE  UploadInv'
BY DEF UploadInv, UploadTypeOK, CentralGrows

\* The calls of the worker are well typed, a part is never a completion.
LEMMA CallsTyped ==
    /\ \A part \in Parts : Upload(part) \in Calls /\ Upload(part).op = part /\ part # "complete"
    /\ \A ok, text \in BOOLEAN : Complete(ok, text) \in Calls /\ Complete(ok, text).op = "complete"
                                 /\ Complete(ok, text).ok = ok
BY KindsAre DEF Calls, Upload, Complete, Parts

\* Artifacts are sent before any result is.
LEMMA RawSteps == ASSUME UploadInv, UNCHANGED lan, NoArtifacts \/ PersistArtifacts PROVE UploadInv'
<1>1. wk \in Worker /\ disk \in [Jobs -> Spool] /\ wk.job \in Jobs /\ wk.pc = "raw"
  BY Typed DEF NoArtifacts, PersistArtifacts
<1>2. ~wk.failed => disk[wk.job].done
  BY <1>1 DEF UploadInv, ThreadOK, Uploading
<1>3. CASE NoArtifacts
  <2>1. wk' \in Worker /\ wk'.job = wk.job /\ wk'.pc = "provenance" /\ wk'.failed = wk.failed
    BY <1>1, <1>3 DEF NoArtifacts, Go, Worker, Steps
  <2>2. DeletedIsStored'
    BY <1>3 DEF NoArtifacts, UploadInv, DeletedIsStored
  <2>3. ThreadOK'
    BY <1>1, <1>2, <1>3, <2>1 DEF ThreadOK, Uploading, NoArtifacts
  <2> QED
    BY <1>1, <1>3, <2>1, <2>2, <2>3, OwnStep DEF NoArtifacts, UploadInv, UploadTypeOK
<1>4. CASE PersistArtifacts
  <2>1. "raw" \in Parts
    BY DEF Parts
  <2>2. Answered(Upload("raw")) \/ Fails(Upload("raw"))
    BY <1>4 DEF PersistArtifacts
  <2>3. /\ CentralGrows /\ LateCompletions'
        /\ flight' \subseteq Jobs \X Calls /\ faults' \in 0 .. MaxFaults
        /\ Answered(Upload("raw")) => "raw" \in central'[wk.job].held
    BY <1>1, <2>1, <2>2, CallsTyped, CallStep
  <2>4. /\ disk' \in [Jobs -> Spool]
        /\ \A k \in Jobs : disk'[k].done = disk[k].done /\ disk'[k].ready = disk[k].ready
        /\ \A k \in Jobs : disk'[k].raw = disk[k].raw \/ (k = wk.job /\ "raw" \in central'[k].held)
    <3>1. CASE disk' = disk
      BY <1>1, <3>1
    <3>2. CASE disk' = [disk EXCEPT ![wk.job].raw = FALSE] /\ "raw" \in central'[wk.job].held
      BY <1>1, <3>2 DEF Spool
    <3> QED
      BY <1>4, <2>3, <3>1, <3>2 DEF PersistArtifacts
  <2>5. wk' \in Worker /\ wk'.job = wk.job /\ wk'.failed = wk.failed /\ wk'.pc \in {"provenance", "raw", "error"}
    BY <1>1, <1>4 DEF PersistArtifacts, Go, Worker, Steps
  <2>6. DeletedIsStored'
    BY <2>3, <2>4 DEF UploadInv, DeletedIsStored, CentralGrows
  <2>7. ThreadOK'
    BY <1>1, <1>2, <2>4, <2>5 DEF ThreadOK, Uploading
  <2> QED
    BY <1>4, <2>3, <2>4, <2>5, <2>6, <2>7, CallingStep DEF PersistArtifacts
<1> QED
  BY <1>3, <1>4

\* Provenance is sent, or fails, and the chunks follow.
LEMMA ProvenanceStep == ASSUME UploadInv, UNCHANGED lan, PersistProvenance PROVE UploadInv'
<1>1. wk \in Worker /\ disk \in [Jobs -> Spool] /\ wk.job \in Jobs /\ wk.pc = "provenance"
  BY Typed DEF PersistProvenance
<1>2. ~wk.failed => disk[wk.job].done
  BY <1>1 DEF UploadInv, ThreadOK, Uploading
<1>3. "provenance" \in Parts /\ (Answered(Upload("provenance")) \/ Fails(Upload("provenance")))
  BY DEF PersistProvenance, Parts
<1>4. /\ CentralGrows /\ LateCompletions'
      /\ flight' \subseteq Jobs \X Calls /\ faults' \in 0 .. MaxFaults
  BY <1>1, <1>3, CallsTyped, CallStep
<1>5. wk' \in Worker /\ wk'.job = wk.job /\ wk'.failed = wk.failed /\ wk'.pc = "chunks"
  BY <1>1 DEF PersistProvenance, Go, Worker, Steps
<1>6. disk' = disk
  BY DEF PersistProvenance
<1>7. DeletedIsStored'
  BY <1>4, <1>6, DeletedKept
<1>8. ThreadOK'
  BY <1>1, <1>2, <1>5, <1>6 DEF ThreadOK, Uploading
<1> QED
  BY <1>1, <1>4, <1>5, <1>6, <1>7, <1>8, CallingStep DEF PersistProvenance

\* The chunk is stored before its file is deleted.
LEMMA SubmitStep == ASSUME UploadInv, UNCHANGED lan, SubmitChunk PROVE UploadInv'
<1>1. wk \in Worker /\ disk \in [Jobs -> Spool] /\ wk.job \in Jobs /\ wk.pc = "chunks"
      /\ disk[wk.job].ready # {} /\ disk[wk.job].ready \subseteq KindSet
  BY Typed DEF SubmitChunk, Spool
<1>2. ~wk.failed => disk[wk.job].done
  BY <1>1 DEF UploadInv, ThreadOK, Uploading
<1>3. NextChunk \in Parts
  BY <1>1, ChunkIsReady, KindsAre
<1>4. Answered(Upload(NextChunk)) \/ Fails(Upload(NextChunk))
  BY DEF SubmitChunk
<1> DEFINE c == NextChunk
<1>5. /\ CentralGrows /\ LateCompletions'
      /\ flight' \subseteq Jobs \X Calls /\ faults' \in 0 .. MaxFaults
      /\ Answered(Upload(c)) => c \in central'[wk.job].held
  <2>1. Upload(c) \in Calls /\ Upload(c).op = c /\ c # "complete"
    BY <1>3, CallsTyped
  <2>2. Answered(Upload(c)) \/ Fails(Upload(c))
    BY <1>4
  <2> HIDE DEF c
  <2> QED
    BY <1>1, <2>1, <2>2, CallStep
<1>6. disk' = disk /\ wk' \in Worker /\ wk'.job = wk.job /\ wk'.failed = wk.failed
      /\ \/ wk'.pc = "ack" /\ Answered(Upload(c))
         \/ wk'.pc = "complete" /\ wk'.bad
  BY <1>1 DEF SubmitChunk, Go, Worker, Steps
<1>7. NextChunk' = c
  BY <1>6, ChunkStays
<1>8. DeletedIsStored'
  BY <1>5, <1>6, DeletedKept
<1>9. ThreadOK'
  BY <1>1, <1>2, <1>5, <1>6, <1>7 DEF ThreadOK, Uploading
<1> QED
  BY <1>1, <1>5, <1>6, <1>8, <1>9, CallingStep DEF SubmitChunk

\* An acknowledged chunk leaves the spool: the centre holds it.
LEMMA AckStep == ASSUME UploadInv, UNCHANGED lan, AckDelete PROVE UploadInv'
<1>1. wk \in Worker /\ disk \in [Jobs -> Spool] /\ wk.job \in Jobs /\ wk.pc = "ack"
  BY Typed DEF AckDelete
<1>2. (~wk.failed => disk[wk.job].done) /\ NextChunk \in central[wk.job].held
  BY <1>1 DEF UploadInv, ThreadOK, Uploading
<1> DEFINE c == NextChunk
           d == [disk[wk.job] EXCEPT !.ready = @ \ {c}]
<1>3. disk' = [disk EXCEPT ![wk.job] = d]
  BY <1>1 DEF AckDelete
<1>4. d \in Spool /\ d.done = disk[wk.job].done /\ d.raw = disk[wk.job].raw /\ d.ready = disk[wk.job].ready \ {c}
  BY <1>1 DEF Spool
<1>5. disk' \in [Jobs -> Spool] /\ disk'[wk.job] = d /\ \A k \in Jobs \ {wk.job} : disk'[k] = disk[k]
  <2> HIDE DEF d
  <2> QED
    BY <1>1, <1>3, <1>4
<1>6. wk' \in Worker /\ wk'.job = wk.job /\ wk'.failed = wk.failed /\ wk'.pc = "chunks"
  BY <1>1 DEF AckDelete, Go, Worker, Steps
<1> HIDE DEF d
<1>7. DeletedIsStored'
  <2>1. central' = central
    BY DEF AckDelete
  <2>2. \A k \in Jobs \ {wk.job} : disk'[k].done => /\ KindSet \ disk'[k].ready \subseteq central'[k].held
                                                    /\ disk'[k].raw \/ "raw" \in central'[k].held
    BY <1>5, <2>1 DEF UploadInv, DeletedIsStored
  <2>3. d.done => /\ KindSet \ d.ready \subseteq central[wk.job].held
                  /\ d.raw \/ "raw" \in central[wk.job].held
    BY <1>1, <1>2, <1>4 DEF UploadInv, DeletedIsStored
  <2> QED
    BY <1>5, <2>1, <2>2, <2>3 DEF DeletedIsStored
<1>8. ThreadOK'
  BY <1>1, <1>2, <1>4, <1>5, <1>6 DEF ThreadOK, Uploading
<1> QED
  BY <1>5, <1>6, <1>7, <1>8, OwnStep DEF AckDelete, UploadInv, UploadTypeOK

\* No chunk is left on disk: completion comes next.
LEMMA NoMoreStep == ASSUME UploadInv, UNCHANGED lan, NoMoreChunks PROVE UploadInv'
<1>1. wk \in Worker /\ disk \in [Jobs -> Spool] /\ wk.job \in Jobs /\ wk.pc = "chunks" /\ disk[wk.job].ready = {}
  BY Typed DEF NoMoreChunks
<1>2. (~wk.failed => disk[wk.job].done)
  BY <1>1 DEF UploadInv, ThreadOK, Uploading
<1>3. ~wk.failed => KindSet \subseteq central[wk.job].held
  BY <1>1, <1>2 DEF UploadInv, DeletedIsStored
<1>4. /\ disk' = disk /\ central' = central /\ flight' = flight
      /\ wk' \in Worker /\ wk'.job = wk.job /\ wk'.failed = wk.failed /\ wk'.pc = "complete"
  BY <1>1 DEF NoMoreChunks, Go, Worker, Steps
<1>5. DeletedIsStored'
  BY <1>4 DEF UploadInv, DeletedIsStored
<1>6. ThreadOK'
  BY <1>1, <1>2, <1>3, <1>4 DEF ThreadOK, Uploading
<1> QED
  BY <1>1, <1>4, <1>5, <1>6, OwnStep DEF NoMoreChunks, UploadInv, UploadTypeOK

\* POST /complete says ok only after every chunk was stored.
LEMMA CompleteStep == ASSUME UploadInv, UNCHANGED lan, CompleteRun PROVE UploadInv'
<1>1. wk \in Worker /\ disk \in [Jobs -> Spool] /\ wk.job \in Jobs /\ wk.pc = "complete"
  BY Typed DEF CompleteRun
<1> DEFINE ok == ~wk.failed /\ ~wk.bad
           call == Complete(ok, wk.text)
<1>2. ok => KindSet \subseteq central[wk.job].held
  BY <1>1 DEF UploadInv, ThreadOK
<1>3. /\ Answered(call) \/ Fails(call)
      /\ disk' = disk /\ wk' \in Worker /\ wk'.job = wk.job /\ wk'.pc \in {"end", "error"}
  BY <1>1 DEF CompleteRun, Go, Worker, Steps
<1>4. call \in Calls /\ call.op = "complete" /\ call.ok = ok
  <2>1. ok \in BOOLEAN /\ wk.text \in BOOLEAN
    BY <1>1 DEF Worker
  <2> QED
    BY <2>1, CallsTyped
<1> HIDE DEF ok, call
<1>5. /\ CentralGrows /\ LateCompletions'
      /\ flight' \subseteq Jobs \X Calls /\ faults' \in 0 .. MaxFaults
  BY <1>1, <1>2, <1>3, <1>4, CallStep
<1>6. DeletedIsStored'
  BY <1>3, <1>5, DeletedKept
<1>7. ThreadOK'
  BY <1>1, <1>3 DEF ThreadOK, Uploading
<1> QED
  BY <1>1, <1>3, <1>5, <1>6, <1>7, CallingStep DEF CompleteRun

\* The error path keeps a finished spool and reports the run failed.
LEMMA ErrorSteps == ASSUME UploadInv, UNCHANGED lan, KeepSpool \/ ReportError PROVE UploadInv'
<1>1. wk \in Worker /\ disk \in [Jobs -> Spool] /\ wk.job \in Jobs /\ wk.pc = "error"
  BY Typed DEF KeepSpool, ReportError
<1>2. wk' \in Worker /\ wk'.job = wk.job /\ wk'.pc = "end"
  BY <1>1 DEF KeepSpool, ReportError, Go, Worker, Steps
<1>3. ThreadOK'
  BY <1>1, <1>2 DEF ThreadOK, Uploading
<1>4. CASE KeepSpool
  <2>1. DeletedIsStored'
    BY <1>4 DEF KeepSpool, UploadInv, DeletedIsStored
  <2> QED
    BY <1>1, <1>2, <1>3, <1>4, <2>1, OwnStep DEF KeepSpool, UploadInv, UploadTypeOK
<1>5. CASE ReportError
  <2> DEFINE call == Complete(FALSE, FALSE)
  <2>1. call \in Calls /\ call.op = "complete" /\ ~call.ok
    BY CallsTyped
  <2>2. Answered(call) \/ Fails(call)
    BY <1>5 DEF ReportError
  <2> HIDE DEF call
  <2>3. /\ CentralGrows /\ LateCompletions'
        /\ flight' \subseteq Jobs \X Calls /\ faults' \in 0 .. MaxFaults
    BY <1>1, <2>1, <2>2, CallStep
  <2>4. /\ disk' \in [Jobs -> Spool]
        /\ \A k \in Jobs : disk'[k].done => disk'[k] = disk[k]
    BY <1>1, <1>5 DEF ReportError, Spool
  <2>5. DeletedIsStored'
    BY <2>3, <2>4, DeletedKept
  <2> QED
    BY <1>2, <1>3, <1>5, <2>3, <2>4, <2>5, CallingStep DEF ReportError
<1> QED
  BY <1>4, <1>5

\* The steps of one execution, together.
LEMMA ExecuteKeeps == ASSUME UploadInv, UNCHANGED lan, Execute PROVE UploadInv'
BY ResumeStep, ScanStep, PipelineSteps, RawSteps, ProvenanceStep, SubmitStep, AckStep, NoMoreStep,
   CompleteStep, ErrorSteps DEF Execute

-----------------------------------------------------------------------------
(* The two workers *)

\* A step of other state leaves the upload as it is.
LEMMA SameUpload == ASSUME UploadInv, UNCHANGED <<lan, uploadVars>> PROVE UploadInv'
<1>1. NextChunk' = NextChunk
  BY ChunkStays DEF uploadVars
<1> QED
  BY <1>1 DEF uploadVars, UploadInv, UploadTypeOK, CentralOK, RowOK, ThreadOK, DeletedIsStored, LateCompletions

\* While the thread has a run the control loop does not look for one.
LEMMA BusyStep ==
    ASSUME ControlAlone, UNCHANGED <<lan, ctl, slot>>, lan => wk.pc \notin Resting, wk'.pc # "free"
    PROVE  ControlAlone'
BY DEF ControlAlone

\* An execution goes on only in a busy worker.
LEMMA ExecuteIsBusy == ASSUME wk \in Worker, Execute PROVE wk.pc \notin Resting /\ wk'.pc # "free"
<1> USE DEF Resting
<1>1. Resume \/ Scan \/ MarkComplete \/ PipelineRaises \/ NoArtifacts \/ AckDelete \/ NoMoreChunks \/ KeepSpool
      => wk.pc \notin Resting /\ wk'.pc # "free"
  BY DEF Resume, Scan, MarkComplete, PipelineRaises, NoArtifacts, AckDelete, NoMoreChunks, KeepSpool, Go, Worker
<1>2. PipelineFails => wk.pc \notin Resting /\ wk'.pc # "free"
  BY DEF PipelineFails, Worker
<1>3. PersistArtifacts => wk.pc \notin Resting /\ wk'.pc # "free"
  BY DEF PersistArtifacts, Go, Worker
<1>4. PersistProvenance \/ SubmitChunk => wk.pc \notin Resting /\ wk'.pc # "free"
  BY DEF PersistProvenance, SubmitChunk, Go, Worker
<1>5. CompleteRun \/ ReportError => wk.pc \notin Resting /\ wk'.pc # "free"
  BY DEF CompleteRun, ReportError, Go, Worker
<1> QED
  BY <1>1, <1>2, <1>3, <1>4, <1>5 DEF Execute

\* Steps of the thread that leave its spool alone and lead where nothing is
\* known of it yet, or go on without a change of what is known.
LEMMA ThreadMoves ==
    ASSUME UploadInv, UNCHANGED <<lan, central, disk, flight>>, wk' \in Worker, cancel' \in BOOLEAN,
           faults' \in 0 .. MaxFaults, crashes' \in 0 .. MaxCrashes,
           wk'.pc # "wait" => wk'.job \in Jobs,
           wk'.pc \in {"wait", "start", "resume", "scan", "error", "end", "free", "clear"}
    PROVE  UploadInv'
<1>1. DeletedIsStored'
  BY SameCentral, DeletedKept
<1>2. ThreadOK'
  BY DEF ThreadOK, Uploading
<1> QED
  BY <1>1, <1>2, OwnStep DEF UploadInv, UploadTypeOK

\* A free worker waits and has no run.
LEMMA NoJobIsNone == NoJob \notin Jobs /\ Free \in Worker /\ Free.pc = "wait"
BY DEF NoJob, Free, Worker, Steps

\* Spools are deleted only while the thread has none.
LEMMA SpoolsGo ==
    ASSUME UploadInv, wk.pc \in Resting, UNCHANGED <<lan, central, wk, cancel, flight, crashes>>,
           faults' \in 0 .. MaxFaults, NEW j \in Jobs, disk' = [disk EXCEPT ![j] = NoSpool]
    PROVE  UploadInv'
<1>1. NoSpool \in Spool /\ ~NoSpool.done
  BY DEF NoSpool, Spool
<1>2. disk' \in [Jobs -> Spool] /\ \A k \in Jobs : disk'[k].done => disk'[k] = disk[k]
  BY <1>1 DEF UploadInv, UploadTypeOK
<1>3. DeletedIsStored'
  BY <1>2, SameCentral, DeletedKept
<1>4. ThreadOK'
  BY DEF UploadInv, ThreadOK, Uploading, Resting
<1> QED
  BY <1>2, <1>3, <1>4, OwnStep DEF UploadInv, UploadTypeOK

\* POST /start, with what recover_owned_spool leaves on disk.
LEMMA StartRow ==
    ASSUME UploadInv, NEW j \in Jobs, central[j].status = "queued",
           central' = [central EXCEPT ![j].status = "running"]
    PROVE  CentralGrows
<1> DEFINE c == [central[j] EXCEPT !.status = "running"]
<1>1. central[j] \in Row
  BY DEF UploadInv, UploadTypeOK
<1>2. c \in Row /\ c.held = central[j].held /\ c.count = central[j].count /\ c.status # "done"
  BY <1>1 DEF Row, Ended
<1>3. central' = [central EXCEPT ![j] = c]
  OBVIOUS
<1> HIDE DEF c
<1> QED
  BY <1>2, <1>3, StatusGrows

\* A worker that starts a run, new or recovered, keeps the invariant.
LEMMA StartedStep ==
    ASSUME UploadInv, UNCHANGED <<lan, flight, crashes>>, CentralGrows, faults' \in 0 .. MaxFaults,
           cancel' \in BOOLEAN, NEW j \in Jobs, disk' = disk \/ disk' = Recovered(j),
           wk' \in Worker, wk'.pc # "wait" => wk'.job \in Jobs, wk'.pc \in {"wait", "scan", "error"}
    PROVE  UploadInv'
<1>1. NoSpool \in Spool /\ ~NoSpool.done
  BY DEF NoSpool, Spool
<1>2. disk' \in [Jobs -> Spool] /\ \A k \in Jobs : disk'[k].done => disk'[k] = disk[k]
  BY <1>1 DEF UploadInv, UploadTypeOK, Recovered
<1>3. DeletedIsStored' /\ LateCompletions'
  BY <1>2, DeletedKept, LateKept
<1>4. ThreadOK'
  BY DEF ThreadOK, Uploading
<1> QED
  BY <1>2, <1>3, <1>4 DEF UploadInv, UploadTypeOK, CentralGrows

\* A refreshed token leaves the upload where it was.
LEMMA RefreshedStep ==
    ASSUME UploadInv, wk.pc = "refresh", UNCHANGED <<lan, central, disk, cancel, flight, crashes>>,
           faults' \in 0 .. MaxFaults, Go("raw")
    PROVE  UploadInv'
<1>1. wk \in Worker /\ wk.job \in Jobs /\ (~wk.failed => disk[wk.job].done)
  BY Typed DEF UploadInv, ThreadOK, Uploading
<1>2. wk' \in Worker /\ wk'.pc = "raw" /\ wk'.job = wk.job /\ wk'.failed = wk.failed
  BY <1>1 DEF Go, Worker, Steps
<1>3. ThreadOK'
  BY <1>1, <1>2 DEF ThreadOK, Uploading
<1>4. DeletedIsStored'
  BY SameCentral, DeletedKept
<1> QED
  BY <1>2, <1>3, <1>4, OwnStep DEF UploadInv, UploadTypeOK

-----------------------------------------------------------------------------
(* The agent *)

\* The finished spools are those of runs, and so is the oldest.
LEMMA CompletedIn == Completed \subseteq Jobs /\ (Completed # {} => Oldest(Completed) \in Jobs)
<1>1. Completed \in SUBSET Jobs
  BY DEF Completed
<1> QED
  BY <1>1, OldestIn

\* Polling, heartbeats and recovery of the agent, step by step.
LEMMA ControlKeeps ==
    ASSUME ResultsInv, lan, UNCHANGED <<loop, lan>>, ControlStep
    PROVE  ResultsInv'
<1> USE DEF ResultsInv
<1>0. UNCHANGED <<beat, disk>> => BeatNamesRun' /\ Completed' = Completed
  BY DEF BeatNamesRun, Completed
<1>1. ScannerTypeOK' /\ BeatNamesRun'
  <2>1. beat' = beat
    BY DEF ControlStep, PollOnce, OfferResume, AbandonSpool, PollJobs, AssignWork, PublishWork
  <2> QED
    BY <2>1 DEF ScannerTypeOK, BeatNamesRun
<1>2. CASE PollOnce
  <2>1. UploadInv' /\ AgentTypeOK'
    BY <1>2, SameUpload DEF PollOnce, AgentTypeOK
  <2>2. ControlAlone'
    BY <1>2 DEF PollOnce, ControlAlone, uploadVars, Completed, AgentTypeOK
  <2> QED
    BY <1>1, <2>1, <2>2
<1>3. CASE OfferResume
  <2>0. Completed # {}
    BY <1>3 DEF OfferResume, ControlAlone
  <2>1. UploadInv' /\ AgentTypeOK'
    BY <1>3, <2>0, SameUpload, CompletedIn DEF OfferResume, AgentTypeOK
  <2>2. ControlAlone'
    BY <1>3 DEF OfferResume, ControlAlone, uploadVars, Completed, AgentTypeOK
  <2> QED
    BY <1>1, <2>1, <2>2
<1>4. CASE AbandonSpool
  <2>1. wk.pc \in Resting
    BY <1>4 DEF AbandonSpool, ControlAlone
  <2>2. faults' \in 0 .. MaxFaults
    BY <1>4 DEF AbandonSpool, Fault, UploadInv, UploadTypeOK
  <2>3. UploadInv'
    <3>1. Oldest(Completed) \in Jobs
      BY <1>4, CompletedIn DEF AbandonSpool, ControlAlone
    <3>2. disk' = [disk EXCEPT ![Oldest(Completed)] = NoSpool] /\ UNCHANGED <<central, wk, cancel, flight, crashes>>
      BY <1>4 DEF AbandonSpool
    <3> QED
      BY <2>1, <2>2, <3>1, <3>2, SpoolsGo
  <2>4. AgentTypeOK'
    BY <1>4 DEF AbandonSpool, AgentTypeOK
  <2>5. ControlAlone'
    <3>1. Completed # {Oldest(Completed)} => Completed' # {}
      <4>1. PICK k \in Completed : TRUE
        BY <1>4 DEF AbandonSpool, ControlAlone
      <4>2. Completed # {Oldest(Completed)} => \E i \in Completed : i # Oldest(Completed)
        BY <4>1
      <4>3. \A i \in Jobs : i # Oldest(Completed) => disk'[i] = disk[i]
        BY <1>4 DEF AbandonSpool, UploadInv, UploadTypeOK
      <4> QED
        BY <4>2, <4>3 DEF Completed
    <3> QED
      BY <1>4, <3>1 DEF AbandonSpool, ControlAlone, AgentTypeOK
  <2> QED
    BY <1>1, <2>3, <2>4, <2>5
<1>5. CASE PollJobs
  <2>1. Queued # {} => Oldest(Queued) \in Jobs
    BY OldestIn DEF Queued
  <2>2. UploadInv' /\ AgentTypeOK'
    <3>1. UploadInv'
      BY <1>5, SameUpload DEF PollJobs
    <3>2. AgentTypeOK'
      <4> DEFINE j == Oldest(Queued)
      <4>1. \/ ctl' = [pc |-> "assign", job |-> j, resume |-> FALSE] /\ j \in Jobs
            \/ ctl' = ControlIdle
        BY <1>5, <2>1 DEF PollJobs
      <4> HIDE DEF j
      <4>2. UNCHANGED <<slot, beat, beats>>
        BY <1>5 DEF PollJobs
      <4>3. ctl' \in [pc : {"sleep", "probe", "poll", "assign", "publish"},
                      job : Jobs \cup {NoJob}, resume : BOOLEAN]
        <5>1. CASE ctl' = ControlIdle
          BY <5>1 DEF ControlIdle
        <5>2. CASE ctl' = [pc |-> "assign", job |-> j, resume |-> FALSE] /\ j \in Jobs
          BY <5>2
        <5> QED
          BY <4>1, <5>1, <5>2
      <4> QED
        BY <4>2, <4>3 DEF AgentTypeOK
    <3> QED
      BY <3>1, <3>2
  <2>3. ControlAlone'
    BY <1>5 DEF PollJobs, ControlAlone, uploadVars, Completed, AgentTypeOK, ControlIdle
  <2> QED
    BY <1>1, <2>2, <2>3
<1>6. CASE AssignWork
  <2>1. UploadInv' /\ AgentTypeOK'
    BY <1>6, SameUpload DEF AssignWork, AgentTypeOK
  <2>2. ControlAlone'
    BY <1>6 DEF AssignWork, ControlAlone, uploadVars, Completed, AgentTypeOK, Resting
  <2> QED
    BY <1>1, <2>1, <2>2
<1>7. CASE PublishWork
  <2>1. UploadInv' /\ AgentTypeOK'
    BY <1>7, SameUpload DEF PublishWork, AgentTypeOK, ControlIdle
  <2>2. ControlAlone'
    BY <1>7 DEF PublishWork, ControlAlone, uploadVars, Completed, AgentTypeOK, ControlIdle
  <2> QED
    BY <1>1, <2>1, <2>2
<1> QED
  BY <1>2, <1>3, <1>4, <1>5, <1>6, <1>7 DEF ControlStep

\* The agent takes its next run.
LEMMA TakeKeeps ==
    ASSUME ResultsInv, lan, UNCHANGED <<loop, lan>>, TakeWork \/ TakeNoToken
    PROVE  ResultsInv'
<1> USE DEF ResultsInv
<1>1. /\ slot.work \in Jobs \cup {NoJob} /\ slot.work # NoJob /\ slot.resume \in BOOLEAN
      /\ faults' \in 0 .. MaxFaults
      /\ UNCHANGED <<central, disk, flight, crashes, agentVars>> /\ cancel' \in BOOLEAN
  <2>1. UNCHANGED <<central, disk, flight, crashes, agentVars>> /\ slot.work # NoJob
    BY DEF TakeWork, TakeNoToken
  <2>2. faults' \in 0 .. MaxFaults /\ cancel' \in BOOLEAN
    <3>1. CASE TakeWork
      BY <3>1 DEF TakeWork, UploadInv, UploadTypeOK
    <3>2. CASE TakeNoToken
      BY <3>2 DEF TakeNoToken, Fault, UploadInv, UploadTypeOK
    <3> QED
      BY <3>1, <3>2
  <2> QED
    BY <2>1, <2>2 DEF AgentTypeOK
<1>2. wk' \in Worker /\ wk'.job \in Jobs /\ wk'.pc \in {"resume", "start", "end"}
  BY <1>1, NoJobIsNone DEF TakeWork, TakeNoToken, Worker, Steps
<1>3. UploadInv'
  BY <1>1, <1>2, ThreadMoves DEF UploadInv, UploadTypeOK
<1>4. AgentTypeOK' /\ ScannerTypeOK' /\ BeatNamesRun'
  BY <1>1 DEF agentVars, AgentTypeOK, ScannerTypeOK, BeatNamesRun
<1>5. ControlAlone'
  BY <1>1, <1>2 DEF agentVars, ControlAlone, Completed
<1> QED
  BY <1>3, <1>4, <1>5

\* The agent starts the run it has taken.
LEMMA StartKeeps ==
    ASSUME ResultsInv, lan, UNCHANGED <<loop, lan>>, Start
    PROVE  ResultsInv'
<1> USE DEF ResultsInv
<1>1. wk \in Worker /\ wk.job \in Jobs /\ wk.pc = "start" /\ UNCHANGED <<flight, crashes, cancel, agentVars>>
  BY Typed DEF Start
<1>2. /\ faults' \in 0 .. MaxFaults
      /\ disk' = disk \/ disk' = Recovered(wk.job)
  BY DEF Start, Fault, UploadInv, UploadTypeOK
<1>3. wk' \in Worker /\ wk'.job = wk.job /\ wk'.pc \in {"scan", "error"}
  BY <1>1 DEF Start, Go, Worker, Steps
<1>4. CentralGrows
  BY <1>1, StartRow, SameCentral DEF Start
<1>5. UploadInv'
  BY <1>1, <1>2, <1>3, <1>4, StartedStep DEF UploadInv, UploadTypeOK
<1>6. AgentTypeOK' /\ ScannerTypeOK' /\ BeatNamesRun'
  BY <1>1 DEF agentVars, AgentTypeOK, ScannerTypeOK, BeatNamesRun
<1>7. ControlAlone'
  BY <1>1, <1>3, BusyStep DEF agentVars, Resting
<1> QED
  BY <1>5, <1>6, <1>7

\* The agent gets a token and goes on.
LEMMA RefreshKeeps ==
    ASSUME ResultsInv, lan, UNCHANGED <<loop, lan>>, RefreshToken
    PROVE  ResultsInv'
<1> USE DEF ResultsInv
<1>1. /\ wk \in Worker /\ wk.job \in Jobs /\ wk.pc = "refresh"
      /\ UNCHANGED <<central, disk, cancel, flight, crashes, agentVars>>
  BY Typed DEF RefreshToken
<1>2. faults' \in 0 .. MaxFaults
  BY DEF RefreshToken, Fault, UploadInv, UploadTypeOK
<1>3. wk' \in Worker /\ wk'.job = wk.job /\ wk'.pc \in {"raw", "end", "error"}
  BY <1>1 DEF RefreshToken, Go, Worker, Steps
<1>4. wk'.pc = "raw" => Go("raw")
  BY <1>1 DEF RefreshToken, Go, Worker, Steps
<1>5. UploadInv'
  BY <1>1, <1>2, <1>3, <1>4, RefreshedStep, ThreadMoves DEF UploadInv, UploadTypeOK
<1>6. AgentTypeOK' /\ ScannerTypeOK' /\ BeatNamesRun'
  BY <1>1 DEF agentVars, AgentTypeOK, ScannerTypeOK, BeatNamesRun
<1>7. ControlAlone'
  BY <1>1, <1>3, BusyStep DEF agentVars, Resting
<1> QED
  BY <1>5, <1>6, <1>7

\* _set_work(None)
LEMMA FreeKeeps ==
    ASSUME ResultsInv, lan, UNCHANGED <<loop, lan>>, EmptySlot \/ SetIdle \/ ClearReady
    PROVE  ResultsInv'
<1> USE DEF ResultsInv
<1>1. /\ wk \in Worker /\ wk.job \in Jobs /\ wk.pc \in {"end", "free", "clear"}
      /\ UNCHANGED <<central, disk, cancel, flight, faults, crashes, ctl, beat, beats>>
  BY Typed DEF EmptySlot, SetIdle, ClearReady
<1>2. wk' \in Worker /\ (wk'.pc # "wait" => wk'.job \in Jobs) /\ wk'.pc \in {"wait", "free", "clear"}
  BY <1>1, NoJobIsNone DEF EmptySlot, SetIdle, ClearReady, Go, Worker, Steps
<1>3. UploadInv'
  BY <1>1, <1>2, ThreadMoves DEF UploadInv, UploadTypeOK
<1>4. AgentTypeOK' /\ ScannerTypeOK' /\ BeatNamesRun' /\ Completed' = Completed
  <2>1. slot' \in [work : Jobs \cup {NoJob}, resume : BOOLEAN, idle : BOOLEAN, ready : BOOLEAN]
    BY DEF EmptySlot, SetIdle, ClearReady, AgentTypeOK
  <2>2. AgentTypeOK'
    BY <1>1, <2>1 DEF AgentTypeOK
  <2> QED
    BY <1>1, <2>2 DEF ScannerTypeOK, BeatNamesRun, Completed
<1>5. ControlAlone'
  <2>1. CASE EmptySlot
    BY <1>1, <1>4, <2>1 DEF EmptySlot, ControlAlone, Go, Worker, AgentTypeOK, Resting
  <2>2. CASE SetIdle
    BY <1>1, <1>4, <2>2 DEF SetIdle, ControlAlone, Go, Worker, AgentTypeOK, Resting
  <2>3. CASE ClearReady
    BY <1>1, <1>4, <2>3, NoJobIsNone DEF ClearReady, ControlAlone, AgentTypeOK, Resting
  <2> QED
    BY <2>1, <2>2, <2>3
<1> QED
  BY <1>3, <1>4, <1>5

\* A heartbeat reads and changes no result.
LEMMA HeartbeatKeeps ==
    ASSUME ResultsInv, lan, UNCHANGED <<loop, lan>>, HeartbeatSend \/ HeartbeatHandled \/ HeartbeatAnswer
    PROVE  ResultsInv'
<1> USE DEF ResultsInv
<1>1. /\ UNCHANGED <<central, disk, wk, flight, crashes, ctl, slot>>
      /\ faults' \in 0 .. MaxFaults /\ cancel' \in BOOLEAN
  BY DEF HeartbeatSend, HeartbeatHandled, HeartbeatAnswer, Fault, UploadInv, UploadTypeOK, AgentTypeOK, uploadVars
<1>2. NextChunk' = NextChunk
  BY <1>1, ChunkStays
<1>3. UploadInv'
  <2>1. DeletedIsStored'
    BY <1>1, SameCentral, DeletedKept
  <2>2. ThreadOK'
    BY <1>1, <1>2 DEF UploadInv, ThreadOK
  <2> QED
    BY <1>1, <2>1, <2>2, OwnStep DEF UploadInv, UploadTypeOK
<1>4. AgentTypeOK' /\ ScannerTypeOK' /\ BeatNamesRun'
  <2>1. CASE HeartbeatSend
    BY <2>1 DEF HeartbeatSend, AgentTypeOK, ScannerTypeOK, BeatNamesRun
  <2>2. CASE HeartbeatHandled
    <3> DEFINE says == MustCancel(beat.job)
    <3>1. says \in BOOLEAN
      BY <2>2 DEF HeartbeatHandled, BeatNamesRun, MustCancel, UploadInv, UploadTypeOK, Row
    <3>2. beat' = [beat EXCEPT !.at = "back", !.says = says] \/ beat' = NoBeat
      BY <2>2 DEF HeartbeatHandled
    <3> HIDE DEF says
    <3>3. /\ beat'.at # "wait" => beat'.job \in Jobs
          /\ beat' \in [at : {"wait", "sent", "back"}, job : Jobs \cup {NoJob}, says : BOOLEAN]
      <4>1. beat.job \in Jobs /\ beat \in [at : {"wait", "sent", "back"}, job : Jobs \cup {NoJob}, says : BOOLEAN]
        BY <2>2 DEF HeartbeatHandled, BeatNamesRun, AgentTypeOK
      <4>2. CASE beat' = NoBeat
        BY <4>2 DEF NoBeat
      <4>3. CASE beat' = [beat EXCEPT !.at = "back", !.says = says]
        BY <3>1, <4>1, <4>3
      <4> QED
        BY <3>2, <4>2, <4>3
    <3> QED
      BY <2>2, <3>3 DEF HeartbeatHandled, AgentTypeOK, ScannerTypeOK, BeatNamesRun
  <2>3. CASE HeartbeatAnswer
    BY <2>3 DEF HeartbeatAnswer, AgentTypeOK, ScannerTypeOK, NoBeat, BeatNamesRun
  <2> QED
    BY <2>1, <2>2, <2>3
<1>5. ControlAlone'
  BY <1>1 DEF ControlAlone, Completed
<1> QED
  BY <1>3, <1>4, <1>5

\* A crash of the agent loses its memory, and no spool.
LEMMA AgentCrashKeeps ==
    ASSUME ResultsInv, lan, UNCHANGED <<loop, lan>>, AgentCrash
    PROVE  ResultsInv'
<1> USE DEF ResultsInv
<1>1. UploadInv'
  <2>1. crashes' \in 0 .. MaxCrashes
    BY DEF AgentCrash, UploadInv, UploadTypeOK
  <2>2. wk' \in Worker /\ wk'.pc = "wait"
    BY NoJobIsNone DEF AgentCrash
  <2> QED
    BY <2>1, <2>2, ThreadMoves DEF AgentCrash, UploadInv, UploadTypeOK
<1>2. AgentTypeOK' /\ ScannerTypeOK' /\ BeatNamesRun'
  BY DEF AgentCrash, AgentTypeOK, ScannerTypeOK, ControlIdle, SlotEmpty, NoBeat, BeatNamesRun
<1>3. ControlAlone'
  BY NoJobIsNone DEF AgentCrash, ControlAlone, ControlIdle, SlotEmpty, Resting
<1> QED
  BY <1>1, <1>2, <1>3

\* The steps of the agent, together.
LEMMA AgentKeeps ==
    ASSUME ResultsInv, lan, UNCHANGED <<loop, lan>>, NextAgent
    PROVE  ResultsInv'
<1>1. CASE Execute /\ UNCHANGED agentVars
  <2>1. UploadInv' /\ wk.pc \notin Resting /\ wk'.pc # "free"
    BY <1>1, ExecuteKeeps, ExecuteIsBusy, Typed DEF ResultsInv
  <2>2. ControlAlone'
    BY <1>1, <2>1, BusyStep DEF ResultsInv, agentVars
  <2> QED
    BY <1>1, <2>1, <2>2 DEF ResultsInv, agentVars, AgentTypeOK, ScannerTypeOK, BeatNamesRun
<1>2. CASE CentralSteps /\ UNCHANGED agentVars
  <2>1. UploadInv'
    BY <1>2, CentralStepsKeep DEF ResultsInv
  <2>2. wk' = wk /\ disk' = disk
    BY <1>2 DEF CentralSteps, Deliver, Expire, ForceCancel
  <2> QED
    BY <1>2, <2>1, <2>2 DEF ResultsInv, agentVars, AgentTypeOK, ScannerTypeOK, ControlAlone, BeatNamesRun, Completed
<1> QED
  BY <1>1, <1>2, ControlKeeps, TakeKeeps, StartKeeps, RefreshKeeps, FreeKeeps, HeartbeatKeeps, AgentCrashKeeps
     DEF NextAgent, WorkerStep

-----------------------------------------------------------------------------
(* The central scanner *)

\* The spools the scanner may resume are those of runs.
LEMMA DoneIn == Done \subseteq Jobs /\ (Done # {} => Oldest(Done) \in Jobs)
<1>1. Done \in SUBSET Jobs
  BY DEF Done
<1> QED
  BY <1>1, OldestIn

\* What the scanner's steps leave alone.
LEMMA ScannerFrame ==
    ASSUME ResultsInv, ~lan, UNCHANGED <<agentVars, lan>>
    PROVE  AgentTypeOK' /\ BeatNamesRun' /\ ControlAlone'
BY DEF ResultsInv, agentVars, AgentTypeOK, BeatNamesRun, ControlAlone

\* A run that begins is in the hands of the worker and not cancelled.
LEMMA BeginTyped ==
    ASSUME NEW j \in Jobs, NEW pc \in {"resume", "scan"}, Begin(j, pc)
    PROVE  wk' \in Worker /\ wk'.job = j /\ wk'.pc = pc /\ cancel' = FALSE
BY NoJobIsNone DEF Begin, Worker, Steps

\* A round of the scanner: resume, give up or list the jobs.
LEMMA RoundKeeps ==
    ASSUME ResultsInv, ~lan, UNCHANGED <<agentVars, lan>>, TryResume \/ ScannerAbandons \/ ListJobs
    PROVE  ResultsInv'
<1> USE DEF ResultsInv
<1>1. CASE TryResume
  <2>1. UNCHANGED <<central, disk, flight, faults, crashes>>
    BY <1>1 DEF TryResume
  <2>2. ScannerTypeOK'
    BY <1>1 DEF TryResume, ScannerTypeOK
  <2>3. CASE Done = {}
    BY <1>1, <2>2, <2>3, SameUpload, ScannerFrame DEF TryResume, uploadVars
  <2>4. CASE Done # {}
    <3>1. Begin(Oldest(Done), "resume") /\ Oldest(Done) \in Jobs
      BY <1>1, <2>4, DoneIn DEF TryResume
    <3>2. wk' \in Worker /\ wk'.job \in Jobs /\ wk'.pc = "resume" /\ cancel' = FALSE
      BY <3>1, BeginTyped
    <3>3. UploadInv'
      BY <2>1, <3>2, ThreadMoves DEF UploadInv, UploadTypeOK
    <3> QED
      BY <2>2, <3>3, ScannerFrame
  <2> QED
    BY <2>3, <2>4
<1>2. CASE ScannerAbandons
  <2>1. /\ wk.pc \in Resting /\ Oldest(Done) \in Jobs /\ loop' = loop
        /\ disk' = [disk EXCEPT ![Oldest(Done)] = NoSpool] /\ UNCHANGED <<central, wk, cancel, flight, crashes>>
    BY <1>2, DoneIn DEF ScannerAbandons, Resting
  <2>2. faults' \in 0 .. MaxFaults
    BY <1>2 DEF ScannerAbandons, Fault, UploadInv, UploadTypeOK
  <2>3. UploadInv'
    BY <2>1, <2>2, SpoolsGo
  <2> QED
    BY <2>1, <2>3, ScannerFrame DEF ScannerTypeOK
<1>3. CASE ListJobs
  <2>1. UploadInv'
    BY <1>3, SameUpload DEF ListJobs
  <2>2. ScannerTypeOK'
    BY <1>3 DEF ListJobs, ScannerTypeOK, LoopTop
  <2> QED
    BY <2>1, <2>2, ScannerFrame
<1> QED
  BY <1>1, <1>2, <1>3

\* The scanner starts a run of its list.
LEMMA StartWanKeeps ==
    ASSUME ResultsInv, ~lan, UNCHANGED <<agentVars, lan>>, StartWan
    PROVE  ResultsInv'
<1> USE DEF ResultsInv
<1> DEFINE j == Oldest(loop.todo)
<1>1. j \in Jobs /\ wk.pc = "wait" /\ UNCHANGED <<flight, crashes>>
  <2>1. loop.todo \in SUBSET Jobs /\ loop.todo # {}
    BY DEF StartWan, ScannerTypeOK
  <2> QED
    BY <2>1, OldestIn DEF StartWan
<1>2. /\ central' = central \/ (central[j].status = "queued" /\ central' = [central EXCEPT ![j].status = "running"])
      /\ \/ Begin(j, "scan") /\ disk' = Recovered(j) /\ faults' = faults
         \/ UNCHANGED <<disk, wk, cancel>> /\ (Fault \/ faults' = faults)
  BY DEF StartWan
<1>3. loop' = LoopTop \/ loop' = [loop EXCEPT !.todo = @ \ {j}]
  BY DEF StartWan
<1> HIDE DEF j
<1>4. CentralGrows
  BY <1>1, <1>2, StartRow, SameCentral
<1>5. faults' \in 0 .. MaxFaults
  BY <1>2 DEF Fault, UploadInv, UploadTypeOK
<1>6. wk' \in Worker /\ (wk'.pc # "wait" => wk'.job \in Jobs) /\ wk'.pc \in {"wait", "scan"} /\ cancel' \in BOOLEAN
  <2>1. wk \in Worker /\ cancel \in BOOLEAN
    BY DEF UploadInv, UploadTypeOK
  <2> QED
    BY <1>1, <1>2, <2>1, BeginTyped
<1>7. UploadInv'
  BY <1>1, <1>2, <1>4, <1>5, <1>6, StartedStep
<1>8. ScannerTypeOK'
  BY <1>3 DEF ScannerTypeOK, LoopTop
<1> QED
  BY <1>7, <1>8, ScannerFrame

\* The steps of the scanner, together.
LEMMA ScannerKeeps ==
    ASSUME ResultsInv, ~lan, UNCHANGED <<agentVars, lan>>, NextScanner
    PROVE  ResultsInv'
<1>1. CASE NoRefresh
  <2>1. UploadInv'
    BY <1>1, RefreshedStep DEF NoRefresh, ResultsInv, UploadInv, UploadTypeOK
  <2> QED
    BY <1>1, <2>1, ScannerFrame DEF NoRefresh, ResultsInv, ScannerTypeOK
<1>2. CASE EndWan
  <2>1. UploadInv'
    BY <1>2, NoJobIsNone, ThreadMoves DEF EndWan, ResultsInv, UploadInv, UploadTypeOK
  <2> QED
    BY <1>2, <2>1, ScannerFrame DEF EndWan, ResultsInv, ScannerTypeOK, LoopTop
<1>3. CASE WatchCancel
  <2>1. NextChunk' = NextChunk /\ UNCHANGED <<central, disk, wk, flight, faults, crashes, loop>> /\ cancel' = TRUE
    BY <1>3, ChunkStays DEF WatchCancel
  <2>2. DeletedIsStored' /\ ThreadOK'
    BY <2>1 DEF ResultsInv, UploadInv, ThreadOK, DeletedIsStored
  <2>3. UploadInv'
    BY <2>1, <2>2, OwnStep DEF ResultsInv, UploadInv, UploadTypeOK
  <2> QED
    BY <2>1, <2>3, ScannerFrame DEF ResultsInv, ScannerTypeOK
<1>4. CASE ScannerCrash
  <2>1. crashes' \in 0 .. MaxCrashes /\ UNCHANGED <<central, disk, flight, faults>> /\ wk' = Free /\ cancel' = FALSE
    BY <1>4 DEF ScannerCrash, ResultsInv, UploadInv, UploadTypeOK
  <2>2. UploadInv'
    BY <2>1, NoJobIsNone, ThreadMoves DEF ResultsInv, UploadInv, UploadTypeOK
  <2> QED
    BY <1>4, <2>2, ScannerFrame DEF ResultsInv, ScannerCrash, ScannerTypeOK, LoopTop
<1>5. CASE Execute /\ UNCHANGED loop
  BY <1>5, ExecuteKeeps, ScannerFrame DEF ResultsInv, ScannerTypeOK
<1>6. CASE CentralSteps /\ UNCHANGED loop
  BY <1>6, CentralStepsKeep, ScannerFrame DEF ResultsInv, ScannerTypeOK
<1> QED
  BY <1>1, <1>2, <1>3, <1>4, <1>5, <1>6, RoundKeeps, StartWanKeeps DEF NextScanner, LoopStep

-----------------------------------------------------------------------------
(* The theorems *)

\* Nothing is spooled, sent or stored at first.
LEMMA InitHolds == Init => ResultsInv
<1> SUFFICES ASSUME Init PROVE ResultsInv
  OBVIOUS
<1> USE DEF Init
<1>1. PICK waiting \in SUBSET Jobs :
        central = [j \in Jobs |-> [status |-> IF j \in waiting THEN "queued" ELSE "failed",
                                   asked |-> FALSE, held |-> {}, count |-> 0]]
  BY DEF InitUpload
<1>2. /\ central \in [Jobs -> Row]
      /\ \A j \in Jobs : central[j].held = {} /\ central[j].count = 0 /\ central[j].status # "done"
  BY <1>1 DEF Row, Ended
<1>3. disk = [j \in Jobs |-> NoSpool] /\ NoSpool \in Spool /\ ~NoSpool.done
  BY DEF InitUpload, NoSpool, Spool
<1>4. UploadInv
  <2>1. UploadTypeOK
    <3>1. disk \in [Jobs -> Spool]
      BY <1>3
    <3>2. /\ lan \in BOOLEAN /\ wk \in Worker /\ cancel \in BOOLEAN /\ flight \subseteq Jobs \X Calls
          /\ faults \in 0 .. MaxFaults /\ crashes \in 0 .. MaxCrashes
      BY NoJobIsNone DEF InitUpload
    <3> QED
      BY <1>2, <3>1, <3>2 DEF UploadTypeOK
  <2>2. CentralOK /\ ThreadOK
    BY <1>2, NoJobIsNone DEF InitUpload, CentralOK, RowOK, ThreadOK, Uploading
  <2>3. DeletedIsStored /\ LateCompletions
    BY <1>3 DEF InitUpload, DeletedIsStored, LateCompletions
  <2> QED
    BY <2>1, <2>2, <2>3 DEF UploadInv
<1>5. AgentTypeOK /\ ScannerTypeOK /\ BeatNamesRun
  BY DEF InitAgent, InitScanner, AgentTypeOK, ScannerTypeOK, BeatNamesRun, ControlIdle, SlotEmpty, NoBeat, LoopTop
<1>6. ControlAlone
  BY NoJobIsNone DEF InitUpload, InitAgent, ControlAlone, ControlIdle, SlotEmpty, Resting
<1> QED
  BY <1>4, <1>5, <1>6 DEF ResultsInv

\* Every step of the agent, or of the scanner, keeps the invariant.
LEMMA StepKeepsInv == ResultsInv /\ [Next]_vars => ResultsInv'
<1> SUFFICES ASSUME ResultsInv, [Next]_vars PROVE ResultsInv'
  OBVIOUS
<1>1. CASE lan /\ NextAgent /\ UNCHANGED <<loop, lan>>
  BY <1>1, AgentKeeps
<1>2. CASE ~lan /\ NextScanner /\ UNCHANGED <<agentVars, lan>>
  BY <1>2, ScannerKeeps
<1>3. CASE UNCHANGED vars
  BY <1>3, SameUpload DEF vars, ResultsInv, agentVars, uploadVars, AgentTypeOK, ScannerTypeOK, BeatNamesRun, ControlAlone, Completed
<1> QED
  BY <1>1, <1>2, <1>3 DEF Next

\* The inductive invariant of the way of results: what the thread has done of
\* finish_pipeline_run, what its spool still holds and what central stored fit.
THEOREM ResultsInvHolds == Spec => []ResultsInv
BY InitHolds, StepKeepsInv, PTL DEF Spec

\* A run that POST /complete made done has every part of its results, each
\* finding counted once, whatever was lost, late, repeated or interrupted.
THEOREM DoneStaysComplete == Spec => []DoneIsComplete
<1>1. ResultsInv => DoneIsComplete
  BY DEF ResultsInv, UploadInv, CentralOK, RowOK, DoneIsComplete
<1> QED
  BY <1>1, ResultsInvHolds, PTL

\* findings_count is what the findings upload of a run stored, once.
THEOREM FindingsCountedOnce == Spec => []CountedOnce
<1>1. ResultsInv => CountedOnce
  BY DEF ResultsInv, UploadInv, CentralOK, RowOK, CountedOnce
<1> QED
  BY <1>1, ResultsInvHolds, PTL

\* ack_delete and cleanup_staging delete from a finished spool only what
\* central has stored.
THEOREM DeletedStaysStored == Spec => []DeletedIsStored
<1>1. ResultsInv => DeletedIsStored
  BY DEF ResultsInv, UploadInv
<1> QED
  BY <1>1, ResultsInvHolds, PTL

\* Every reachable state of the agent's and the scanner's upload is well typed.
THEOREM ResultsTypeCorrect == Spec => []TypeOK
<1>1. ResultsInv => TypeOK
  BY DEF ResultsInv, UploadInv, TypeOK
<1> QED
  BY <1>1, ResultsInvHolds, PTL
=============================================================================
