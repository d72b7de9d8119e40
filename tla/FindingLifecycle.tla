-------------------------- MODULE FindingLifecycle --------------------------
(***************************************************************************)
(* The life of one vulnerability on the assets of a tenant                 *)
(* (finding_lifecycle.py): runs report detections, their successful        *)
(* completion evaluates every asset they observed, clean evaluations in a  *)
(* row resolve the finding, a later detection reopens it, and a merge of   *)
(* two assets joins their findings.                                        *)
(*                                                                         *)
(* A request reads the rows when it starts and writes the columns it       *)
(* changed when it commits.  Nothing locks an asset_findings row.          *)
(***************************************************************************)
EXTENDS Naturals, Sequences, FiniteSets

CONSTANTS ScanRuns,      \* ids of runs, in the order they start
          Hosts,         \* assets
          CleanScans,    \* resolution_clean_scans of the policy
          Overlap        \* whether runs on the same assets overlap in time

ASSUME FindingAssumption ==
    /\ ScanRuns \subseteq Nat /\ CleanScans \in Nat \ {0} /\ Overlap \in BOOLEAN
    /\ IsFiniteSet(ScanRuns) /\ IsFiniteSet(Hosts)

VARIABLES
    scanRun,     \* per run: its stage, the assets it observed, covered, detected on
    finding,     \* per asset: its AssetFinding row
    evidence,    \* per asset: the runs with evidence attached to its finding
    evaluation,  \* per asset and run: AssetFindingRunEvaluation
    ended,       \* runs in the order of their finished_at
    loaded,      \* per run: the rows its open request read
    mergedInto   \* per asset: the asset it was merged into, or itself

findingVars == <<scanRun, finding, evidence, evaluation, ended, loaded, mergedInto>>

FindingRow == [row : BOOLEAN, open : BOOLEAN, clean : Nat, reopened : Nat]
NoRow == [row |-> FALSE, open |-> FALSE, clean |-> 0, reopened |-> 0]
Opened == [NoRow EXCEPT !.row = TRUE, !.open = TRUE]
NotLoaded == <<>>

RunReport == [at : {"new", "devices", "findings", "running", "done", "failed"},
              seen : SUBSET Hosts, covered : SUBSET Hosts, hits : SUBSET Hosts]

FindingTypeOK ==
    /\ scanRun \in [ScanRuns -> RunReport]
    /\ finding \in [Hosts -> FindingRow]
    /\ evidence \in [Hosts -> SUBSET ScanRuns]
    /\ evaluation \in [Hosts -> [ScanRuns -> {"none", "clean", "detected"}]]
    /\ ended \in Seq(ScanRuns)
    /\ \A r \in ScanRuns : loaded[r] \in {NotLoaded} \cup [Hosts -> FindingRow]
    /\ mergedInto \in [Hosts -> Hosts]

InitFindings ==
    /\ scanRun = [r \in ScanRuns |-> [at |-> "new", seen |-> {}, covered |-> {}, hits |-> {}]]
    /\ finding = [h \in Hosts |-> NoRow]
    /\ evidence = [h \in Hosts |-> {}]
    /\ evaluation = [h \in Hosts |-> [r \in ScanRuns |-> "none"]]
    /\ ended = <<>>
    /\ loaded = [r \in ScanRuns |-> NotLoaded]
    /\ mergedInto = [h \in Hosts |-> h]

Live == {h \in Hosts : mergedInto[h] = h}
Active == {r \in ScanRuns : scanRun[r].at \notin {"new", "done", "failed"}}
Stage(r, at) == scanRun' = [scanRun EXCEPT ![r].at = at]

\* The devices of a run are ingested: what it observed, what its detector
\* covers, and what it will detect.
StoreCoverage(r) ==
    /\ scanRun[r].at = "new" /\ (Overlap \/ Active = {})
    /\ \A q \in ScanRuns : q < r => scanRun[q].at # "new"
    /\ \E seen \in SUBSET Live, covered, hits \in SUBSET Hosts :
        /\ seen # {} /\ covered \subseteq seen /\ hits \subseteq seen
        /\ scanRun' = [scanRun EXCEPT ![r] =
              [at |-> "devices", seen |-> seen, covered |-> covered, hits |-> hits]]
    /\ UNCHANGED <<finding, evidence, evaluation, ended, loaded, mergedInto>>

\* FindingRunIndex.for_job and the query of the candidates read the rows.
LoadFindings(r) ==
    /\ scanRun[r].at \in {"devices", "running"} /\ loaded[r] = NotLoaded
    /\ loaded' = [loaded EXCEPT ![r] = finding]
    /\ UNCHANGED <<scanRun, finding, evidence, evaluation, ended, mergedInto>>

\* A write touches the columns whose value differs from the one read.
Column(now, read, new) == IF new = read THEN now ELSE new
Written(now, read, new) ==
    [c \in DOMAIN now |-> Column(now[c], read[c], new[c])]

\* apply_detection: first detection, repeated detection, reopening.
Detected(f) ==
    IF ~f.row THEN Opened
    ELSE [f EXCEPT !.clean = 0, !.open = TRUE, !.reopened = IF f.open THEN @ ELSE @ + 1]

\* ingest_findings.  Two first detections at once: the unique key over asset
\* and vulnerability refuses the second request.
IngestFindings(r) ==
    /\ scanRun[r].at = "devices" /\ loaded[r] # NotLoaded
    /\ LET hits == {mergedInto[h] : h \in scanRun[r].hits}
           refused == \E h \in hits : finding[h].row /\ ~loaded[r][h].row
       IN IF refused THEN Stage(r, "failed") /\ UNCHANGED <<finding, evidence>>
          ELSE /\ finding' = [h \in Hosts |->
                     IF h \notin hits THEN finding[h]
                     ELSE Written(finding[h], loaded[r][h], Detected(loaded[r][h]))]
               /\ evidence' = [h \in Hosts |->
                     IF h \in hits THEN evidence[h] \cup {r} ELSE evidence[h]]
               /\ Stage(r, "running")
    /\ loaded' = [loaded EXCEPT ![r] = NotLoaded]
    /\ UNCHANGED <<evaluation, ended, mergedInto>>

\* is_finding_applicable_to_run: observed and covered by the detector that
\* supports the finding.
Applicable(r, h) == h \in scanRun[r].covered

\* Mutated form: one clean scan fewer is enough.
Cleaned_Early(f) == [f EXCEPT !.clean = @ + 1, !.open = @ /\ f.clean + 2 < CleanScans]

\* A clean evaluation and _resolve_if_threshold_reached.
Cleaned(f) == [f EXCEPT !.clean = @ + 1, !.open = @ /\ f.clean + 1 < CleanScans]

\* _record_evaluation and what finalize_run_lifecycle does to the row.
Outcome(r, h) ==
    IF ~loaded[r][h].row \/ evaluation[h][r] # "none" THEN evaluation[h][r]
    ELSE IF r \in evidence[h] THEN "detected"
    ELSE IF Applicable(r, h) THEN "clean" ELSE "none"

Finalized(r, h) ==
    LET f == loaded[r][h] IN
    IF Outcome(r, h) = evaluation[h][r] THEN finding[h]
    ELSE Written(finding[h], f,
                 IF Outcome(r, h) = "detected" THEN [f EXCEPT !.clean = 0] ELSE Cleaned(f))

\* complete_scan_run(ok = TRUE)
CompleteScan(r) ==
    /\ scanRun[r].at = "running" /\ loaded[r] # NotLoaded
    /\ evaluation' = [h \in Hosts |-> [evaluation[h] EXCEPT ![r] = Outcome(r, h)]]
    /\ finding' = [h \in Hosts |-> Finalized(r, h)]
    /\ Stage(r, "done")
    /\ ended' = Append(ended, r)
    /\ loaded' = [loaded EXCEPT ![r] = NotLoaded]
    /\ UNCHANGED <<evidence, mergedInto>>

\* complete_scan_run(ok = FALSE): nothing is evaluated.
FailScan(r) ==
    /\ scanRun[r].at \in {"devices", "running"} /\ loaded[r] = NotLoaded
    /\ Stage(r, "failed")
    /\ UNCHANGED <<finding, evidence, evaluation, ended, loaded, mergedInto>>

-----------------------------------------------------------------------------
Larger(m, n) == IF m >= n THEN m ELSE n
Smaller(m, n) == IF m <= n THEN m ELSE n

\* Mutated form: the keeper's own evaluation always wins.
JoinedEvaluation_Keeper(k, d) == IF k # "none" THEN k ELSE d

\* The evaluations of a duplicate: on a collision a detection wins.
JoinedEvaluation(k, d) ==
    IF "detected" \in {k, d} THEN "detected" ELSE IF k # "none" THEN k ELSE d

\* _merge_duplicate_asset_findings
Joined(k, d) ==
    IF ~d.row THEN k ELSE IF ~k.row THEN d
    ELSE [row |-> TRUE, open |-> k.open \/ d.open,
          reopened |-> k.reopened + d.reopened,
          clean |-> IF k.open \/ d.open THEN Smaller(k.clean, d.clean)
                    ELSE Larger(k.clean, d.clean)]

\* merge_asset_findings, within merge_assets; observations, coverage matches
\* and evidence follow the asset.  Bound: no request is open meanwhile.
MergeFindings(target, source) ==
    LET follow(S) == IF source \in S THEN (S \ {source}) \cup {target} ELSE S
    IN /\ target # source /\ {target, source} \subseteq Live
       /\ \A r \in ScanRuns : loaded[r] = NotLoaded
       /\ finding' = [finding EXCEPT ![target] = Joined(@, finding[source]), ![source] = NoRow]
       /\ evidence' = [evidence EXCEPT ![target] = @ \cup evidence[source], ![source] = {}]
       /\ evaluation' = [evaluation EXCEPT
             ![target] = [r \in ScanRuns |-> JoinedEvaluation(@[r], evaluation[source][r])],
             ![source] = [r \in ScanRuns |-> "none"]]
       /\ mergedInto' = [h \in Hosts |-> IF mergedInto[h] = source THEN target ELSE mergedInto[h]]
       /\ scanRun' = [r \in ScanRuns |->
             [scanRun[r] EXCEPT !.seen = follow(@), !.covered = follow(@), !.hits = follow(@)]]
       /\ UNCHANGED <<ended, loaded>>

NextFindings ==
    \/ \E r \in ScanRuns :
         \/ StoreCoverage(r) \/ LoadFindings(r) \/ IngestFindings(r)
         \/ CompleteScan(r) \/ FailScan(r)
    \/ \E target, source \in Hosts : MergeFindings(target, source)

-----------------------------------------------------------------------------
\* From the i-th end of a run on, no run detected the finding of an asset and
\* at least n runs found it clean.
CleanFrom(h, i, n) ==
    LET since == {ended[j] : j \in i .. Len(ended)}
    IN /\ \A r \in since : evaluation[h][r] # "detected"
       /\ Cardinality({r \in since : evaluation[h][r] = "clean"}) >= n

\* A finding is resolved only while the last CleanScans runs that evaluated
\* it were clean: a detection reopens it and starts the count again, also
\* when two assets with different histories are merged.
ResolvedWasClean ==
    \A h \in Hosts : finding[h].row /\ ~finding[h].open =>
        \E i \in DOMAIN ended : CleanFrom(h, i, CleanScans)

\* No run counts as clean for a finding it has evidence of, whichever way
\* the evidence came to the finding.
CleanHasNoEvidence ==
    \A h \in Hosts : \A r \in evidence[h] : evaluation[h][r] # "clean"
=============================================================================
