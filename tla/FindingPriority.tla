-------------------------- MODULE FindingPriority --------------------------
(***************************************************************************)
(* Vulnerability intelligence and the operational priority of findings     *)
(* (intel/sync.py, nvd.py, epss.py, kev.py, priority.py, and the requests  *)
(* and services that change a factor).  Every transaction that changes a   *)
(* factor computes the priorities it thinks are affected from what it      *)
(* reads, and commits both.                                                *)
(*                                                                         *)
(* Bounds: the findings of one asset, each of a vulnerability of its own;  *)
(* a finding it is merged with is not older; a finding left with a stale   *)
(* priority is recalculated before anything else changes; scores are in    *)
(* tenths, percentiles in hundredths; a refresh starts at any time and     *)
(* unlocks its source on the connection that locked it.                    *)
(***************************************************************************)
EXTENDS Integers, FiniteSets, FiniteSetsExt

CONSTANTS ScoredCves,     \* the findings, and the vulnerabilities they are of
          CvssScores,     \* base scores that NVD publishes
          Percentiles,    \* EPSS percentiles
          Severities,     \* what detectors report
          Criticalities,  \* of the asset
          Ages,           \* of findings, in days
          Renamings,      \* intelligence of the vulnerabilities that findings are renamed to
          MergeTargets,   \* criticality and tag of the assets that the asset is merged into
          Sessions        \* concurrent transactions

Bands == 1..4    \* P1 to P4
NoValue == -1    \* a column that is NULL

ASSUME PriorityAssumption ==
    /\ CvssScores \subseteq 0..100
    /\ Percentiles \subseteq 0..100
    /\ Ages \subseteq 1..365
    /\ Severities \subseteq {"critical", "high", "medium", "low", "info"} /\ "info" \in Severities
    /\ Criticalities \subseteq {"critical", "high", "normal", "low"} /\ "normal" \in Criticalities

VARIABLES
    intel,     \* VulnerabilityIntelligence of each: cvss_base_score, epss_percentile, kev
    owner,     \* the asset: criticality and whether the CUI tag is assigned
    scored,    \* per finding: latest severity, proven WAN exposure, age in days
    priority,  \* AssetFinding.priority
    tx,        \* per session: the change it makes and the priorities it computed
    drifted    \* for the properties, per finding: what its priority may not have followed

priorityVars == <<intel, owner, scored, priority, tx, drifted>>

Intel == [cvss : CvssScores \cup {NoValue}, epss : Percentiles \cup {NoValue}, kev : {"unknown", "yes", "no"}]
Owner == [criticality : Criticalities, cui : BOOLEAN]
Detection == [severity : Severities, wan : BOOLEAN]
Factors == [intel : [ScoredCves -> Intel], asset : Owner,
            evidence : [ScoredCves -> [severity : Severities, wan : BOOLEAN, days : {0} \cup Ages]]]
Now == [intel |-> intel, asset |-> owner, evidence |-> scored]
ASSUME MovesAssumption == Renamings \subseteq Intel /\ MergeTargets \subseteq Owner

Closed == [kind |-> "closed"]
\* f gives some of the findings a value of S.
PerFinding(f, S) == DOMAIN f \subseteq ScoredCves /\ \A v \in DOMAIN f : f[v] \in S
IsChange(kind, c) ==
    CASE kind = "nvd" -> PerFinding(c, CvssScores \cup {NoValue})
      [] kind = "epss" -> PerFinding(c, Percentiles)
      [] kind = "kev" -> PerFinding(c, {"yes", "no"})
      [] kind = "criticality" -> c \in Criticalities
      [] kind = "tag" -> c \in BOOLEAN
      [] kind = "ingest" -> PerFinding(c, Detection)
      [] kind = "rename" -> PerFinding(c, Intel)
      [] kind = "merge" -> c.asset \in Owner /\ PerFinding(c.evidence, Detection)
      [] kind = "recalculate" -> c = 0

PriorityTypeOK ==
    /\ Now \in Factors
    /\ priority \in [ScoredCves -> Bands]
    /\ \A s \in Sessions : tx[s] # Closed =>
          IsChange(tx[s].kind, tx[s].change) /\ PerFinding(tx[s].priorities, Bands) /\ tx[s].crossed \in BOOLEAN
    /\ drifted \in [ScoredCves -> {"no", "tagged", "yes"}]

-----------------------------------------------------------------------------
(* calculate_asset_finding_priority, model 2b.1 *)

\* The points of the highest step that n reaches; steps are pairs.
Stepped(n, steps) == Max({0} \cup {s[2] : s \in {t \in steps : n >= t[1]}})

ImpactPoints(cvss, severity) ==
    IF cvss >= 0 THEN Stepped(cvss, {<<90, 40>>, <<70, 30>>, <<40, 20>>, <<1, 10>>})
    ELSE CASE severity = "critical" -> 40 [] severity = "high" -> 30 [] severity = "medium" -> 20
           [] severity = "low" -> 10 [] OTHER -> 0
EpssPoints(percentile) == Stepped(percentile, {<<98, 25>>, <<95, 20>>, <<90, 15>>, <<75, 10>>, <<50, 5>>})
CriticalityPoints(c) == CASE c = "critical" -> 20 [] c = "high" -> 12 [] c = "normal" -> 5 [] OTHER -> 0
AgePoints(days) == Stepped(days, {<<180, 10>>, <<90, 7>>, <<30, 4>>})

Score(f, v) ==
    Min({100, ImpactPoints(f.intel[v].cvss, f.evidence[v].severity) + EpssPoints(f.intel[v].epss)
                + (IF f.intel[v].kev = "yes" THEN 35 ELSE 0) + CriticalityPoints(f.asset.criticality)
                + (IF f.evidence[v].wan THEN 15 ELSE 0) + (IF f.asset.cui THEN 10 ELSE 0)
                + AgePoints(f.evidence[v].days)})

Band(score) == IF score >= 75 THEN 1 ELSE IF score >= 50 THEN 2 ELSE IF score >= 25 THEN 3 ELSE 4

\* The severity floor: CVSS owns it when it exists, else the detector.
FloorBand(cvss, severity) ==
    IF IF cvss >= 0 THEN cvss >= 90 ELSE severity = "critical" THEN 2
    ELSE IF IF cvss >= 0 THEN cvss >= 70 ELSE severity = "high" THEN 3 ELSE 4

Priority(f, v) ==
    IF f.intel[v].kev = "yes" THEN 1
    ELSE Min({Band(Score(f, v)), FloorBand(f.intel[v].cvss, f.evidence[v].severity)})

-----------------------------------------------------------------------------
(* Transactions *)

InitPriorities ==
    /\ intel = [v \in ScoredCves |-> [cvss |-> NoValue, epss |-> NoValue, kev |-> "unknown"]]
    /\ owner = [criticality |-> "normal", cui |-> FALSE]
    /\ scored = [v \in ScoredCves |-> [severity |-> "info", wan |-> FALSE, days |-> 0]]
    /\ priority = [v \in ScoredCves |-> Priority(Now, v)]
    /\ tx = [s \in Sessions |-> Closed]
    /\ drifted = [v \in ScoredCves |-> "no"]

\* recalculate_asset_finding_priorities: what the transaction reads is seen.
Recalculated(seen, vs) == [v \in vs |-> Priority(seen, v)]

\* The evidence e of each finding once the detections of found are added.
WithDetections(e, found) ==
    [v \in ScoredCves |->
        IF v \in DOMAIN found
        THEN [e[v] EXCEPT !.severity = found[v].severity, !.wan = e[v].wan \/ found[v].wan]
        ELSE e[v]]

\* The factors f once the transaction has changed them; it touches no other
\* column, whatever others committed.
Applied(f, kind, change) ==
    CASE kind = "nvd" -> [f EXCEPT !.intel = [v \in ScoredCves |->
                             IF v \in DOMAIN change THEN [@[v] EXCEPT !.cvss = change[v]] ELSE @[v]]]
      [] kind = "epss" -> [f EXCEPT !.intel = [v \in ScoredCves |->
                             IF v \in DOMAIN change THEN [@[v] EXCEPT !.epss = change[v]] ELSE @[v]]]
      [] kind = "kev" -> [f EXCEPT !.intel = [v \in ScoredCves |->
                             IF v \in DOMAIN change THEN [@[v] EXCEPT !.kev = change[v]] ELSE @[v]]]
      [] kind = "rename" -> [f EXCEPT !.intel = [v \in ScoredCves |->
                             IF v \in DOMAIN change THEN change[v] ELSE @[v]]]
      [] kind = "criticality" -> [f EXCEPT !.asset.criticality = change]
      [] kind = "tag" -> [f EXCEPT !.asset.cui = change]
      [] kind = "ingest" -> [f EXCEPT !.evidence = WithDetections(@, change)]
      [] kind = "merge" -> [f EXCEPT !.asset = change.asset, !.evidence = WithDetections(@, change.evidence)]
      [] kind = "recalculate" -> f

\* A transaction that makes the change and stores, for the findings of vs,
\* the priorities of the factors it has seen.
Transaction(s, kind, change, seen, vs) ==
    /\ tx[s] = Closed
    /\ (\E v \in ScoredCves : drifted[v] = "yes") => kind = "recalculate"    \* bound
    /\ tx' = [tx EXCEPT ![s] = [kind |-> kind, change |-> change, priorities |-> Recalculated(seen, vs),
                                crossed |-> FALSE]]
    /\ UNCHANGED <<intel, owner, scored, priority, drifted>>

\* _try_lock: one refresh per source at a time
MayRefresh(source) == \A s \in Sessions : tx[s].kind # source

\* select_cvss: the score of the best ranked metric.  None is usable in some
\* records, and a rejected one has no score.
SelectedCvss == CvssScores \cup {NoValue}

\* What parse_nvd_response gives: malformed records are left out.
ParsedNvd == UNION {[vs -> SelectedCvss] : vs \in (SUBSET ScoredCves) \ {{}}}

\* apply_nvd_record: a record replaces the score, and its absence or a rejection clears it.
RefreshNvd(s, parsed) == Transaction(s, "nvd", parsed, Applied(Now, "nvd", parsed), DOMAIN parsed)

\* The findings whose intelligence the refresh changes
Affected(after) == {v \in ScoredCves : after.intel[v] # intel[v]}

\* What parse_epss_csv gives: a few malformed rows are left out, and more of
\* them fail the refresh.
EpssDatasets == UNION {[vs -> Percentiles] : vs \in (SUBSET ScoredCves) \ {{}}}

\* apply_epss_dataset: a dataset is never complete, so absence clears nothing.
RefreshEpss(s, records) ==
    LET after == Applied(Now, "epss", records) IN Transaction(s, "epss", records, after, Affected(after))

\* What parse_kev_catalog gives: the vulnerabilities it lists, and whether no
\* entry was skipped and the declared count is right.
KevCatalogs == [listed : SUBSET ScoredCves, complete : BOOLEAN]

\* Mutated form: only a listed vulnerability is affected.
KevAffected_Listed(after, listed) == Affected(after) \cap listed

\* affected of apply_kev_catalog
KevAffected(after, listed) == Affected(after)

\* apply_kev_catalog: absence means no only in a complete catalog.
RefreshKev(s, catalog) ==
    LET told == IF catalog.complete THEN ScoredCves ELSE catalog.listed
        flags == [v \in told |-> IF v \in catalog.listed THEN "yes" ELSE "no"]
        after == Applied(Now, "kev", flags)
    IN /\ flags # << >>
       /\ Transaction(s, "kev", flags, after, KevAffected(after, catalog.listed))

\* update_asset: the session's own asset row is read back.
ChangeCriticality(s, c) ==
    /\ c # owner.criticality
    /\ Transaction(s, "criticality", c, Applied(Now, "criticality", c), ScoredCves)

\* add_asset_tag, delete_asset_tag.  The session does not flush by itself
\* (autoflush=False), and _cui_tag_ids queries the table: the tag is read as
\* it was before the request.
ChangeCuiTag(s) == Transaction(s, "tag", ~owner.cui, Now, ScoredCves)

\* ingest_findings: the evidence was flushed.
IngestEvidence(s, v, severity, wan) ==
    LET found == [u \in {v} |-> [severity |-> severity, wan |-> wan]] IN
    Transaction(s, "ingest", found, Applied(Now, "ingest", found), {v})

\* retarget_mapping of an ingestion renames the finding v.  Only the findings
\* of the reports are recalculated: v is none of them if the report that
\* moved the mapping was of another asset.
RenameFinding(s, v, i, elsewhere) ==
    LET renamed == [u \in {v} |-> i] IN
    Transaction(s, "rename", renamed, Applied(Now, "rename", renamed), IF elsewhere THEN {} ELSE {v})

\* Mutated form: the findings that are merged are not recalculated either.
MergeRecalculates_None(met) == {}

\* _merge_duplicate_asset_findings recalculates the keeper.
MergeRecalculates(met) == DOMAIN met

\* merge_asset_findings: the findings come under the asset o, those of met
\* are merged with a finding that is there.
MergeUnder(s, o, met) ==
    LET change == [asset |-> o, evidence |-> met] IN
    Transaction(s, "merge", change, Applied(Now, "merge", change), MergeRecalculates(met))

\* recalculate_age_bucket_changes, every 12 hours
AgePass(s) == Transaction(s, "recalculate", 0, Now, ScoredCves)

\* A treatment is no factor, but its finding is recalculated.
TreatFinding(s, v) == Transaction(s, "recalculate", 0, Now, {v})

\* The findings that the transaction t changes a factor of, without
\* recalculating them.
Overlooked(t) ==
    CASE t.kind = "rename" -> DOMAIN t.change \ DOMAIN t.priorities
      [] t.kind = "merge" -> ScoredCves \ DOMAIN t.priorities
      [] OTHER -> {}

Drift(t, v) ==
    IF t.crossed \/ v \in Overlooked(t) THEN "yes"
    ELSE IF t.kind = "tag" THEN "tagged"
    ELSE IF v \in DOMAIN t.priorities THEN "no" ELSE drifted[v]

CommitTx(s) ==
    LET t == tx[s] after == Applied(Now, t.kind, t.change) IN
    /\ t # Closed
    /\ intel' = after.intel
    /\ owner' = after.asset
    /\ scored' = after.evidence
    /\ priority' = [v \in ScoredCves |-> IF v \in DOMAIN t.priorities THEN t.priorities[v] ELSE priority[v]]
    /\ tx' = [u \in Sessions |-> IF u = s \/ tx[u] = Closed THEN Closed ELSE [tx[u] EXCEPT !.crossed = TRUE]]
    /\ drifted' = [v \in ScoredCves |-> Drift(t, v)]

\* A request or a refresh fails: everything it wrote is rolled back.
RollBackTx(s) ==
    /\ tx[s] # Closed
    /\ tx' = [tx EXCEPT ![s] = Closed]
    /\ UNCHANGED <<intel, owner, scored, priority, drifted>>

\* Findings grow older; the next pass sees it.
FindingsAge ==
    /\ \E days \in Ages :
       /\ \A v \in ScoredCves : days > scored[v].days
       /\ scored' = [v \in ScoredCves |-> [scored[v] EXCEPT !.days = days]]
    /\ tx' = [s \in Sessions |-> IF tx[s] = Closed THEN Closed ELSE [tx[s] EXCEPT !.crossed = TRUE]]
    /\ drifted' = [v \in ScoredCves |-> "yes"]
    /\ UNCHANGED <<intel, owner, priority>>

NextPriorities ==
    \/ \E s \in Sessions, parsed \in ParsedNvd : MayRefresh("nvd") /\ RefreshNvd(s, parsed)
    \/ \E s \in Sessions, records \in EpssDatasets : MayRefresh("epss") /\ RefreshEpss(s, records)
    \/ \E s \in Sessions, catalog \in KevCatalogs : MayRefresh("kev") /\ RefreshKev(s, catalog)
    \/ \E s \in Sessions, c \in Criticalities : ChangeCriticality(s, c)
    \/ \E s \in Sessions : ChangeCuiTag(s) \/ AgePass(s) \/ CommitTx(s) \/ RollBackTx(s)
    \/ \E s \in Sessions, v \in ScoredCves, severity \in Severities, wan \in BOOLEAN :
          IngestEvidence(s, v, severity, wan)
    \/ \E s \in Sessions, v \in ScoredCves, i \in Renamings, elsewhere \in BOOLEAN : RenameFinding(s, v, i, elsewhere)
    \/ \E s \in Sessions, o \in MergeTargets : \E vs \in SUBSET ScoredCves : \E met \in [vs -> Detection] : MergeUnder(s, o, met)
    \/ \E s \in Sessions, v \in ScoredCves : TreatFinding(s, v)
    \/ FindingsAge

-----------------------------------------------------------------------------
\* A finding stores the priority of the factors it is shown with, unless since
\* its last recalculation two transactions crossed, it grew older, its asset
\* was tagged, a mapping that a report of another asset moved renamed it, or
\* a merge put it under another asset.  Every other change, by a feed, an
\* edit, an ingestion or a merge with a finding that is there, recalculates
\* the findings whose factor it changes.
PriorityFollowsFactors ==
    \A v \in ScoredCves : drifted[v] = "no" => priority[v] = Priority(Now, v)

\* The same when the CUI tag of the asset may have changed: tagging counts.
PriorityFollowsTags ==
    \A v \in ScoredCves : drifted[v] # "yes" => priority[v] = Priority(Now, v)
=============================================================================
