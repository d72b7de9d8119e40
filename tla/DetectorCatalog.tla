-------------------------- MODULE DetectorCatalog --------------------------
(***************************************************************************)
(* Which vulnerability a detector's reports are about (finding_lifecycle.py*)
(* and the run index of finding_ingest.py).  A detector whose reports name *)
(* exactly one CVE stands for that CVE, any other for itself; a new report *)
(* may change this, which moves all of its evidence to other findings.     *)
(* A call ingests reports one after the other in a transaction, through an *)
(* index that remembers the findings it met and is never told of a move.   *)
(*                                                                         *)
(* Bound: calls do not overlap.                                            *)
(***************************************************************************)
EXTENDS Naturals, FiniteSets

CONSTANTS Detectors, CVEs, KnownAssets, IngestRuns,
          MaxEvidence    \* a bound on the evidence that is stored

ASSUME CatalogAssumption == "none" \notin KnownAssets \cup Detectors

VARIABLES
    catalog,   \* the tables, as committed
    ingest     \* the open call: its run, the tables as it sees them, its index

catalogVars == <<catalog, ingest>>

Vulnerabilities == ({"cve"} \X CVEs) \cup ({"key"} \X Detectors)
Unmapped == <<"key", "none">>
AssetFindings == KnownAssets \X Vulnerabilities
NoFinding == <<"none", Unmapped>>
\* of: the finding it is attached to; astray, for the property: the index
\* had remembered that finding under another vulnerability.
Evidence == [run : IngestRuns, det : Detectors, asset : KnownAssets \cup {"none"},
             of : AssetFindings \cup {NoFinding}, astray : BOOLEAN]

Tables == [cves : [Detectors -> SUBSET CVEs],    \* named by any evidence of the detector
           mapping : [Detectors -> Vulnerabilities \cup {Unmapped}],
           rows : SUBSET AssetFindings,          \* one per asset and vulnerability
           proof : SUBSET Evidence]
NoIngest == [run |-> "none"]

\* _asset_findings: what the finding remembered for an asset and a
\* vulnerability is now, NoFinding once it is deleted.
IsIndex(index) ==
    /\ DOMAIN index \subseteq AssetFindings
    /\ \A k \in DOMAIN index : index[k] \in AssetFindings \cup {NoFinding}

CatalogTypeOK ==
    /\ catalog \in Tables
    /\ ingest # NoIngest => ingest.run \in IngestRuns /\ ingest.seen \in Tables /\ IsIndex(ingest.index)

InitCatalog ==
    /\ catalog = [cves |-> [d \in Detectors |-> {}], mapping |-> [d \in Detectors |-> Unmapped],
                  rows |-> {}, proof |-> {}]
    /\ ingest = NoIngest

\* Mutated form: a detector without exactly one CVE is not in the catalog.
CatalogIdentity_Cve(d, cves) ==
    IF Cardinality(cves) = 1 THEN <<"cve", CHOOSE c \in cves : TRUE>> ELSE Unmapped

\* desired_catalog_identity over every CVE the detector's evidence names.
CatalogIdentity(d, cves) ==
    IF Cardinality(cves) = 1 THEN <<"cve", CHOOSE c \in cves : TRUE>> ELSE <<"key", d>>

\* The findings of the previous vulnerability that hold evidence of d.
Donors(t, d) == {e.of : e \in {x \in t.proof : x.det = d}} \cap (KnownAssets \X {t.mapping[d]})

\* Mutated form: a donor is kept although nothing supports it any more.
EmptiedDonors_None(t, d) == {}

\* partition_asset_finding_for_mapping: a donor without evidence of another
\* detector is renamed, or merged into the finding that is already there.
EmptiedDonors(t, d) ==
    {f \in Donors(t, d) : \A e \in t.proof : e.of = f => e.det = d}

\* Mutated form: only a donor that no other detector supports is retargeted.
Retargeted_Whole(t, d, v) ==
    {IF e.det = d /\ e.of \in EmptiedDonors(t, d) THEN [e EXCEPT !.of = <<e.of[1], v>>] ELSE e : e \in t.proof}

\* retarget_mapping: the evidence of d moves to the finding of v on its asset.
Retargeted(t, d, v) ==
    {IF e.det = d /\ e.of \in Donors(t, d) THEN [e EXCEPT !.of = <<e.of[1], v>>] ELSE e : e \in t.proof}

\* upsert_detector_catalog: the tables once d stands for v.
Mapped(t, d, known, v) ==
    LET moves == t.mapping[d] \notin {Unmapped, v} IN
    [cves |-> [t.cves EXCEPT ![d] = known],
     mapping |-> [t.mapping EXCEPT ![d] = v],
     rows |-> IF moves THEN (t.rows \ EmptiedDonors(t, d)) \cup {<<f[1], v>> : f \in Donors(t, d)} ELSE t.rows,
     proof |-> IF moves THEN Retargeted(t, d, v) ELSE t.proof]

\* The index holds row objects: it follows a renamed finding, under the key
\* it had, and keeps a deleted one.
Followed(index, t, d, v) ==
    LET new(f) == IF t.mapping[d] \in {Unmapped, v} \/ f \notin EmptiedDonors(t, d) THEN f
                  ELSE IF <<f[1], v>> \in t.rows THEN NoFinding ELSE <<f[1], v>>
    IN [k \in DOMAIN index |-> new(index[k])]

\* asset_finding_for: the remembered finding, else the row of that key.
FindingFor(index, f) == IF f \in DOMAIN index THEN index[f] ELSE f

StartIngest(r) ==
    /\ ingest = NoIngest
    /\ ingest' = [run |-> r, seen |-> catalog, index |-> << >>]
    /\ UNCHANGED catalog

\* ingest_findings, one report: evidence of this run that is already there is
\* skipped; the catalog first, then apply_detection for a resolved asset, and
\* the evidence row, which cannot refer to a deleted finding.
IngestReport(d, a, cves) ==
    LET t == ingest.seen
        known == t.cves[d] \cup cves
        v == CatalogIdentity(d, known)
        base == Mapped(t, d, known, v)
        index == Followed(ingest.index, t, d, v)
        f == FindingFor(index, <<a, v>>)
        of == IF a = "none" THEN NoFinding ELSE f
        e == [run |-> ingest.run, det |-> d, asset |-> a, of |-> of,
              astray |-> a # "none" /\ f # <<a, v>>]
    IN /\ ingest # NoIngest /\ Cardinality(t.proof) < MaxEvidence
       /\ ~ \E x \in t.proof : x.run = ingest.run /\ x.det = d /\ x.asset = a
       /\ a # "none" => f # NoFinding
       /\ ingest' = [ingest EXCEPT
             !.seen = [base EXCEPT !.rows = @ \cup ({of} \ {NoFinding}), !.proof = @ \cup {e}],
             !.index = [k \in DOMAIN index \cup ({<<a, v>>, f} \cap AssetFindings) |->
                           IF k \in {<<a, v>>, f} THEN f ELSE index[k]]]
       /\ UNCHANGED catalog

CommitIngest ==
    /\ ingest # NoIngest
    /\ catalog' = ingest.seen
    /\ ingest' = NoIngest

\* The call fails, for one when its evidence refers to a deleted finding.
FailIngest ==
    /\ ingest # NoIngest
    /\ ingest' = NoIngest
    /\ UNCHANGED catalog

NextCatalog ==
    \/ \E r \in IngestRuns : StartIngest(r)
    \/ \E d \in Detectors, a \in KnownAssets \cup {"none"}, cves \in SUBSET CVEs : IngestReport(d, a, cves)
    \/ CommitIngest
    \/ FailIngest

-----------------------------------------------------------------------------
\* All evidence of a detector on an asset is attached to the finding of the
\* one vulnerability the detector stands for now, whatever order its CVEs
\* became known in and whichever findings it shared with other detectors:
\* except evidence that an earlier report of the same call led astray.
EvidenceFollowsMapping ==
    /\ \A e \in catalog.proof : e.asset = "none" \/ e.astray \/ e.of = <<e.asset, catalog.mapping[e.det]>>
    /\ \A d \in Detectors : catalog.mapping[d] # Unmapped =>
          catalog.mapping[d] = CatalogIdentity(d, catalog.cves[d])

\* Every finding has evidence: one without could never be applicable to a
\* run again and would stay open for good.
FindingIsSupported == \A f \in catalog.rows : \E e \in catalog.proof : e.of = f
=============================================================================
