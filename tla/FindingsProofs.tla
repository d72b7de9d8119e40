--------------------------- MODULE FindingsProofs ---------------------------
(*****************************************************************************)
(* Proofs about what the scans found: DetectorCatalog, FindingLifecycle,     *)
(* AssetInventory, Correlation and FindingPriority, each for any rows,       *)
(* observations and requests.                                                *)
(*****************************************************************************)
EXTENDS DetectorCatalog, FindingLifecycle, AssetInventory, Correlation,
        FindingPriority, OrderLemmas, SequenceTheorems, FiniteSetTheorems, TLAPS


-----------------------------------------------------------------------------
(* DetectorCatalog: evidence and findings follow the mapping of their detector *)

USE CatalogAssumption

\* Evidence without an asset has no finding, and only a mapped detector has
\* evidence.
EvidenceIsMapped(t) ==
    /\ \A e \in t.proof : e.asset = "none" => e.of = NoFinding
    /\ \A e \in t.proof : t.mapping[e.det] # Unmapped

\* The two properties, of any tables.
Follows(t) ==
    /\ \A e \in t.proof : e.asset = "none" \/ e.astray \/ e.of = <<e.asset, t.mapping[e.det]>>
    /\ \A d \in Detectors : t.mapping[d] # Unmapped => t.mapping[d] = CatalogIdentity(d, t.cves[d])
AllSupported(t) == \A f \in t.rows : \E e \in t.proof : e.of = f

\* They hold of what is committed and of what an open call sees.
GoodTables(t) == t \in Tables /\ EvidenceIsMapped(t) /\ Follows(t) /\ AllSupported(t)
OpenCall == \E r \in IngestRuns : \E t, x :
    ingest = [run |-> r, seen |-> t, index |-> x] /\ GoodTables(t) /\ IsIndex(x)
CatalogInv == GoodTables(catalog) /\ (ingest = NoIngest \/ OpenCall)

CatalogSpec == InitCatalog /\ [][NextCatalog]_catalogVars

\* No detector is mapped, no finding exists.
LEMMA CatalogInitHolds == InitCatalog => CatalogInv
BY DEF InitCatalog, CatalogInv, GoodTables, Tables, EvidenceIsMapped, Follows, AllSupported

\* A detector stands for a CVE or for itself.
LEMMA IdentityIsVulnerability ==
    ASSUME NEW d \in Detectors, NEW cves \in SUBSET CVEs
    PROVE  CatalogIdentity(d, cves) \in Vulnerabilities /\ CatalogIdentity(d, cves) # Unmapped
<1>1. CASE Cardinality(cves) = 1
  <2>1. cves # {}
    BY <1>1, FS_EmptySet
  <2>2. PICK c \in CVEs : CatalogIdentity(d, cves) = <<"cve", c>>
    BY <1>1, <2>1 DEF CatalogIdentity
  <2> QED
    BY <2>2 DEF Vulnerabilities, Unmapped
<1>2. CASE Cardinality(cves) # 1
  BY <1>2 DEF CatalogIdentity, Vulnerabilities, Unmapped
<1> QED
  BY <1>1, <1>2

\* The fields of tables, and of evidence.
LEMMA TablesFields ==
    ASSUME NEW t, GoodTables(t)
    PROVE  /\ t.cves \in [Detectors -> SUBSET CVEs] /\ t.mapping \in [Detectors -> Vulnerabilities \cup {Unmapped}]
           /\ t.rows \subseteq AssetFindings /\ t.proof \subseteq Evidence
           /\ \A e \in t.proof : e.det \in Detectors /\ e.asset \in KnownAssets \cup {"none"}
BY DEF GoodTables, Tables, Evidence

\* Evidence of d on an asset is attached to a donor, unless it went astray.
LEMMA DonorsOfEvidence ==
    ASSUME NEW t, GoodTables(t), NEW d \in Detectors
    PROVE  /\ \A e \in t.proof : e.det = d /\ e.asset # "none" /\ ~e.astray =>
                 e.of \in Donors(t, d) /\ e.of[1] = e.asset
           /\ \A e \in t.proof : e.asset = "none" => e.of \notin Donors(t, d)
           /\ \A f \in Donors(t, d) : f[1] \in KnownAssets /\ \E e \in t.proof : e.det = d /\ e.of = f
<1>1. \A e \in t.proof : e.asset = "none" => e.of \notin Donors(t, d)
  BY DEF GoodTables, EvidenceIsMapped, NoFinding, Donors
<1>2. ASSUME NEW e \in t.proof, e.det = d, e.asset # "none", ~e.astray
      PROVE  e.of \in Donors(t, d) /\ e.of[1] = e.asset
  <2>1. e.of = <<e.asset, t.mapping[d]>> /\ e.asset \in KnownAssets
    BY <1>2, TablesFields DEF GoodTables, Follows
  <2> QED
    BY <1>2, <2>1 DEF Donors
<1>3. \A f \in Donors(t, d) : f[1] \in KnownAssets /\ \E e \in t.proof : e.det = d /\ e.of = f
  BY DEF Donors
<1> QED
  BY <1>1, <1>2, <1>3

\* retarget_mapping moves the evidence of d to the new vulnerability and
\* leaves the rest alone.
LEMMA RetargetingFollows ==
    ASSUME NEW t, GoodTables(t), NEW d \in Detectors, NEW v \in Vulnerabilities
    PROVE  /\ Retargeted(t, d, v) \subseteq Evidence
           /\ \A x \in Retargeted(t, d, v) :
                 /\ x.asset = "none" => x.of = NoFinding
                 /\ x.asset # "none" /\ ~x.astray =>
                       x.of = <<x.asset, IF x.det = d THEN v ELSE t.mapping[x.det]>>
                 /\ x.det # d => x \in t.proof
           /\ \A e \in t.proof : (e.det # d \/ e.of \notin Donors(t, d)) => e \in Retargeted(t, d, v)
           /\ \A f \in Donors(t, d) : \E x \in Retargeted(t, d, v) : x.of = <<f[1], v>>
<1> DEFINE moved(e) == [e EXCEPT !.of = <<e.of[1], v>>]
<1>1. ASSUME NEW e \in t.proof, e.det = d, e.of \in Donors(t, d)
      PROVE  /\ moved(e) \in Evidence /\ moved(e).asset = e.asset /\ moved(e).det = d
             /\ moved(e).of = <<e.of[1], v>> /\ moved(e).astray = e.astray /\ e.asset # "none"
             /\ ~e.astray => e.of[1] = e.asset
             /\ moved(e) \in Retargeted(t, d, v)
  <2>1. /\ e \in Evidence /\ e.of[1] \in KnownAssets /\ e.asset # "none"
        /\ ~e.astray => e.of[1] = e.asset
    BY <1>1, DonorsOfEvidence, TablesFields
  <2>2. <<e.of[1], v>> \in AssetFindings
    BY <2>1 DEF AssetFindings
  <2>3. moved(e) \in Retargeted(t, d, v)
    BY <1>1 DEF Retargeted
  <2> QED
    BY <1>1, <2>1, <2>2, <2>3 DEF Evidence
<1>2. \A x \in Retargeted(t, d, v) :
         \/ x \in t.proof /\ ~(x.det = d /\ x.of \in Donors(t, d))
         \/ \E e \in t.proof : e.det = d /\ e.of \in Donors(t, d) /\ x = moved(e)
  BY DEF Retargeted
<1>3. \A e \in t.proof : (e.det # d \/ e.of \notin Donors(t, d)) => e \in Retargeted(t, d, v)
  BY DEF Retargeted
<1> HIDE DEF moved
<1>4. Retargeted(t, d, v) \subseteq Evidence
  BY <1>1, <1>2, TablesFields
<1>5. ASSUME NEW x \in Retargeted(t, d, v)
      PROVE  /\ x.asset = "none" => x.of = NoFinding
             /\ x.asset # "none" /\ ~x.astray =>
                   x.of = <<x.asset, IF x.det = d THEN v ELSE t.mapping[x.det]>>
             /\ x.det # d => x \in t.proof
  <2>1. CASE x \in t.proof /\ ~(x.det = d /\ x.of \in Donors(t, d))
    <3>1. x.asset # "none" /\ ~x.astray => x.det # d
      BY <2>1, DonorsOfEvidence
    <3> QED
      BY <2>1, <3>1 DEF GoodTables, EvidenceIsMapped, Follows
  <2>2. CASE \E e \in t.proof : e.det = d /\ e.of \in Donors(t, d) /\ x = moved(e)
    BY <1>1, <2>2
  <2> QED
    BY <1>2, <2>1, <2>2
<1>6. \A f \in Donors(t, d) : \E x \in Retargeted(t, d, v) : x.of = <<f[1], v>>
  <2> SUFFICES ASSUME NEW f \in Donors(t, d) PROVE \E x \in Retargeted(t, d, v) : x.of = <<f[1], v>>
    OBVIOUS
  <2>1. PICK e \in t.proof : e.det = d /\ e.of = f
    BY DonorsOfEvidence
  <2> QED
    BY <1>1, <2>1
<1> QED
  BY <1>3, <1>4, <1>5, <1>6

\* upsert_detector_catalog: the tables are good once d stands for what its
\* CVEs say.
LEMMA MappedIsGood ==
    ASSUME NEW t, GoodTables(t), NEW d \in Detectors, NEW known \in SUBSET CVEs
    PROVE  LET v == CatalogIdentity(d, known) b == Mapped(t, d, known, v)
           IN GoodTables(b) /\ b.mapping[d] = v
<1> DEFINE v == CatalogIdentity(d, known)
<1> DEFINE b == Mapped(t, d, known, v)
<1> DEFINE moves == t.mapping[d] \notin {Unmapped, v}
<1>1. v \in Vulnerabilities /\ v # Unmapped
  BY IdentityIsVulnerability
<1>2. /\ b.cves = [t.cves EXCEPT ![d] = known] /\ b.mapping = [t.mapping EXCEPT ![d] = v]
      /\ ~moves => b.rows = t.rows /\ b.proof = t.proof
      /\ moves => /\ b.rows = (t.rows \ EmptiedDonors(t, d)) \cup {<<f[1], v>> : f \in Donors(t, d)}
                  /\ b.proof = Retargeted(t, d, v)
      /\ b = [cves |-> b.cves, mapping |-> b.mapping, rows |-> b.rows, proof |-> b.proof]
  BY DEF Mapped
<1>3. v = CatalogIdentity(d, known)
  OBVIOUS
<1> HIDE DEF b, v
<1>4. /\ b.mapping \in [Detectors -> Vulnerabilities \cup {Unmapped}] /\ b.mapping[d] = v
      /\ \A c \in Detectors \ {d} : b.mapping[c] = t.mapping[c]
      /\ b.cves \in [Detectors -> SUBSET CVEs] /\ b.cves[d] = known
      /\ \A c \in Detectors \ {d} : b.cves[c] = t.cves[c]
  BY <1>1, <1>2, TablesFields
<1>5. \A c \in Detectors : b.mapping[c] # Unmapped => b.mapping[c] = CatalogIdentity(c, b.cves[c])
  <2> SUFFICES ASSUME NEW c \in Detectors, b.mapping[c] # Unmapped
               PROVE  b.mapping[c] = CatalogIdentity(c, b.cves[c])
    OBVIOUS
  <2>1. CASE c = d
    BY <1>3, <1>4, <2>1
  <2>2. CASE c # d
    BY <1>4, <2>2 DEF GoodTables, Follows
  <2> QED
    BY <2>1, <2>2
<1>6. /\ b.proof \subseteq Evidence /\ b.rows \subseteq AssetFindings
      /\ \A x \in b.proof : /\ x.asset = "none" => x.of = NoFinding
                            /\ x.asset = "none" \/ x.astray \/ x.of = <<x.asset, b.mapping[x.det]>>
                            /\ b.mapping[x.det] # Unmapped
      /\ AllSupported(b)
  <2>1. CASE ~moves
    <3>1. b.proof = t.proof /\ b.rows = t.rows
      BY <1>2, <2>1
    <3>2. ASSUME NEW x \in t.proof, x.asset # "none", ~x.astray
          PROVE  x.of = <<x.asset, b.mapping[x.det]>>
      <4>1. CASE x.det # d
        BY <1>4, <3>2, <4>1, TablesFields DEF GoodTables, Follows
      <4>2. CASE x.det = d
        <5>1. t.mapping[d] = v
          BY <2>1, <4>2 DEF GoodTables, EvidenceIsMapped
        <5> QED
          BY <1>4, <3>2, <4>2, <5>1 DEF GoodTables, Follows
      <4> QED
        BY <4>1, <4>2
    <3>3. \A x \in t.proof : b.mapping[x.det] # Unmapped
      BY <1>1, <1>4, TablesFields DEF GoodTables, EvidenceIsMapped
    <3> QED
      BY <3>1, <3>2, <3>3, TablesFields DEF GoodTables, EvidenceIsMapped, AllSupported
  <2>2. CASE moves
    <3>1. /\ b.proof = Retargeted(t, d, v)
          /\ b.rows = (t.rows \ EmptiedDonors(t, d)) \cup {<<g[1], v>> : g \in Donors(t, d)}
      BY <1>2, <2>2
    <3>2. b.proof \subseteq Evidence
      BY <1>1, <3>1, RetargetingFollows
    <3>3. ASSUME NEW x \in b.proof
          PROVE  /\ x.asset = "none" => x.of = NoFinding
                 /\ x.asset = "none" \/ x.astray \/ x.of = <<x.asset, b.mapping[x.det]>>
                 /\ b.mapping[x.det] # Unmapped
      <4>1. /\ x.asset = "none" => x.of = NoFinding
            /\ x.asset # "none" /\ ~x.astray =>
                  x.of = <<x.asset, IF x.det = d THEN v ELSE t.mapping[x.det]>>
            /\ x.det # d => x \in t.proof
        BY <1>1, <3>1, RetargetingFollows
      <4>2. x.det \in Detectors
        BY <3>2 DEF Evidence
      <4>3. b.mapping[x.det] = IF x.det = d THEN v ELSE t.mapping[x.det]
        BY <1>4, <4>2
      <4>4. b.mapping[x.det] # Unmapped
        BY <1>1, <4>1, <4>3 DEF GoodTables, EvidenceIsMapped
      <4> QED
        BY <4>1, <4>3, <4>4
    <3>4. b.rows \subseteq AssetFindings
      BY <1>1, <3>1, DonorsOfEvidence, TablesFields DEF AssetFindings
    <3>5. ASSUME NEW g \in b.rows PROVE \E x \in b.proof : x.of = g
      <4>1. CASE g \in t.rows \ EmptiedDonors(t, d)
        <5>1. PICK e \in t.proof : e.of = g
          BY <4>1 DEF GoodTables, AllSupported
        <5>2. CASE g \notin Donors(t, d)
          BY <1>1, <3>1, <5>1, <5>2, RetargetingFollows
        <5>3. CASE g \in Donors(t, d)
          <6>1. PICK x \in t.proof : x.of = g /\ x.det # d
            BY <4>1, <5>3 DEF EmptiedDonors
          <6> QED
            BY <1>1, <3>1, <6>1, RetargetingFollows
        <5> QED
          BY <5>2, <5>3
      <4>2. CASE g \in {<<h[1], v>> : h \in Donors(t, d)}
        BY <1>1, <3>1, <4>2, RetargetingFollows
      <4> QED
        BY <3>1, <4>1, <4>2
    <3> QED
      BY <3>2, <3>3, <3>4, <3>5 DEF AllSupported
  <2> QED
    BY <2>1, <2>2
<1>7. b \in Tables
  BY <1>2, <1>4, <1>6 DEF Tables
<1>8. GoodTables(b) /\ b.mapping[d] = v
  BY <1>4, <1>5, <1>6, <1>7 DEF GoodTables, EvidenceIsMapped, Follows
<1> QED
  BY <1>8 DEF b, v

\* The index stays one of findings and deleted findings.
LEMMA FollowedIsIndex ==
    ASSUME NEW index, IsIndex(index), NEW t, NEW d, NEW v \in Vulnerabilities
    PROVE  IsIndex(Followed(index, t, d, v))
<1>1. \A f \in Donors(t, d) : <<f[1], v>> \in AssetFindings
  BY DEF Donors, AssetFindings
<1> QED
  BY <1>1 DEF IsIndex, Followed, EmptiedDonors

\* One report: the catalog, the finding and the evidence.
LEMMA IngestReportStep ==
    ASSUME CatalogInv, NEW d \in Detectors, NEW a \in KnownAssets \cup {"none"}, NEW cves \in SUBSET CVEs,
           IngestReport(d, a, cves)
    PROVE  CatalogInv'
<1>0. PICK r \in IngestRuns : \E t, x : ingest = [run |-> r, seen |-> t, index |-> x] /\ GoodTables(t) /\ IsIndex(x)
  BY DEF CatalogInv, OpenCall, IngestReport
<1>1. PICK t, x : ingest = [run |-> r, seen |-> t, index |-> x] /\ GoodTables(t) /\ IsIndex(x)
  BY <1>0
<1> DEFINE known == t.cves[d] \cup cves
<1> DEFINE v == CatalogIdentity(d, known)
<1> DEFINE base == Mapped(t, d, known, v)
<1> DEFINE index == Followed(x, t, d, v)
<1> DEFINE f == FindingFor(index, <<a, v>>)
<1> DEFINE of == IF a = "none" THEN NoFinding ELSE f
<1> DEFINE e == [run |-> r, det |-> d, asset |-> a, of |-> of, astray |-> a # "none" /\ f # <<a, v>>]
<1> DEFINE seen == [base EXCEPT !.rows = @ \cup ({of} \ {NoFinding}), !.proof = @ \cup {e}]
<1> DEFINE indexed == [k \in DOMAIN index \cup ({<<a, v>>, f} \cap AssetFindings) |->
                           IF k \in {<<a, v>>, f} THEN f ELSE index[k]]
<1>2. /\ a # "none" => f # NoFinding
      /\ ingest' = [run |-> r, seen |-> seen, index |-> indexed] /\ catalog' = catalog
  BY <1>1 DEF IngestReport
<1>3. known \in SUBSET CVEs
  BY <1>1, TablesFields
<1>4. v \in Vulnerabilities /\ v # Unmapped
  BY <1>3, IdentityIsVulnerability
<1>5. GoodTables(base) /\ base.mapping[d] = v
  BY <1>1, <1>3, MappedIsGood
<1>6. IsIndex(index)
  BY <1>1, <1>4, FollowedIsIndex
<1> HIDE DEF known, v, base, index
<1>7. f \in AssetFindings \cup {NoFinding} \/ (a = "none" /\ f = <<a, v>>)
  <2>1. a # "none" => <<a, v>> \in AssetFindings
    BY <1>4 DEF AssetFindings
  <2>2. \A k \in DOMAIN index : index[k] \in AssetFindings \cup {NoFinding}
    BY <1>6 DEF IsIndex
  <2>3. \A k : FindingFor(index, k) = k \/ (k \in DOMAIN index /\ FindingFor(index, k) = index[k])
    BY DEF FindingFor
  <2>4. f = <<a, v>> \/ \E k \in DOMAIN index : f = index[k]
    BY <2>3
  <2> QED
    BY <2>1, <2>2, <2>4
<1>8. IsIndex(indexed)
  <2>1. CASE f \in AssetFindings \cup {NoFinding}
    BY <1>6, <2>1 DEF IsIndex
  <2>2. CASE a = "none" /\ f = <<a, v>>
    <3>1. <<a, v>> \notin AssetFindings
      BY <2>2 DEF AssetFindings
    <3> QED
      BY <1>6, <2>2, <3>1 DEF IsIndex
  <2> QED
    BY <1>7, <2>1, <2>2
<1>9. /\ of \in AssetFindings \cup {NoFinding} /\ (a # "none" => of \in AssetFindings /\ of = f)
      /\ a = "none" => of = NoFinding
  BY <1>2, <1>7
<1>10. /\ e \in Evidence /\ e.det = d /\ e.asset = a /\ e.of = of
       /\ e.asset = "none" \/ e.astray \/ e.of = <<a, v>>
  BY <1>9 DEF Evidence
<1> HIDE DEF f, of, e, indexed
<1>11. /\ seen.cves = base.cves /\ seen.mapping = base.mapping
       /\ seen.rows = base.rows \cup ({of} \ {NoFinding}) /\ seen.proof = base.proof \cup {e}
       /\ seen \in Tables
  BY <1>5, <1>9, <1>10 DEF GoodTables, Tables
<1> HIDE DEF seen
<1>12. GoodTables(seen)
  <2>1. EvidenceIsMapped(seen)
    BY <1>4, <1>5, <1>9, <1>10, <1>11 DEF GoodTables, EvidenceIsMapped
  <2>2. Follows(seen)
    BY <1>5, <1>10, <1>11 DEF GoodTables, Follows
  <2>3. AllSupported(seen)
    BY <1>5, <1>10, <1>11 DEF GoodTables, AllSupported
  <2> QED
    BY <1>11, <2>1, <2>2, <2>3 DEF GoodTables
<1>13. OpenCall'
  BY <1>2, <1>8, <1>12 DEF OpenCall
<1> QED
  BY <1>2, <1>13 DEF CatalogInv

\* Every step keeps the invariant.
LEMMA CatalogStepKeepsInv == CatalogInv /\ [NextCatalog]_catalogVars => CatalogInv'
<1> SUFFICES ASSUME CatalogInv, [NextCatalog]_catalogVars PROVE CatalogInv'
  OBVIOUS
<1>1. ASSUME NEW r \in IngestRuns, StartIngest(r) PROVE CatalogInv'
  <2>1. IsIndex(<< >>)
    BY DEF IsIndex
  <2>2. OpenCall'
    BY <1>1, <2>1 DEF StartIngest, CatalogInv, OpenCall
  <2> QED
    BY <1>1, <2>2 DEF StartIngest, CatalogInv
<1>2. ASSUME NEW d \in Detectors, NEW a \in KnownAssets \cup {"none"}, NEW cves \in SUBSET CVEs,
             IngestReport(d, a, cves)
      PROVE  CatalogInv'
  BY <1>2, IngestReportStep
<1>3. CASE CommitIngest
  BY <1>3 DEF CommitIngest, CatalogInv, OpenCall
<1>4. CASE FailIngest
  BY <1>4 DEF FailIngest, CatalogInv
<1>5. CASE UNCHANGED catalogVars
  BY <1>5 DEF catalogVars, CatalogInv, OpenCall
<1> QED
  BY <1>1, <1>2, <1>3, <1>4, <1>5 DEF NextCatalog

-----------------------------------------------------------------------------
\* The invariant of the catalog.
THEOREM CatalogInvHolds == CatalogSpec => []CatalogInv
<1> QED
  BY CatalogInitHolds, CatalogStepKeepsInv, PTL DEF CatalogSpec

\* Whatever order CVEs become known in, evidence is attached to the finding of
\* the vulnerability its detector stands for now, unless the index of its own
\* call led it astray.
THEOREM EvidenceKeepsToMapping == CatalogSpec => []EvidenceFollowsMapping
<1>1. CatalogInv => EvidenceFollowsMapping
  BY DEF CatalogInv, GoodTables, Follows, EvidenceFollowsMapping
<1> QED
  BY CatalogInvHolds, <1>1, PTL

\* Moving evidence leaves no finding without any, and evidence that went
\* astray is attached to a finding that exists.
THEOREM FindingsAreSupported == CatalogSpec => []FindingIsSupported
<1>1. CatalogInv => FindingIsSupported
  BY DEF CatalogInv, GoodTables, AllSupported, FindingIsSupported
<1> QED
  BY CatalogInvHolds, <1>1, PTL

HIDE CatalogAssumption

-----------------------------------------------------------------------------
(* FindingLifecycle: a resolved finding was clean, what has evidence is not clean *)

USE FindingAssumption

\* The shape of the tables.
FindingShape ==
    /\ scanRun \in [ScanRuns -> RunReport]
    /\ finding \in [Hosts -> FindingRow]
    /\ evidence \in [Hosts -> SUBSET ScanRuns]
    /\ evaluation \in [Hosts -> [ScanRuns -> {"none", "clean", "detected"}]]
    /\ loaded \in [ScanRuns -> {NotLoaded} \cup [Hosts -> FindingRow]]

\* Only a run that has ended well has evaluated anything.
OnlyDoneEvaluates ==
    \A r \in ScanRuns : scanRun[r].at # "done" => \A h \in Hosts : evaluation[h][r] = "none"

\* It evaluated every finding that it has evidence of as detected.
EvidenceIsDetected ==
    \A h \in Hosts : \A r \in evidence[h] : scanRun[r].at = "done" => evaluation[h][r] = "detected"

\* Evidence belongs to a finding, and an open request that completes a run has
\* read the findings that the run left evidence on.
EvidenceHasRow == \A h \in Hosts : evidence[h] # {} => finding[h].row
LoadedHasRow ==
    \A r \in ScanRuns : loaded[r] # NotLoaded =>
        \A h \in Hosts : /\ loaded[r][h].row => finding[h].row
                         /\ scanRun[r].at = "running" /\ r \in evidence[h] => loaded[r][h].row

FindingInv ==
    FindingShape /\ OnlyDoneEvaluates /\ EvidenceIsDetected /\ EvidenceHasRow /\ LoadedHasRow

\* A write of a request keeps a row typed, and a row that exists.
LEMMA WriteKeeps ==
    ASSUME NEW now \in FindingRow, NEW read \in FindingRow, NEW new \in FindingRow
    PROVE  /\ Written(now, read, new) \in FindingRow
           /\ Written(now, read, new).row = Column(now.row, read.row, new.row)
<1>1. DOMAIN now = {"row", "open", "clean", "reopened"}
  BY DEF FindingRow
<1>2. Written(now, read, new) = [c \in {"row", "open", "clean", "reopened"} |-> Column(now[c], read[c], new[c])]
  BY <1>1 DEF Written
<1>3. /\ Written(now, read, new).row = Column(now.row, read.row, new.row)
      /\ Written(now, read, new).open = Column(now.open, read.open, new.open)
      /\ Written(now, read, new).clean = Column(now.clean, read.clean, new.clean)
      /\ Written(now, read, new).reopened = Column(now.reopened, read.reopened, new.reopened)
  BY <1>2
<1>4. /\ Column(now.row, read.row, new.row) \in BOOLEAN /\ Column(now.open, read.open, new.open) \in BOOLEAN
      /\ Column(now.clean, read.clean, new.clean) \in Nat
      /\ Column(now.reopened, read.reopened, new.reopened) \in Nat
  BY DEF Column, FindingRow
<1> DEFINE w == Written(now, read, new)
<1>5. w = [row |-> w.row, open |-> w.open, clean |-> w.clean, reopened |-> w.reopened]
  BY <1>2
<1> HIDE DEF w
<1>6. w \in FindingRow
  BY <1>3, <1>4, <1>5 DEF FindingRow, w
<1> QED BY <1>3, <1>6 DEF w

\* What a detection, a clean evaluation and a detected one write.
LEMMA NewRows ==
    ASSUME NEW f \in FindingRow
    PROVE  /\ Detected(f) \in FindingRow /\ Detected(f).row
           /\ Cleaned(f) \in FindingRow /\ Cleaned(f).row = f.row
           /\ [f EXCEPT !.clean = 0] \in FindingRow /\ [f EXCEPT !.clean = 0].row = f.row
<1>1. CleanScans \in Nat
  BY FindingAssumption
<1>2. Detected(f) \in FindingRow /\ Detected(f).row
  <2>1. CASE ~f.row
    <3>1. Detected(f) = Opened
      BY <2>1 DEF Detected
    <3>2. Opened \in FindingRow
      BY DEF Opened, NoRow, FindingRow
    <3>3. Opened.row = TRUE
      BY DEF Opened, NoRow
    <3> QED BY <3>1, <3>2, <3>3
  <2>2. CASE f.row
    <3> DEFINE n == IF f.open THEN f.reopened ELSE f.reopened + 1
    <3>1. n \in Nat
      BY DEF FindingRow
    <3>2. Detected(f) = [row |-> f.row, open |-> TRUE, clean |-> 0, reopened |-> n]
      BY <2>2 DEF Detected, FindingRow
    <3> HIDE DEF n
    <3> QED BY <2>2, <3>1, <3>2 DEF FindingRow
  <2> QED BY <2>1, <2>2
<1>3. Cleaned(f) \in FindingRow /\ Cleaned(f).row = f.row
  <2>1. f.clean + 1 \in Nat /\ (f.open /\ f.clean + 1 < CleanScans) \in BOOLEAN
    BY DEF FindingRow
  <2>2. \A n \in Nat, o \in BOOLEAN : [f EXCEPT !.clean = n, !.open = o] \in FindingRow
    BY DEF FindingRow
  <2>3. Cleaned(f) \in FindingRow
    BY <2>1, <2>2 DEF Cleaned
  <2>4. Cleaned(f).row = f.row
    BY DEF Cleaned, FindingRow
  <2> QED BY <2>3, <2>4
<1> QED BY <1>2, <1>3 DEF FindingRow

\* A run moves to another stage.
LEMMA StageWrites ==
    ASSUME FindingShape, NEW r \in ScanRuns,
           NEW at \in {"new", "devices", "findings", "running", "done", "failed"},
           scanRun' = [scanRun EXCEPT ![r].at = at]
    PROVE  scanRun' \in [ScanRuns -> RunReport] /\ scanRun'[r].at = at
           /\ \A q \in ScanRuns : q # r => scanRun'[q] = scanRun[q]
<1> DEFINE new == [scanRun[r] EXCEPT !.at = at]
<1>1. scanRun \in [ScanRuns -> RunReport]
  BY DEF FindingShape
<1>2. new \in RunReport /\ new.at = at
  BY <1>1 DEF RunReport
<1>3. scanRun' = [scanRun EXCEPT ![r] = new]
  OBVIOUS
<1> HIDE DEF new
<1> QED BY <1>1, <1>2, <1>3

\* The invariant after the steps of a run.
LEMMA RunSteps ==
    ASSUME FindingInv, NEW r \in ScanRuns,
           StoreCoverage(r) \/ LoadFindings(r) \/ FailScan(r)
    PROVE  FindingInv'
<1>0. FindingShape /\ OnlyDoneEvaluates /\ EvidenceIsDetected /\ EvidenceHasRow /\ LoadedHasRow
  BY DEF FindingInv
<1>1. CASE StoreCoverage(r)
  <2>1. PICK seen \in SUBSET Live, covered \in SUBSET Hosts, hits \in SUBSET Hosts :
           scanRun' = [scanRun EXCEPT ![r] = [at |-> "devices", seen |-> seen, covered |-> covered, hits |-> hits]]
    BY <1>1 DEF StoreCoverage
  <2>2. [at |-> "devices", seen |-> seen, covered |-> covered, hits |-> hits] \in RunReport
    BY DEF RunReport, Live
  <2>3. scanRun[r].at = "new" /\ UNCHANGED <<finding, evidence, evaluation, ended, loaded>>
    BY <1>1 DEF StoreCoverage
  <2>4. scanRun' \in [ScanRuns -> RunReport] /\ scanRun'[r].at = "devices"
        /\ \A q \in ScanRuns : q # r => scanRun'[q] = scanRun[q]
    BY <1>0, <2>1, <2>2 DEF FindingShape
  <2>5. FindingShape'
    BY <1>0, <2>3, <2>4 DEF FindingShape
  <2>6. OnlyDoneEvaluates'
    BY <1>0, <2>3, <2>4 DEF OnlyDoneEvaluates
  <2>7. EvidenceIsDetected'
    BY <1>0, <2>3, <2>4 DEF EvidenceIsDetected, FindingShape
  <2>8. EvidenceHasRow' /\ LoadedHasRow'
    BY <1>0, <2>3, <2>4 DEF EvidenceHasRow, LoadedHasRow
  <2> QED BY <2>5, <2>6, <2>7, <2>8 DEF FindingInv
<1>2. CASE LoadFindings(r)
  <2>1. loaded' = [loaded EXCEPT ![r] = finding]
        /\ UNCHANGED <<scanRun, finding, evidence, evaluation, ended, mergedInto>>
    BY <1>2 DEF LoadFindings
  <2>2. FindingShape'
    BY <1>0, <2>1 DEF FindingShape
  <2>3. OnlyDoneEvaluates' /\ EvidenceIsDetected' /\ EvidenceHasRow'
    BY <1>0, <2>1 DEF OnlyDoneEvaluates, EvidenceIsDetected, EvidenceHasRow
  <2>4. \A q \in ScanRuns : loaded'[q] = IF q = r THEN finding ELSE loaded[q]
    BY <1>0, <2>1 DEF FindingShape
  <2>5. LoadedHasRow'
    <3> SUFFICES ASSUME NEW q \in ScanRuns, loaded'[q] # NotLoaded, NEW h \in Hosts
                 PROVE  /\ loaded'[q][h].row => finding'[h].row
                        /\ scanRun'[q].at = "running" /\ q \in evidence'[h] => loaded'[q][h].row
      BY DEF LoadedHasRow
    <3>1. CASE q = r
      BY <1>0, <2>1, <2>4, <3>1 DEF EvidenceHasRow
    <3>2. CASE q # r
      BY <1>0, <2>1, <2>4, <3>2 DEF LoadedHasRow
    <3> QED BY <3>1, <3>2
  <2> QED BY <2>2, <2>3, <2>5 DEF FindingInv
<1>3. CASE FailScan(r)
  <2>1. scanRun' = [scanRun EXCEPT ![r].at = "failed"] /\ scanRun[r].at # "done"
        /\ UNCHANGED <<finding, evidence, evaluation, ended, loaded>>
    BY <1>3 DEF FailScan, Stage
  <2>2. scanRun' \in [ScanRuns -> RunReport] /\ scanRun'[r].at = "failed"
        /\ \A q \in ScanRuns : q # r => scanRun'[q] = scanRun[q]
    BY <1>0, <2>1, StageWrites
  <2>3. FindingShape'
    BY <1>0, <2>1, <2>2 DEF FindingShape
  <2>4. OnlyDoneEvaluates'
    BY <1>0, <2>1, <2>2 DEF OnlyDoneEvaluates
  <2>5. EvidenceIsDetected'
    BY <1>0, <2>1, <2>2 DEF EvidenceIsDetected, FindingShape
  <2>6. EvidenceHasRow' /\ LoadedHasRow'
    BY <1>0, <2>1, <2>2 DEF EvidenceHasRow, LoadedHasRow
  <2> QED BY <2>3, <2>4, <2>5, <2>6 DEF FindingInv
<1> QED BY <1>1, <1>2, <1>3

\* ingest_findings: evidence comes to a finding that exists by then.
LEMMA IngestSteps ==
    ASSUME FindingInv, NEW r \in ScanRuns, IngestFindings(r)
    PROVE  FindingInv'
<1>0. FindingShape /\ OnlyDoneEvaluates /\ EvidenceIsDetected /\ EvidenceHasRow /\ LoadedHasRow
  BY DEF FindingInv
<1> DEFINE hits == {mergedInto[h] : h \in scanRun[r].hits}
           refused == \E h \in hits : finding[h].row /\ ~loaded[r][h].row
<1>1. scanRun[r].at = "devices" /\ loaded[r] # NotLoaded /\ loaded' = [loaded EXCEPT ![r] = NotLoaded]
      /\ UNCHANGED evaluation
  BY DEF IngestFindings
<1>2. loaded' \in [ScanRuns -> {NotLoaded} \cup [Hosts -> FindingRow]]
      /\ \A q \in ScanRuns : loaded'[q] = IF q = r THEN NotLoaded ELSE loaded[q]
  BY <1>0, <1>1 DEF FindingShape
<1>3. loaded[r] \in [Hosts -> FindingRow]
  BY <1>0, <1>1 DEF FindingShape
<1>4. CASE refused
  <2>1. scanRun' = [scanRun EXCEPT ![r].at = "failed"] /\ UNCHANGED <<finding, evidence>>
    BY <1>4 DEF IngestFindings, Stage
  <2>2. scanRun' \in [ScanRuns -> RunReport] /\ scanRun'[r].at = "failed"
        /\ \A q \in ScanRuns : q # r => scanRun'[q] = scanRun[q]
    BY <1>0, <2>1, StageWrites
  <2>3. FindingShape'
    BY <1>0, <1>1, <1>2, <2>1, <2>2 DEF FindingShape
  <2>4. OnlyDoneEvaluates'
    BY <1>0, <1>1, <2>2 DEF OnlyDoneEvaluates
  <2>5. EvidenceIsDetected'
    BY <1>0, <1>1, <2>1, <2>2 DEF EvidenceIsDetected, FindingShape
  <2>6. EvidenceHasRow' /\ LoadedHasRow'
    BY <1>0, <1>2, <2>1, <2>2 DEF EvidenceHasRow, LoadedHasRow
  <2> QED BY <2>3, <2>4, <2>5, <2>6 DEF FindingInv
<1>5. CASE ~refused
  <2>1. /\ finding' = [h \in Hosts |->
                IF h \notin hits THEN finding[h]
                ELSE Written(finding[h], loaded[r][h], Detected(loaded[r][h]))]
        /\ evidence' = [h \in Hosts |-> IF h \in hits THEN evidence[h] \cup {r} ELSE evidence[h]]
        /\ scanRun' = [scanRun EXCEPT ![r].at = "running"]
    BY <1>5 DEF IngestFindings, Stage
  <2>2. scanRun' \in [ScanRuns -> RunReport] /\ scanRun'[r].at = "running"
        /\ \A q \in ScanRuns : q # r => scanRun'[q] = scanRun[q]
    BY <1>0, <2>1, StageWrites
  <2>3. \A h \in Hosts : /\ finding'[h] \in FindingRow
                         /\ finding[h].row => finding'[h].row
                         /\ h \in hits => finding'[h].row
    <3> TAKE h \in Hosts
    <3>1. finding[h] \in FindingRow /\ loaded[r][h] \in FindingRow
      BY <1>0, <1>3 DEF FindingShape
    <3>2. Detected(loaded[r][h]) \in FindingRow /\ Detected(loaded[r][h]).row
      BY <3>1, NewRows
    <3>3. h \notin hits => finding'[h] = finding[h]
      BY <2>1
    <3>4. h \in hits => finding'[h] = Written(finding[h], loaded[r][h], Detected(loaded[r][h]))
      BY <2>1
    <3>5. h \in hits => finding'[h] \in FindingRow
                        /\ finding'[h].row = Column(finding[h].row, loaded[r][h].row, TRUE)
      <4> DEFINE new == Detected(loaded[r][h])
      <4>1. new \in FindingRow /\ new.row = TRUE
        BY <3>2 DEF FindingRow
      <4> HIDE DEF new
      <4>2. Written(finding[h], loaded[r][h], new) \in FindingRow
            /\ Written(finding[h], loaded[r][h], new).row = Column(finding[h].row, loaded[r][h].row, new.row)
        BY <3>1, <4>1, WriteKeeps
      <4> QED BY <3>4, <4>1, <4>2 DEF new
    <3>6. loaded[r][h].row => finding[h].row
      BY <1>0, <1>1 DEF LoadedHasRow
    <3>7. finding[h].row \in BOOLEAN /\ loaded[r][h].row \in BOOLEAN
      BY <3>1 DEF FindingRow
    <3>8. h \in hits => finding'[h].row = TRUE
      BY <3>5, <3>6, <3>7 DEF Column
    <3> HIDE DEF hits
    <3> QED BY <3>1, <3>3, <3>5, <3>8
  <2>4. finding' \in [Hosts -> FindingRow] /\ evidence' \in [Hosts -> SUBSET ScanRuns]
    <3>1. finding' = [h \in Hosts |-> finding'[h]] /\ evidence' = [h \in Hosts |-> evidence'[h]]
      BY <2>1
    <3>2. \A h \in Hosts : evidence'[h] \in SUBSET ScanRuns
      BY <1>0, <2>1 DEF FindingShape
    <3> QED BY <2>3, <3>1, <3>2
  <2>5. FindingShape'
    BY <1>0, <1>1, <1>2, <2>2, <2>4 DEF FindingShape
  <2>6. OnlyDoneEvaluates'
    BY <1>0, <1>1, <2>2 DEF OnlyDoneEvaluates
  <2>7. \A h \in Hosts : \A q \in evidence'[h] : q = r \/ q \in evidence[h]
    BY <2>1
  <2>8. EvidenceIsDetected'
    BY <1>0, <1>1, <2>2, <2>7 DEF EvidenceIsDetected, FindingShape
  <2>9. EvidenceHasRow'
    <3> SUFFICES ASSUME NEW h \in Hosts, evidence'[h] # {} PROVE finding'[h].row
      BY DEF EvidenceHasRow
    <3>1. CASE h \in hits
      BY <2>3, <3>1
    <3>2. CASE h \notin hits
      <4>1. evidence'[h] = evidence[h]
        BY <2>1, <3>2
      <4> QED BY <1>0, <2>3, <4>1 DEF EvidenceHasRow
    <3> QED BY <3>1, <3>2
  <2>10. LoadedHasRow'
    <3> SUFFICES ASSUME NEW q \in ScanRuns, loaded'[q] # NotLoaded, NEW h \in Hosts
                 PROVE  /\ loaded'[q][h].row => finding'[h].row
                        /\ scanRun'[q].at = "running" /\ q \in evidence'[h] => loaded'[q][h].row
      BY DEF LoadedHasRow
    <3>1. q # r /\ loaded'[q] = loaded[q] /\ loaded[q] # NotLoaded /\ scanRun'[q] = scanRun[q]
      BY <1>2, <2>2
    <3>2. q \in evidence'[h] => q \in evidence[h]
      BY <2>7, <3>1
    <3>3. loaded[q][h].row => finding[h].row
      BY <1>0, <3>1 DEF LoadedHasRow
    <3>4. scanRun[q].at = "running" /\ q \in evidence[h] => loaded[q][h].row
      BY <1>0, <3>1 DEF LoadedHasRow
    <3> QED BY <2>3, <3>1, <3>2, <3>3, <3>4
  <2> QED BY <2>5, <2>6, <2>8, <2>9, <2>10 DEF FindingInv
<1> QED BY <1>4, <1>5

\* complete_scan_run: a run with evidence of a finding detects it.
LEMMA CompleteSteps ==
    ASSUME FindingInv, NEW r \in ScanRuns, CompleteScan(r)
    PROVE  FindingInv'
<1>0. FindingShape /\ OnlyDoneEvaluates /\ EvidenceIsDetected /\ EvidenceHasRow /\ LoadedHasRow
  BY DEF FindingInv
<1>1. /\ scanRun[r].at = "running" /\ loaded[r] # NotLoaded /\ loaded' = [loaded EXCEPT ![r] = NotLoaded]
      /\ evaluation' = [h \in Hosts |-> [evaluation[h] EXCEPT ![r] = Outcome(r, h)]]
      /\ finding' = [h \in Hosts |-> Finalized(r, h)]
      /\ scanRun' = [scanRun EXCEPT ![r].at = "done"] /\ UNCHANGED evidence
  BY DEF CompleteScan, Stage
<1>2. loaded' \in [ScanRuns -> {NotLoaded} \cup [Hosts -> FindingRow]]
      /\ \A q \in ScanRuns : loaded'[q] = IF q = r THEN NotLoaded ELSE loaded[q]
  BY <1>0, <1>1 DEF FindingShape
<1>3. scanRun' \in [ScanRuns -> RunReport] /\ scanRun'[r].at = "done"
      /\ \A q \in ScanRuns : q # r => scanRun'[q] = scanRun[q]
  BY <1>0, <1>1, StageWrites
<1>4. \A h \in Hosts : evaluation[h][r] = "none" /\ Outcome(r, h) \in {"none", "clean", "detected"}
                       /\ (r \in evidence[h] => Outcome(r, h) = "detected")
  <2> TAKE h \in Hosts
  <2>1. evaluation[h][r] = "none"
    BY <1>0, <1>1 DEF OnlyDoneEvaluates
  <2>2. r \in evidence[h] => loaded[r][h].row
    BY <1>0, <1>1 DEF LoadedHasRow
  <2> QED BY <2>1, <2>2 DEF Outcome
<1>5. \A h \in Hosts : finding'[h] \in FindingRow /\ (finding[h].row => finding'[h].row)
  <2> TAKE h \in Hosts
  <2> DEFINE f == loaded[r][h]
  <2>1. finding[h] \in FindingRow /\ f \in FindingRow
    BY <1>0, <1>1 DEF FindingShape
  <2>2. finding'[h] = Finalized(r, h)
    BY <1>1
  <2> DEFINE new == IF Outcome(r, h) = "detected" THEN [f EXCEPT !.clean = 0] ELSE Cleaned(f)
  <2>3. new \in FindingRow /\ new.row = f.row
    BY <2>1, NewRows
  <2>4. finding'[h] = finding[h] \/ finding'[h] = Written(finding[h], f, new)
    BY <2>2 DEF Finalized
  <2> HIDE DEF f, new
  <2>5. Written(finding[h], f, new) \in FindingRow /\ Written(finding[h], f, new).row = finding[h].row
    BY <2>1, <2>3, WriteKeeps DEF Column
  <2> QED BY <2>1, <2>4, <2>5
<1>6. \A h \in Hosts : /\ evaluation'[h] \in [ScanRuns -> {"none", "clean", "detected"}]
                       /\ \A q \in ScanRuns : evaluation'[h][q] = IF q = r THEN Outcome(r, h) ELSE evaluation[h][q]
  <2> TAKE h \in Hosts
  <2>1. evaluation[h] \in [ScanRuns -> {"none", "clean", "detected"}]
    BY <1>0 DEF FindingShape
  <2>2. evaluation'[h] = [evaluation[h] EXCEPT ![r] = Outcome(r, h)]
    BY <1>1
  <2> QED BY <1>4, <2>1, <2>2
<1>7. FindingShape'
  <2>1. finding' = [h \in Hosts |-> finding'[h]] /\ evaluation' = [h \in Hosts |-> evaluation'[h]]
    BY <1>1
  <2>2. finding' \in [Hosts -> FindingRow]
    BY <1>5, <2>1
  <2>3. evaluation' \in [Hosts -> [ScanRuns -> {"none", "clean", "detected"}]]
    BY <1>6, <2>1
  <2> QED BY <1>0, <1>1, <1>2, <1>3, <2>2, <2>3 DEF FindingShape
<1>8. OnlyDoneEvaluates'
  BY <1>0, <1>3, <1>6 DEF OnlyDoneEvaluates
<1>9. EvidenceIsDetected'
  <2> SUFFICES ASSUME NEW h \in Hosts, NEW q \in evidence[h], scanRun'[q].at = "done"
               PROVE  evaluation'[h][q] = "detected"
    BY <1>1 DEF EvidenceIsDetected
  <2>1. q \in ScanRuns
    BY <1>0 DEF FindingShape
  <2>2. CASE q = r
    BY <1>4, <1>6, <2>1, <2>2
  <2>3. CASE q # r
    BY <1>0, <1>3, <1>6, <2>1, <2>3 DEF EvidenceIsDetected
  <2> QED BY <2>2, <2>3
<1>10. EvidenceHasRow'
  BY <1>0, <1>1, <1>5 DEF EvidenceHasRow
<1>11. LoadedHasRow'
  <2> SUFFICES ASSUME NEW q \in ScanRuns, loaded'[q] # NotLoaded, NEW h \in Hosts
               PROVE  /\ loaded'[q][h].row => finding'[h].row
                      /\ scanRun'[q].at = "running" /\ q \in evidence'[h] => loaded'[q][h].row
    BY DEF LoadedHasRow
  <2>1. q # r /\ loaded'[q] = loaded[q] /\ loaded[q] # NotLoaded /\ scanRun'[q] = scanRun[q]
    BY <1>2, <1>3
  <2>2. loaded[q][h].row => finding[h].row
    BY <1>0, <2>1 DEF LoadedHasRow
  <2>3. scanRun[q].at = "running" /\ q \in evidence[h] => loaded[q][h].row
    BY <1>0, <2>1 DEF LoadedHasRow
  <2> QED BY <1>1, <1>5, <2>1, <2>2, <2>3
<1> QED BY <1>7, <1>8, <1>9, <1>10, <1>11 DEF FindingInv

\* merge_asset_findings: on a collision a detection wins.
LEMMA LifeMergeSteps ==
    ASSUME FindingInv, NEW target \in Hosts, NEW source \in Hosts, MergeFindings(target, source)
    PROVE  FindingInv'
<1>0. FindingShape /\ OnlyDoneEvaluates /\ EvidenceIsDetected /\ EvidenceHasRow /\ LoadedHasRow
  BY DEF FindingInv
<1> DEFINE joined == [r \in ScanRuns |-> JoinedEvaluation(evaluation[target][r], evaluation[source][r])]
           blank == [r \in ScanRuns |-> "none"]
<1>1. /\ target # source /\ \A r \in ScanRuns : loaded[r] = NotLoaded
      /\ finding' = [finding EXCEPT ![target] = Joined(finding[target], finding[source]), ![source] = NoRow]
      /\ evidence' = [evidence EXCEPT ![target] = evidence[target] \cup evidence[source], ![source] = {}]
      /\ evaluation' = [evaluation EXCEPT ![target] = joined, ![source] = blank]
      /\ UNCHANGED loaded
  BY <1>0 DEF MergeFindings, FindingShape
<1>2. \A r \in ScanRuns : scanRun'[r].at = scanRun[r].at /\ scanRun'[r] \in RunReport
  <2> DEFINE follow(S) == IF source \in S THEN (S \ {source}) \cup {target} ELSE S
  <2>1. scanRun' = [r \in ScanRuns |->
             [scanRun[r] EXCEPT !.seen = follow(@), !.covered = follow(@), !.hits = follow(@)]]
    BY DEF MergeFindings
  <2>2. \A S \in SUBSET Hosts : follow(S) \in SUBSET Hosts
    OBVIOUS
  <2> TAKE r \in ScanRuns
  <2>3. scanRun[r] \in RunReport
    BY <1>0 DEF FindingShape
  <2>4. scanRun'[r] = [scanRun[r] EXCEPT !.seen = follow(scanRun[r].seen),
                          !.covered = follow(scanRun[r].covered), !.hits = follow(scanRun[r].hits)]
    BY <2>1, <2>3 DEF RunReport
  <2> HIDE DEF follow
  <2> QED BY <2>2, <2>3, <2>4 DEF RunReport
<1>3. scanRun' \in [ScanRuns -> RunReport]
  <2>1. scanRun' = [r \in ScanRuns |-> scanRun'[r]]
    BY DEF MergeFindings
  <2> QED BY <1>2, <2>1
<1>4. joined \in [ScanRuns -> {"none", "clean", "detected"}] /\ blank \in [ScanRuns -> {"none", "clean", "detected"}]
  <2>1. \A r \in ScanRuns : JoinedEvaluation(evaluation[target][r], evaluation[source][r])
                               \in {"none", "clean", "detected"}
    BY <1>0 DEF FindingShape, JoinedEvaluation
  <2> QED BY <2>1
<1>5. Joined(finding[target], finding[source]) \in FindingRow /\ NoRow \in FindingRow
      /\ (finding[target].row \/ finding[source].row => Joined(finding[target], finding[source]).row)
  <2>1. finding[target] \in FindingRow /\ finding[source] \in FindingRow
    BY <1>0 DEF FindingShape
  <2> QED BY <2>1 DEF Joined, FindingRow, NoRow, Smaller, Larger
<1> HIDE DEF joined, blank
<1>6. \A h \in Hosts :
         /\ finding'[h] = IF h = source THEN NoRow
                          ELSE IF h = target THEN Joined(finding[target], finding[source]) ELSE finding[h]
         /\ evidence'[h] = IF h = source THEN {}
                           ELSE IF h = target THEN evidence[target] \cup evidence[source] ELSE evidence[h]
         /\ evaluation'[h] = IF h = source THEN blank ELSE IF h = target THEN joined ELSE evaluation[h]
  BY <1>0, <1>1 DEF FindingShape
<1>7. FindingShape'
  <2>1. finding' \in [Hosts -> FindingRow]
    BY <1>0, <1>1, <1>5 DEF FindingShape
  <2>2. evidence' \in [Hosts -> SUBSET ScanRuns]
    BY <1>0, <1>1 DEF FindingShape
  <2>3. evaluation' \in [Hosts -> [ScanRuns -> {"none", "clean", "detected"}]]
    BY <1>0, <1>1, <1>4 DEF FindingShape
  <2> QED BY <1>0, <1>1, <1>3, <2>1, <2>2, <2>3 DEF FindingShape
<1>8. OnlyDoneEvaluates'
  <2> SUFFICES ASSUME NEW r \in ScanRuns, scanRun[r].at # "done", NEW h \in Hosts
               PROVE  evaluation'[h][r] = "none"
    BY <1>2 DEF OnlyDoneEvaluates
  <2>1. \A g \in Hosts : evaluation[g][r] = "none"
    BY <1>0 DEF OnlyDoneEvaluates
  <2>2. joined[r] = "none" /\ blank[r] = "none"
    BY <2>1 DEF joined, blank, JoinedEvaluation
  <2> QED BY <1>6, <2>1, <2>2
<1>9. EvidenceIsDetected'
  <2> SUFFICES ASSUME NEW h \in Hosts, NEW r \in evidence'[h], scanRun'[r].at = "done"
               PROVE  evaluation'[h][r] = "detected"
    BY DEF EvidenceIsDetected
  <2>1. CASE h = target
    <3>0. evidence'[target] = evidence[target] \cup evidence[source]
      BY <1>1, <1>6
    <3>1. r \in evidence[target] \/ r \in evidence[source]
      BY <2>1, <3>0
    <3>2. r \in ScanRuns
      BY <1>0, <3>1 DEF FindingShape
    <3>3. evaluation[target][r] = "detected" \/ evaluation[source][r] = "detected"
      BY <1>0, <1>2, <3>1, <3>2 DEF EvidenceIsDetected
    <3>4. joined[r] = "detected"
      BY <3>2, <3>3 DEF joined, JoinedEvaluation
    <3> QED BY <1>1, <1>6, <2>1, <3>4
  <2>2. CASE h # target
    <3>1. h # source /\ r \in evidence[h]
      BY <1>6, <2>2
    <3>2. r \in ScanRuns
      BY <1>0, <3>1 DEF FindingShape
    <3> QED BY <1>0, <1>2, <1>6, <2>2, <3>1, <3>2 DEF EvidenceIsDetected
  <2> QED BY <2>1, <2>2
<1>10. EvidenceHasRow'
  <2> SUFFICES ASSUME NEW h \in Hosts, evidence'[h] # {} PROVE finding'[h].row
    BY DEF EvidenceHasRow
  <2>1. CASE h = target
    <3>1. evidence[target] # {} \/ evidence[source] # {}
      BY <1>1, <1>6, <2>1
    <3>2. finding[target].row \/ finding[source].row
      BY <1>0, <3>1 DEF EvidenceHasRow
    <3>3. finding'[target] = Joined(finding[target], finding[source])
      BY <1>1, <1>6
    <3> QED BY <1>5, <2>1, <3>2, <3>3
  <2>2. CASE h # target
    BY <1>0, <1>6, <2>2 DEF EvidenceHasRow
  <2> QED BY <2>1, <2>2
<1>11. LoadedHasRow'
  BY <1>1 DEF LoadedHasRow
<1> QED BY <1>7, <1>8, <1>9, <1>10, <1>11 DEF FindingInv

\* The invariant holds in every reachable state.
LEMMA FindingInvHolds == InitFindings /\ [][NextFindings]_findingVars => []FindingInv
<1>1. InitFindings => FindingInv
  <2> SUFFICES ASSUME InitFindings PROVE FindingInv
    OBVIOUS
  <2>1. FindingShape
    BY DEF InitFindings, FindingShape, RunReport, FindingRow, NoRow
  <2> QED BY <2>1 DEF InitFindings, FindingInv, OnlyDoneEvaluates, EvidenceIsDetected, EvidenceHasRow, LoadedHasRow
<1>2. FindingInv /\ [NextFindings]_findingVars => FindingInv'
  <2> SUFFICES ASSUME FindingInv, [NextFindings]_findingVars PROVE FindingInv'
    OBVIOUS
  <2>1. CASE UNCHANGED findingVars
    BY <2>1 DEF findingVars, FindingInv, FindingShape, OnlyDoneEvaluates, EvidenceIsDetected,
                EvidenceHasRow, LoadedHasRow
  <2> QED BY <2>1, RunSteps, IngestSteps, CompleteSteps, LifeMergeSteps DEF NextFindings
<1> QED BY <1>1, <1>2, PTL

\* No run counts as clean for a finding it has evidence of, for any runs and
\* assets, overlapping or not, and whatever is merged.
THEOREM NoCleanWithEvidence == InitFindings /\ [][NextFindings]_findingVars => []CleanHasNoEvidence
<1>1. FindingInv => CleanHasNoEvidence
  BY DEF FindingInv, FindingShape, OnlyDoneEvaluates, EvidenceIsDetected, CleanHasNoEvidence
<1> QED BY <1>1, FindingInvHolds, PTL


\* Every reachable state of the findings is well typed: what ends is a run, what
\* is merged is merged into an asset.
THEOREM FindingTypeCorrect == InitFindings /\ [][NextFindings]_findingVars => []FindingTypeOK
<1> DEFINE Ends == ended \in Seq(ScanRuns) /\ mergedInto \in [Hosts -> Hosts]
<1>1. InitFindings => Ends
  BY DEF InitFindings
<1>2. Ends /\ [NextFindings]_findingVars => Ends'
  <2> SUFFICES ASSUME Ends, [NextFindings]_findingVars PROVE Ends'
    OBVIOUS
  <2>1. CASE UNCHANGED findingVars
    BY <2>1 DEF findingVars
  <2>2. ASSUME NEW r \in ScanRuns, StoreCoverage(r) \/ LoadFindings(r) \/ IngestFindings(r) \/ FailScan(r)
        PROVE Ends'
    <3>1. ended' = ended /\ mergedInto' = mergedInto
      BY <2>2 DEF StoreCoverage, LoadFindings, IngestFindings, FailScan
    <3> QED BY <3>1
  <2>3. ASSUME NEW r \in ScanRuns, CompleteScan(r) PROVE Ends'
    <3>1. ended' = Append(ended, r) /\ mergedInto' = mergedInto
      BY <2>3 DEF CompleteScan
    <3> QED BY <3>1
  <2>4. ASSUME NEW target \in Hosts, NEW source \in Hosts, MergeFindings(target, source) PROVE Ends'
    <3>1. ended' = ended
          /\ mergedInto' = [h \in Hosts |-> IF mergedInto[h] = source THEN target ELSE mergedInto[h]]
      BY <2>4 DEF MergeFindings
    <3> QED BY <3>1
  <2> QED BY <2>1, <2>2, <2>3, <2>4 DEF NextFindings
<1>3. FindingInv /\ Ends => FindingTypeOK
  BY DEF FindingInv, FindingShape, FindingTypeOK
<1> QED BY <1>1, <1>2, <1>3, FindingInvHolds, PTL

\* From the i-th member of seq on, ev has no detection and at least n times
\* clean.
Unbroken(seq, ev, i, n) ==
    LET since == {seq[j] : j \in i .. Len(seq)}
    IN /\ \A r \in since : ev[r] # "detected"
       /\ Cardinality({r \in since : ev[r] = "clean"}) >= n
HasTail(seq, ev, n) == \E i \in 1 .. Len(seq) + 1 : Unbroken(seq, ev, i, n)

Underway(r) == scanRun[r].at \notin {"new", "done", "failed"}

\* One run is under way at a time, an open request has read what the rows are
\* now, and the runs that ended are done.
OneAtATime ==
    /\ \A r, q \in ScanRuns : Underway(r) /\ Underway(q) => r = q
    /\ \A r \in ScanRuns : loaded[r] # NotLoaded => Underway(r) /\ loaded[r] = finding
    /\ ended \in Seq(ScanRuns)
    /\ \A i \in DOMAIN ended : scanRun[ended[i]].at = "done"

\* An open row counts clean evaluations since the last detection, too few to
\* resolve it; a resolved row has enough of them; no row, no evaluation.
Counted(f, ev, seq) ==
    /\ ~f.row => \A r \in ScanRuns : ev[r] = "none"
    /\ f.row /\ f.open => f.clean < CleanScans /\ HasTail(seq, ev, f.clean)
    /\ f.row /\ ~f.open => HasTail(seq, ev, CleanScans)

\* What a run has detected stays open until the run is evaluated; a run that is
\* not ingested has detected nothing.
HitIsOpen ==
    \A r \in ScanRuns, h \in Hosts : r \in evidence[h] =>
        /\ scanRun[r].at \notin {"new", "devices"}
        /\ scanRun[r].at = "running" => finding[h].open

ResolvedInv ==
    /\ FindingInv /\ OneAtATime /\ HitIsOpen
    /\ \A h \in Hosts : Counted(finding[h], evaluation[h], ended)

\* Members from the i-th on are members.
LEMMA SinceIn ==
    ASSUME NEW seq \in Seq(ScanRuns), NEW i \in 1 .. Len(seq) + 1
    PROVE  {seq[j] : j \in i .. Len(seq)} \in SUBSET ScanRuns
<1>1. \A j \in i .. Len(seq) : j \in DOMAIN seq
  OBVIOUS
<1> QED BY <1>1

\* Sets of runs are finite.
LEMMA RunsFinite == \A S \in SUBSET ScanRuns : IsFiniteSet(S) /\ Cardinality(S) \in Nat
<1>1. IsFiniteSet(ScanRuns)
  BY FindingAssumption
<1> QED BY <1>1, FS_Subset, FS_CardinalityType

\* Nothing is asked of the end.
LEMMA EmptyTail == ASSUME NEW seq \in Seq(ScanRuns), NEW ev PROVE HasTail(seq, ev, 0)
<1>1. Len(seq) \in Nat
  OBVIOUS
<1>2. {seq[j] : j \in Len(seq) + 1 .. Len(seq)} = {}
  BY <1>1
<1>3. \A r \in {seq[j] : j \in Len(seq) + 1 .. Len(seq)} : ev[r] # "detected"
  BY <1>2
<1>4. {r \in {seq[j] : j \in Len(seq) + 1 .. Len(seq)} : ev[r] = "clean"} = {}
  BY <1>2
<1>5. Cardinality({r \in {seq[j] : j \in Len(seq) + 1 .. Len(seq)} : ev[r] = "clean"}) >= 0
  <2>1. Cardinality({r \in {seq[j] : j \in Len(seq) + 1 .. Len(seq)} : ev[r] = "clean"}) = 0
    BY <1>4, FS_EmptySet
  <2> QED BY <2>1
<1>6. Unbroken(seq, ev, Len(seq) + 1, 0)
  BY <1>3, <1>5 DEF Unbroken
<1> QED BY <1>1, <1>6 DEF HasTail

\* Fewer clean runs may be asked for.
LEMMA ShorterTail ==
    ASSUME NEW seq \in Seq(ScanRuns), NEW ev, NEW n \in Nat, NEW m \in Nat, m <= n, HasTail(seq, ev, n)
    PROVE  HasTail(seq, ev, m)
<1>1. PICK i \in 1 .. Len(seq) + 1 : Unbroken(seq, ev, i, n)
  BY DEF HasTail
<1> DEFINE since == {seq[j] : j \in i .. Len(seq)}
           c == Cardinality({r \in since : ev[r] = "clean"})
<1>2. since \in SUBSET ScanRuns
  BY SinceIn
<1>3. c \in Nat
  BY <1>2, RunsFinite
<1>4. (\A r \in since : ev[r] # "detected") /\ c >= n
  BY <1>1 DEF Unbroken
<1>5. c >= m
  <2> HIDE DEF c
  <2> QED BY <1>3, <1>4
<1>6. Unbroken(seq, ev, i, m)
  BY <1>4, <1>5 DEF Unbroken
<1> QED BY <1>6 DEF HasTail

\* The same evaluations have the same tails.
LEMMA SameTail ==
    ASSUME NEW seq \in Seq(ScanRuns), NEW ev, NEW new, NEW n \in Nat, HasTail(seq, ev, n),
           \A r \in ScanRuns : new[r] = ev[r]
    PROVE  HasTail(seq, new, n)
<1>1. PICK i \in 1 .. Len(seq) + 1 : Unbroken(seq, ev, i, n)
  BY DEF HasTail
<1> DEFINE since == {seq[j] : j \in i .. Len(seq)}
<1>2. since \in SUBSET ScanRuns
  BY SinceIn
<1>3. (\A r \in since : ev[r] # "detected") /\ Cardinality({r \in since : ev[r] = "clean"}) >= n
  BY <1>1 DEF Unbroken
<1>4. {r \in since : new[r] = "clean"} = {r \in since : ev[r] = "clean"}
  BY <1>2
<1>5. (\A r \in since : new[r] # "detected") /\ Cardinality({r \in since : new[r] = "clean"}) >= n
  BY <1>2, <1>3, <1>4
<1>6. Unbroken(seq, new, i, n)
  BY <1>5 DEF Unbroken
<1> QED BY <1>6 DEF HasTail

\* A run that ends without a detection goes on with every tail.
LEMMA TailGrows ==
    ASSUME NEW seq \in Seq(ScanRuns), NEW ev, NEW new, NEW n \in Nat, HasTail(seq, ev, n),
           NEW r \in ScanRuns, \A j \in DOMAIN seq : seq[j] # r,
           \A q \in ScanRuns : q # r => new[q] = ev[q], new[r] # "detected"
    PROVE  /\ HasTail(Append(seq, r), new, n)
           /\ new[r] = "clean" => HasTail(Append(seq, r), new, n + 1)
<1> DEFINE app == Append(seq, r)
<1>1. PICK i \in 1 .. Len(seq) + 1 : Unbroken(seq, ev, i, n)
  BY DEF HasTail
<1> DEFINE old == {seq[j] : j \in i .. Len(seq)}
           since == {app[j] : j \in i .. Len(app)}
<1>2. old \in SUBSET ScanRuns /\ r \notin old
  <2>1. \A j \in i .. Len(seq) : j \in DOMAIN seq
    OBVIOUS
  <2> QED BY <2>1, SinceIn
<1>3. Len(app) = Len(seq) + 1 /\ app[Len(seq) + 1] = r /\ \A j \in 1 .. Len(seq) : app[j] = seq[j]
  OBVIOUS
<1>4. since = old \cup {r}
  <2> HIDE DEF app
  <2>1. \A j \in i .. Len(app) : j = Len(seq) + 1 \/ j \in i .. Len(seq)
    BY <1>3
  <2>2. \A j \in i .. Len(seq) : j \in i .. Len(app) /\ app[j] = seq[j]
    BY <1>3
  <2>3. Len(seq) + 1 \in i .. Len(app)
    BY <1>3
  <2> QED BY <1>3, <2>1, <2>2, <2>3
<1>5. (\A q \in old : ev[q] # "detected") /\ Cardinality({q \in old : ev[q] = "clean"}) >= n
  BY <1>1 DEF Unbroken
<1> HIDE DEF old, since, app
<1>6. \A q \in since : new[q] # "detected"
  BY <1>2, <1>4, <1>5
<1> DEFINE was == {q \in old : ev[q] = "clean"}
           now == {q \in since : new[q] = "clean"}
<1>7. now = IF new[r] = "clean" THEN was \cup {r} ELSE was
  BY <1>2, <1>4
<1>8. was \in SUBSET ScanRuns /\ r \notin was
  BY <1>2
<1>9. IsFiniteSet(was) /\ Cardinality(was) \in Nat /\ Cardinality(was) >= n
  BY <1>5, <1>8, RunsFinite
<1> HIDE DEF was, now
<1>10. Cardinality(was \cup {r}) = Cardinality(was) + 1
  BY <1>8, <1>9, FS_AddElement
<1>11. Cardinality(now) >= n /\ (new[r] = "clean" => Cardinality(now) >= n + 1)
  BY <1>7, <1>9, <1>10
<1>12. Unbroken(app, new, i, n) /\ (new[r] = "clean" => Unbroken(app, new, i, n + 1))
  BY <1>6, <1>11 DEF Unbroken, since, now
<1>13. i \in 1 .. Len(app) + 1
  BY <1>3
<1> QED BY <1>12, <1>13 DEF HasTail, app

\* The later of two tails is one of the joined evaluations.
LEMMA TailsJoin ==
    ASSUME NEW seq \in Seq(ScanRuns), NEW k, NEW d, NEW joined,
           NEW m \in Nat, NEW n \in Nat, HasTail(seq, k, m), HasTail(seq, d, n),
           \A r \in ScanRuns : k[r] \in {"none", "clean", "detected"} /\ d[r] \in {"none", "clean", "detected"},
           \A r \in ScanRuns : joined[r] = JoinedEvaluation(k[r], d[r])
    PROVE  HasTail(seq, joined, m) \/ HasTail(seq, joined, n)
<1>1. PICK i \in 1 .. Len(seq) + 1 : Unbroken(seq, k, i, m)
  BY DEF HasTail
<1>2. PICK j \in 1 .. Len(seq) + 1 : Unbroken(seq, d, j, n)
  BY DEF HasTail
<1> DEFINE S(x) == {seq[y] : y \in x .. Len(seq)}
<1>3. S(i) \in SUBSET ScanRuns /\ S(j) \in SUBSET ScanRuns
  BY SinceIn
<1>4. /\ \A r \in S(i) : k[r] # "detected"
      /\ Cardinality({r \in S(i) : k[r] = "clean"}) >= m
      /\ \A r \in S(j) : d[r] # "detected"
      /\ Cardinality({r \in S(j) : d[r] = "clean"}) >= n
  BY <1>1, <1>2 DEF Unbroken
<1>5. CASE i <= j
  <2>1. S(j) \subseteq S(i)
    BY <1>5
  <2> HIDE DEF S
  <2>2. \A r \in S(j) : joined[r] # "detected" /\ (d[r] = "clean" => joined[r] = "clean")
    BY <1>3, <1>4, <2>1 DEF JoinedEvaluation
  <2>3. {r \in S(j) : d[r] = "clean"} \subseteq {r \in S(j) : joined[r] = "clean"}
    BY <2>2
  <2>4. {r \in S(j) : joined[r] = "clean"} \in SUBSET ScanRuns
    BY <1>3
  <2>5. Cardinality({r \in S(j) : d[r] = "clean"}) <= Cardinality({r \in S(j) : joined[r] = "clean"})
    BY <2>3, <2>4, RunsFinite, FS_Subset
  <2>6. Cardinality({r \in S(j) : joined[r] = "clean"}) >= n
    <3> DEFINE a == Cardinality({r \in S(j) : d[r] = "clean"})
               b == Cardinality({r \in S(j) : joined[r] = "clean"})
    <3>1. a \in Nat /\ b \in Nat
      BY <2>3, <2>4, RunsFinite
    <3>2. a <= b /\ a >= n
      BY <1>4, <2>5
    <3> HIDE DEF a, b
    <3>3. b >= n
      BY <3>1, <3>2
    <3> QED BY <3>3 DEF b
  <2>7. Unbroken(seq, joined, j, n)
    BY <2>2, <2>6 DEF Unbroken, S
  <2> QED BY <2>7 DEF HasTail
<1>6. CASE ~(i <= j)
  <2>1. S(i) \subseteq S(j)
    BY <1>6
  <2> HIDE DEF S
  <2>2. \A r \in S(i) : joined[r] # "detected" /\ (k[r] = "clean" => joined[r] = "clean")
    BY <1>3, <1>4, <2>1 DEF JoinedEvaluation
  <2>3. {r \in S(i) : k[r] = "clean"} \subseteq {r \in S(i) : joined[r] = "clean"}
    BY <2>2
  <2>4. {r \in S(i) : joined[r] = "clean"} \in SUBSET ScanRuns
    BY <1>3
  <2>5. Cardinality({r \in S(i) : k[r] = "clean"}) <= Cardinality({r \in S(i) : joined[r] = "clean"})
    BY <2>3, <2>4, RunsFinite, FS_Subset
  <2>6. Cardinality({r \in S(i) : joined[r] = "clean"}) >= m
    <3> DEFINE a == Cardinality({r \in S(i) : k[r] = "clean"})
               b == Cardinality({r \in S(i) : joined[r] = "clean"})
    <3>1. a \in Nat /\ b \in Nat
      BY <2>3, <2>4, RunsFinite
    <3>2. a <= b /\ a >= m
      BY <1>4, <2>5
    <3> HIDE DEF a, b
    <3>3. b >= m
      BY <3>1, <3>2
    <3> QED BY <3>3 DEF b
  <2>7. Unbroken(seq, joined, i, m)
    BY <2>2, <2>6 DEF Unbroken, S
  <2> QED BY <2>7 DEF HasTail
<1> QED BY <1>5, <1>6

\* A write of what was not read by another is the write.
LEMMA WriteIsNew ==
    ASSUME NEW now \in FindingRow, NEW new \in FindingRow
    PROVE  Written(now, now, new) = new
<1>1. DOMAIN now = {"row", "open", "clean", "reopened"}
  BY DEF FindingRow
<1>2. Written(now, now, new) = [c \in {"row", "open", "clean", "reopened"} |-> Column(now[c], now[c], new[c])]
  BY <1>1 DEF Written
<1>3. \A x, y : Column(x, x, y) = y
  BY DEF Column
<1>4. Written(now, now, new) = [c \in {"row", "open", "clean", "reopened"} |-> new[c]]
  BY <1>2, <1>3
<1>5. new = [c \in {"row", "open", "clean", "reopened"} |-> new[c]]
  BY DEF FindingRow
<1> QED BY <1>4, <1>5

\* The columns that a detection and a clean evaluation set.
LEMMA NewColumns ==
    ASSUME NEW f \in FindingRow
    PROVE  /\ Detected(f).open /\ Detected(f).clean = 0
           /\ Cleaned(f).clean = f.clean + 1 /\ (Cleaned(f).open <=> f.open /\ f.clean + 1 < CleanScans)
           /\ [f EXCEPT !.clean = 0].clean = 0 /\ [f EXCEPT !.clean = 0].open = f.open
<1>1. Detected(f).open /\ Detected(f).clean = 0
  <2>1. CASE ~f.row
    BY <2>1 DEF Detected, Opened, NoRow
  <2>2. CASE f.row
    <3> DEFINE n == IF f.open THEN f.reopened ELSE f.reopened + 1
    <3>1. Detected(f) = [row |-> f.row, open |-> TRUE, clean |-> 0, reopened |-> n]
      BY <2>2 DEF Detected, FindingRow
    <3> QED BY <3>1
  <2> QED BY <2>1, <2>2
<1>2. Cleaned(f).clean = f.clean + 1 /\ (Cleaned(f).open <=> f.open /\ f.clean + 1 < CleanScans)
  BY DEF Cleaned, FindingRow
<1> QED BY <1>1, <1>2 DEF FindingRow

\* The stage of one run decides which runs are under way.
LEMMA RunsApart ==
    ASSUME OneAtATime, NEW r \in ScanRuns, Underway(r),
           \A q \in ScanRuns : q # r => scanRun'[q] = scanRun[q]
    PROVE  /\ \A p, q \in ScanRuns : Underway(p)' /\ Underway(q)' => p = q
           /\ \A q \in ScanRuns : q # r => loaded[q] = NotLoaded
           /\ \A i \in DOMAIN ended : ended[i] # r /\ ended[i] \in ScanRuns
<1>1. \A q \in ScanRuns : q # r => ~Underway(q)
  BY DEF OneAtATime
<1>2. \A q \in ScanRuns : q # r => ~Underway(q)'
  BY <1>1 DEF Underway
<1>3. \A q \in ScanRuns : q # r => loaded[q] = NotLoaded
  BY <1>1 DEF OneAtATime
<1>4. \A i \in DOMAIN ended : ended[i] \in ScanRuns
  BY DEF OneAtATime
<1>5. scanRun[r].at # "done"
  BY DEF Underway
<1>6. \A i \in DOMAIN ended : ended[i] # r
  BY <1>5 DEF OneAtATime
<1>7. ASSUME NEW x \in ScanRuns, NEW q \in ScanRuns, Underway(x)', Underway(q)' PROVE x = q
  BY <1>2, <1>7
<1> QED BY <1>3, <1>4, <1>6, <1>7

\* The steps of a run before and after its findings.
LEMMA QuietSteps ==
    ASSUME ~Overlap, ResolvedInv, NEW r \in ScanRuns,
           StoreCoverage(r) \/ LoadFindings(r) \/ FailScan(r)
    PROVE  ResolvedInv'
<1>0. FindingShape /\ OneAtATime /\ HitIsOpen
      /\ \A h \in Hosts : Counted(finding[h], evaluation[h], ended)
  BY DEF ResolvedInv, FindingInv
<1>1. FindingInv'
  BY RunSteps DEF ResolvedInv
<1>2. finding' = finding /\ evaluation' = evaluation /\ ended' = ended /\ evidence' = evidence
  BY DEF StoreCoverage, LoadFindings, FailScan
<1>3. \A h \in Hosts : Counted(finding[h], evaluation[h], ended)'
  BY <1>0, <1>2
<1>4. \A q \in ScanRuns : /\ scanRun'[q].at = "running" => scanRun[q].at = "running"
                          /\ scanRun'[q].at \in {"new", "devices"} => scanRun[q].at \in {"new", "devices"}
  <2>1. CASE StoreCoverage(r)
    <3>1. PICK seen \in SUBSET Live, covered \in SUBSET Hosts, hits \in SUBSET Hosts :
             scanRun' = [scanRun EXCEPT ![r] = [at |-> "devices", seen |-> seen, covered |-> covered, hits |-> hits]]
      BY <2>1 DEF StoreCoverage
    <3>2. scanRun[r].at = "new"
      BY <2>1 DEF StoreCoverage
    <3> QED BY <1>0, <3>1, <3>2 DEF FindingShape
  <2>2. CASE LoadFindings(r)
    BY <2>2 DEF LoadFindings
  <2>3. CASE FailScan(r)
    <3>1. scanRun' = [scanRun EXCEPT ![r].at = "failed"]
      BY <2>3 DEF FailScan, Stage
    <3> QED BY <1>0, <3>1, StageWrites
  <2> QED BY <2>1, <2>2, <2>3
<1>5. HitIsOpen'
  <2> SUFFICES ASSUME NEW q \in ScanRuns, NEW h \in Hosts, q \in evidence[h]
               PROVE  /\ scanRun'[q].at \notin {"new", "devices"}
                      /\ scanRun'[q].at = "running" => finding[h].open
    BY <1>2 DEF HitIsOpen
  <2> QED BY <1>0, <1>4 DEF HitIsOpen
<1>6. OneAtATime'
  <2>1. CASE StoreCoverage(r)
    <3>1. PICK seen \in SUBSET Live, covered \in SUBSET Hosts, hits \in SUBSET Hosts :
             scanRun' = [scanRun EXCEPT ![r] = [at |-> "devices", seen |-> seen, covered |-> covered, hits |-> hits]]
      BY <2>1 DEF StoreCoverage
    <3>2. scanRun[r].at = "new" /\ loaded' = loaded /\ \A q \in ScanRuns : ~Underway(q)
      BY <2>1 DEF StoreCoverage, Active, Underway
    <3>3. \A q \in ScanRuns : q # r => scanRun'[q] = scanRun[q]
      BY <1>0, <3>1 DEF FindingShape
    <3>4. \A q \in ScanRuns : q # r => ~Underway(q)'
      BY <3>2, <3>3 DEF Underway
    <3>5. \A q \in ScanRuns : loaded[q] = NotLoaded
      BY <1>0, <3>2 DEF OneAtATime
    <3>6. \A i \in DOMAIN ended : ended[i] \in ScanRuns /\ ended[i] # r
      BY <1>0, <3>2 DEF OneAtATime
    <3> QED BY <1>0, <1>2, <3>2, <3>3, <3>4, <3>5, <3>6 DEF OneAtATime
  <2>2. CASE LoadFindings(r)
    <3>1. scanRun' = scanRun /\ Underway(r) /\ loaded' = [loaded EXCEPT ![r] = finding]
      BY <2>2 DEF LoadFindings, Underway
    <3>2. \A q \in ScanRuns : loaded'[q] = IF q = r THEN finding ELSE loaded[q]
      BY <1>0, <3>1 DEF FindingShape
    <3> QED BY <1>0, <1>2, <3>1, <3>2 DEF OneAtATime, Underway
  <2>3. CASE FailScan(r)
    <3>1. scanRun' = [scanRun EXCEPT ![r].at = "failed"] /\ Underway(r) /\ loaded' = loaded /\ loaded[r] = NotLoaded
      BY <2>3 DEF FailScan, Stage, Underway
    <3>2. \A q \in ScanRuns : q # r => scanRun'[q] = scanRun[q]
      BY <1>0, <3>1, StageWrites
    <3>3. /\ \A p, q \in ScanRuns : Underway(p)' /\ Underway(q)' => p = q
          /\ \A q \in ScanRuns : q # r => loaded[q] = NotLoaded
          /\ \A i \in DOMAIN ended : ended[i] # r /\ ended[i] \in ScanRuns
      BY <1>0, <3>1, <3>2, RunsApart
    <3>4. \A q \in ScanRuns : loaded'[q] = NotLoaded
      BY <3>1, <3>3
    <3>5. \A i \in DOMAIN ended : scanRun'[ended[i]].at = "done"
      BY <1>0, <3>2, <3>3 DEF OneAtATime
    <3> QED BY <1>0, <1>2, <3>3, <3>4, <3>5 DEF OneAtATime
  <2> QED BY <2>1, <2>2, <2>3
<1> QED BY <1>1, <1>3, <1>5, <1>6 DEF ResolvedInv

\* A detection opens the row and starts the count again.
LEMMA DetectionCounts ==
    ASSUME ~Overlap, ResolvedInv, NEW r \in ScanRuns, IngestFindings(r)
    PROVE  ResolvedInv'
<1>0. FindingShape /\ OneAtATime /\ HitIsOpen /\ OnlyDoneEvaluates /\ LoadedHasRow /\ EvidenceHasRow
      /\ \A h \in Hosts : Counted(finding[h], evaluation[h], ended)
  BY DEF ResolvedInv, FindingInv
<1>1. FindingInv'
  BY IngestSteps DEF ResolvedInv
<1> DEFINE hits == {mergedInto[h] : h \in scanRun[r].hits}
           refused == \E h \in hits : finding[h].row /\ ~loaded[r][h].row
<1>2. scanRun[r].at = "devices" /\ Underway(r) /\ loaded[r] # NotLoaded
      /\ loaded' = [loaded EXCEPT ![r] = NotLoaded] /\ evaluation' = evaluation /\ ended' = ended
  BY DEF IngestFindings, Underway
<1>3. loaded[r] = finding
  BY <1>0, <1>2 DEF OneAtATime
<1>4. ~refused
  BY <1>3
<1>5. /\ finding' = [h \in Hosts |->
              IF h \notin hits THEN finding[h]
              ELSE Written(finding[h], loaded[r][h], Detected(loaded[r][h]))]
      /\ evidence' = [h \in Hosts |-> IF h \in hits THEN evidence[h] \cup {r} ELSE evidence[h]]
      /\ scanRun' = [scanRun EXCEPT ![r].at = "running"]
  BY <1>4 DEF IngestFindings, Stage
<1>6. scanRun'[r].at = "running" /\ \A q \in ScanRuns : q # r => scanRun'[q] = scanRun[q]
  BY <1>0, <1>5, StageWrites
<1>7. \A h \in Hosts : /\ finding[h] \in FindingRow
                       /\ h \notin hits => finding'[h] = finding[h] /\ evidence'[h] = evidence[h]
                       /\ h \in hits => finding'[h] = Detected(finding[h])
  <2> TAKE h \in Hosts
  <2>1. finding[h] \in FindingRow
    BY <1>0 DEF FindingShape
  <2>2. Detected(finding[h]) \in FindingRow
    BY <2>1, NewRows
  <2>3. Written(finding[h], finding[h], Detected(finding[h])) = Detected(finding[h])
    BY <2>1, <2>2, WriteIsNew
  <2>4. h \in hits => finding'[h] = Written(finding[h], loaded[r][h], Detected(loaded[r][h]))
    BY <1>5
  <2>5. h \notin hits => finding'[h] = finding[h] /\ evidence'[h] = evidence[h]
    BY <1>5
  <2> HIDE DEF hits
  <2> QED BY <1>3, <2>1, <2>3, <2>4, <2>5
<1> HIDE DEF hits, refused
<1>8. /\ \A p, q \in ScanRuns : Underway(p)' /\ Underway(q)' => p = q
      /\ \A q \in ScanRuns : q # r => loaded[q] = NotLoaded
      /\ \A i \in DOMAIN ended : ended[i] # r /\ ended[i] \in ScanRuns
  BY <1>0, <1>2, <1>6, RunsApart
<1>9. OneAtATime'
  <2>1. \A q \in ScanRuns : loaded'[q] = NotLoaded
    BY <1>0, <1>2, <1>8 DEF FindingShape
  <2>2. \A i \in DOMAIN ended : scanRun'[ended[i]].at = "done"
    BY <1>0, <1>6, <1>8 DEF OneAtATime
  <2> QED BY <1>0, <1>2, <1>8, <2>1, <2>2 DEF OneAtATime
<1>10. \A h \in Hosts : Counted(finding[h], evaluation[h], ended)'
  <2> SUFFICES ASSUME NEW h \in Hosts PROVE Counted(finding'[h], evaluation[h], ended)
    BY <1>2
  <2>1. CASE h \notin hits
    BY <1>0, <1>7, <2>1
  <2>2. CASE h \in hits
    <3>1. Detected(finding[h]).row /\ Detected(finding[h]).open /\ Detected(finding[h]).clean = 0
      BY <1>7, NewRows, NewColumns
    <3>2. HasTail(ended, evaluation[h], 0)
      BY <1>0, EmptyTail DEF OneAtATime
    <3>3. 0 < CleanScans
      BY FindingAssumption
    <3> QED BY <1>7, <2>2, <3>1, <3>2, <3>3 DEF Counted
  <2> QED BY <2>1, <2>2
<1>11. HitIsOpen'
  <2> SUFFICES ASSUME NEW q \in ScanRuns, NEW h \in Hosts, q \in evidence'[h]
               PROVE  /\ scanRun'[q].at \notin {"new", "devices"}
                      /\ scanRun'[q].at = "running" => finding'[h].open
    BY DEF HitIsOpen
  <2>1. CASE h \in hits
    <3>1. finding'[h].open
      BY <1>7, <2>1, NewColumns
    <3>2. q # r => q \in evidence[h]
      BY <1>5
    <3> QED BY <1>0, <1>6, <3>1, <3>2 DEF HitIsOpen
  <2>2. CASE h \notin hits
    <3>1. q \in evidence[h] /\ finding'[h] = finding[h]
      BY <1>7, <2>2
    <3>2. q # r
      BY <1>0, <1>2, <3>1 DEF HitIsOpen
    <3> QED BY <1>0, <1>6, <3>1, <3>2 DEF HitIsOpen
  <2> QED BY <2>1, <2>2
<1> QED BY <1>1, <1>9, <1>10, <1>11 DEF ResolvedInv

\* The outcome of a run for a row counts, starts again or leaves it.
LEMMA OutcomeCounts ==
    ASSUME NEW seq \in Seq(ScanRuns), NEW f \in FindingRow, NEW ev, NEW new, NEW r \in ScanRuns,
           Counted(f, ev, seq), \A j \in DOMAIN seq : seq[j] # r,
           \A q \in ScanRuns : q # r => new[q] = ev[q], ev[r] = "none"
    PROVE  /\ new[r] = "none" => Counted(f, new, Append(seq, r))
           /\ f.row /\ f.open => Counted([f EXCEPT !.clean = 0], new, Append(seq, r))
           /\ f.row /\ new[r] = "clean" => Counted(Cleaned(f), new, Append(seq, r))
<1>1. CleanScans \in Nat \ {0}
  BY FindingAssumption
<1>2. f.clean \in Nat /\ f.row \in BOOLEAN /\ f.open \in BOOLEAN
  BY DEF FindingRow
<1>3. Append(seq, r) \in Seq(ScanRuns)
  OBVIOUS
<1>4. \A n \in Nat : HasTail(seq, ev, n) /\ new[r] # "detected" =>
         /\ HasTail(Append(seq, r), new, n)
         /\ new[r] = "clean" => HasTail(Append(seq, r), new, n + 1)
  BY TailGrows
<1>5. ASSUME new[r] = "none" PROVE Counted(f, new, Append(seq, r))
  <2>1. ~f.row => \A q \in ScanRuns : new[q] = "none"
    BY <1>5 DEF Counted
  <2>2. f.row /\ f.open => f.clean < CleanScans /\ HasTail(Append(seq, r), new, f.clean)
    BY <1>2, <1>4, <1>5 DEF Counted
  <2>3. f.row /\ ~f.open => HasTail(Append(seq, r), new, CleanScans)
    BY <1>1, <1>4, <1>5 DEF Counted
  <2> QED BY <2>1, <2>2, <2>3 DEF Counted
<1>6. ASSUME f.row, f.open PROVE Counted([f EXCEPT !.clean = 0], new, Append(seq, r))
  <2> DEFINE g == [f EXCEPT !.clean = 0]
  <2>1. g.row /\ g.open /\ g.clean = 0
    BY <1>6 DEF FindingRow
  <2>2. HasTail(Append(seq, r), new, 0)
    BY <1>3, EmptyTail
  <2> HIDE DEF g
  <2>3. Counted(g, new, Append(seq, r))
    BY <1>1, <2>1, <2>2 DEF Counted
  <2> QED BY <2>3 DEF g
<1>7. ASSUME f.row, new[r] = "clean" PROVE Counted(Cleaned(f), new, Append(seq, r))
  <2> DEFINE g == Cleaned(f)
  <2>1. g.row /\ g.clean = f.clean + 1 /\ (g.open <=> f.open /\ f.clean + 1 < CleanScans)
    BY <1>7, NewRows, NewColumns
  <2>2. f.open => HasTail(Append(seq, r), new, f.clean + 1)
    BY <1>2, <1>4, <1>7 DEF Counted
  <2>3. f.open /\ ~(f.clean + 1 < CleanScans) => HasTail(Append(seq, r), new, CleanScans)
    <3>1. f.clean + 1 \in Nat /\ (~(f.clean + 1 < CleanScans) => CleanScans <= f.clean + 1)
      BY <1>1, <1>2
    <3> QED BY <1>1, <1>3, <2>2, <3>1, ShorterTail
  <2>4. ~f.open => HasTail(Append(seq, r), new, CleanScans)
    BY <1>1, <1>4, <1>7 DEF Counted
  <2> HIDE DEF g
  <2>5. Counted(g, new, Append(seq, r))
    BY <2>1, <2>2, <2>3, <2>4 DEF Counted
  <2> QED BY <2>5 DEF g
<1> QED BY <1>5, <1>6, <1>7

\* complete_scan_run evaluates every row that the run covered.
LEMMA EvaluationCounts ==
    ASSUME ~Overlap, ResolvedInv, NEW r \in ScanRuns, CompleteScan(r)
    PROVE  ResolvedInv'
<1>0. FindingShape /\ OneAtATime /\ HitIsOpen /\ OnlyDoneEvaluates /\ LoadedHasRow
      /\ \A h \in Hosts : Counted(finding[h], evaluation[h], ended)
  BY DEF ResolvedInv, FindingInv
<1>1. FindingInv'
  BY CompleteSteps DEF ResolvedInv
<1>2. /\ scanRun[r].at = "running" /\ Underway(r) /\ loaded[r] # NotLoaded
      /\ loaded' = [loaded EXCEPT ![r] = NotLoaded]
      /\ evaluation' = [h \in Hosts |-> [evaluation[h] EXCEPT ![r] = Outcome(r, h)]]
      /\ finding' = [h \in Hosts |-> Finalized(r, h)] /\ ended' = Append(ended, r)
      /\ scanRun' = [scanRun EXCEPT ![r].at = "done"] /\ evidence' = evidence
  BY DEF CompleteScan, Stage, Underway
<1>3. loaded[r] = finding
  BY <1>0, <1>2 DEF OneAtATime
<1>4. scanRun'[r].at = "done" /\ \A q \in ScanRuns : q # r => scanRun'[q] = scanRun[q]
  BY <1>0, <1>2, StageWrites
<1>5. /\ \A p, q \in ScanRuns : Underway(p)' /\ Underway(q)' => p = q
      /\ \A q \in ScanRuns : q # r => loaded[q] = NotLoaded
      /\ \A i \in DOMAIN ended : ended[i] # r /\ ended[i] \in ScanRuns
  BY <1>0, <1>2, <1>4, RunsApart
<1>6. OneAtATime'
  <2>1. \A q \in ScanRuns : loaded'[q] = NotLoaded
    BY <1>0, <1>2, <1>5 DEF FindingShape
  <2>2. ended \in Seq(ScanRuns)
    BY <1>0 DEF OneAtATime
  <2>3. ended' \in Seq(ScanRuns) /\ \A i \in DOMAIN ended' : ended'[i] = r \/ (i \in DOMAIN ended /\ ended'[i] = ended[i])
    BY <1>2, <2>2
  <2>4. \A i \in DOMAIN ended : scanRun[ended[i]].at = "done" /\ scanRun'[ended[i]] = scanRun[ended[i]]
    BY <1>0, <1>4, <1>5 DEF OneAtATime
  <2>5. \A i \in DOMAIN ended' : scanRun'[ended'[i]].at = "done"
    BY <1>4, <2>3, <2>4
  <2> QED BY <1>5, <2>1, <2>3, <2>5 DEF OneAtATime
<1>7. \A h \in Hosts : Counted(finding'[h], evaluation'[h], ended')
  <2> TAKE h \in Hosts
  <2> DEFINE f == finding[h]
             ev == evaluation[h]
             new == evaluation'[h]
  <2>1. f \in FindingRow /\ Counted(f, ev, ended) /\ ended \in Seq(ScanRuns)
    BY <1>0 DEF FindingShape, OneAtATime
  <2>2. ev \in [ScanRuns -> {"none", "clean", "detected"}] /\ ev[r] = "none"
    BY <1>0, <1>2 DEF FindingShape, OnlyDoneEvaluates
  <2>3. new = [ev EXCEPT ![r] = Outcome(r, h)]
    BY <1>2
  <2>4. new[r] = Outcome(r, h) /\ \A q \in ScanRuns : q # r => new[q] = ev[q]
    BY <2>2, <2>3
  <2>5. Outcome(r, h) \in {"none", "clean", "detected"}
        /\ (Outcome(r, h) # "none" => f.row)
        /\ (Outcome(r, h) = "detected" => r \in evidence[h])
    BY <1>3, <2>2 DEF Outcome
  <2>6. Outcome(r, h) = "detected" => f.open
    BY <1>0, <1>2, <2>5 DEF HitIsOpen
  <2>7. finding'[h] = Finalized(r, h)
    BY <1>2
  <2>8. /\ Outcome(r, h) = "none" => finding'[h] = f
        /\ Outcome(r, h) = "detected" => finding'[h] = Written(f, f, [f EXCEPT !.clean = 0])
        /\ Outcome(r, h) = "clean" => finding'[h] = Written(f, f, Cleaned(f))
    BY <1>3, <2>2, <2>7 DEF Finalized
  <2>9. Cleaned(f) \in FindingRow /\ [f EXCEPT !.clean = 0] \in FindingRow
    BY <2>1, NewRows
  <2>10. Written(f, f, [f EXCEPT !.clean = 0]) = [f EXCEPT !.clean = 0] /\ Written(f, f, Cleaned(f)) = Cleaned(f)
    BY <2>1, <2>9, WriteIsNew
  <2>11. \A j \in DOMAIN ended : ended[j] # r
    BY <1>5
  <2> HIDE DEF f, ev, new
  <2>12. /\ new[r] = "none" => Counted(f, new, Append(ended, r))
         /\ f.row /\ f.open => Counted([f EXCEPT !.clean = 0], new, Append(ended, r))
         /\ f.row /\ new[r] = "clean" => Counted(Cleaned(f), new, Append(ended, r))
    BY <2>1, <2>2, <2>4, <2>11, OutcomeCounts
  <2>13. Counted(finding'[h], new, Append(ended, r))
    BY <2>4, <2>5, <2>6, <2>8, <2>10, <2>12
  <2> QED BY <1>2, <2>13 DEF new
<1>8. HitIsOpen'
  <2> SUFFICES ASSUME NEW q \in ScanRuns, NEW h \in Hosts, q \in evidence'[h]
               PROVE  /\ scanRun'[q].at \notin {"new", "devices"}
                      /\ scanRun'[q].at = "running" => finding'[h].open
    BY DEF HitIsOpen
  <2>1. CASE q = r
    BY <1>4, <2>1
  <2>2. CASE q # r
    \* no other run is under way
    <3>1. ~Underway(q)
      BY <1>0, <1>2, <2>2 DEF OneAtATime
    <3>2. scanRun[q].at # "running"
      BY <3>1 DEF Underway
    <3> QED BY <1>0, <1>2, <1>4, <2>2, <3>2 DEF HitIsOpen
  <2> QED BY <2>1, <2>2
<1> QED BY <1>1, <1>2, <1>6, <1>7, <1>8 DEF ResolvedInv

\* Two rows joined: open if either is, and then the smaller count, which the
\* joined evaluations bear out.
LEMMA JoinCounts ==
    ASSUME NEW seq \in Seq(ScanRuns), NEW k \in FindingRow, NEW d \in FindingRow, NEW ek, NEW ed, NEW joined,
           Counted(k, ek, seq), Counted(d, ed, seq),
           \A r \in ScanRuns : ek[r] \in {"none", "clean", "detected"} /\ ed[r] \in {"none", "clean", "detected"},
           \A r \in ScanRuns : joined[r] = JoinedEvaluation(ek[r], ed[r])
    PROVE  Counted(Joined(k, d), joined, seq)
<1>1. CleanScans \in Nat \ {0} /\ k.clean \in Nat /\ d.clean \in Nat
      /\ k.row \in BOOLEAN /\ d.row \in BOOLEAN /\ k.open \in BOOLEAN /\ d.open \in BOOLEAN
  BY FindingAssumption DEF FindingRow
<1>2. CASE ~d.row
  <2>1. Joined(k, d) = k
    BY <1>2 DEF Joined
  <2>2. \A r \in ScanRuns : joined[r] = ek[r]
    BY <1>2 DEF Counted, JoinedEvaluation
  <2>3. k.row /\ k.open => HasTail(seq, joined, k.clean)
    BY <1>1, <2>2, SameTail DEF Counted
  <2>4. k.row /\ ~k.open => HasTail(seq, joined, CleanScans)
    BY <1>1, <2>2, SameTail DEF Counted
  <2> QED BY <2>1, <2>2, <2>3, <2>4 DEF Counted
<1>3. CASE d.row /\ ~k.row
  <2>1. Joined(k, d) = d
    BY <1>3 DEF Joined
  <2>2. \A r \in ScanRuns : joined[r] = ed[r]
    BY <1>3 DEF Counted, JoinedEvaluation
  <2>3. d.row /\ d.open => HasTail(seq, joined, d.clean)
    BY <1>1, <2>2, SameTail DEF Counted
  <2>4. d.row /\ ~d.open => HasTail(seq, joined, CleanScans)
    BY <1>1, <2>2, SameTail DEF Counted
  <2> QED BY <2>1, <2>2, <2>3, <2>4 DEF Counted
<1>4. CASE d.row /\ k.row
  <2> DEFINE g == Joined(k, d)
             m == IF k.open THEN k.clean ELSE CleanScans
             n == IF d.open THEN d.clean ELSE CleanScans
  <2>1. g.row /\ (g.open <=> k.open \/ d.open)
        /\ g.clean = IF k.open \/ d.open THEN Smaller(k.clean, d.clean) ELSE Larger(k.clean, d.clean)
    BY <1>4 DEF Joined
  <2>2. HasTail(seq, ek, m) /\ HasTail(seq, ed, n) /\ m \in Nat /\ n \in Nat
        /\ (k.open => k.clean < CleanScans) /\ (d.open => d.clean < CleanScans)
    BY <1>1, <1>4 DEF Counted
  <2>3. HasTail(seq, joined, m) \/ HasTail(seq, joined, n)
    <3> HIDE DEF m, n
    <3> QED BY <2>2, TailsJoin
  <2>4. CASE k.open \/ d.open
    <3>1. g.clean \in Nat /\ g.clean <= m /\ g.clean <= n /\ g.clean < CleanScans
      BY <1>1, <2>1, <2>2, <2>4 DEF Smaller
    <3> HIDE DEF g, m, n
    <3>2. HasTail(seq, joined, g.clean)
      BY <2>2, <2>3, <3>1, ShorterTail
    <3>3. Counted(g, joined, seq)
      BY <2>1, <2>4, <3>1, <3>2 DEF Counted
    <3> QED BY <3>3 DEF g
  <2>5. CASE ~(k.open \/ d.open)
    <3>1. m = CleanScans /\ n = CleanScans
      BY <2>5
    <3> HIDE DEF g, m, n
    <3>2. Counted(g, joined, seq)
      BY <2>1, <2>3, <2>5, <3>1 DEF Counted
    <3> QED BY <3>2 DEF g
  <2> QED BY <2>4, <2>5
<1> QED BY <1>1, <1>2, <1>3, <1>4

\* merge_asset_findings, while no request is open.
LEMMA MergeCounts ==
    ASSUME ~Overlap, ResolvedInv, NEW target \in Hosts, NEW source \in Hosts, MergeFindings(target, source)
    PROVE  ResolvedInv'
<1>0. FindingShape /\ OneAtATime /\ HitIsOpen /\ EvidenceHasRow
      /\ \A h \in Hosts : Counted(finding[h], evaluation[h], ended)
  BY DEF ResolvedInv, FindingInv
<1>1. FindingInv'
  BY LifeMergeSteps DEF ResolvedInv
<1> DEFINE joined == [r \in ScanRuns |-> JoinedEvaluation(evaluation[target][r], evaluation[source][r])]
           blank == [r \in ScanRuns |-> "none"]
<1>2. /\ target # source /\ \A r \in ScanRuns : loaded[r] = NotLoaded
      /\ finding' = [finding EXCEPT ![target] = Joined(finding[target], finding[source]), ![source] = NoRow]
      /\ evidence' = [evidence EXCEPT ![target] = evidence[target] \cup evidence[source], ![source] = {}]
      /\ evaluation' = [evaluation EXCEPT ![target] = joined, ![source] = blank]
      /\ loaded' = loaded /\ ended' = ended
  BY <1>0 DEF MergeFindings, FindingShape
<1>3. \A r \in ScanRuns : scanRun'[r].at = scanRun[r].at
  <2> DEFINE follow(S) == IF source \in S THEN (S \ {source}) \cup {target} ELSE S
  <2>1. scanRun' = [r \in ScanRuns |->
             [scanRun[r] EXCEPT !.seen = follow(@), !.covered = follow(@), !.hits = follow(@)]]
    BY DEF MergeFindings
  <2> TAKE r \in ScanRuns
  <2>2. scanRun[r] \in RunReport
    BY <1>0 DEF FindingShape
  <2>3. scanRun'[r] = [scanRun[r] EXCEPT !.seen = follow(scanRun[r].seen),
                          !.covered = follow(scanRun[r].covered), !.hits = follow(scanRun[r].hits)]
    BY <2>1, <2>2 DEF RunReport
  <2> HIDE DEF follow
  <2> QED BY <2>2, <2>3 DEF RunReport
<1>4. \A h \in Hosts :
         /\ finding'[h] = IF h = source THEN NoRow
                          ELSE IF h = target THEN Joined(finding[target], finding[source]) ELSE finding[h]
         /\ evidence'[h] = IF h = source THEN {}
                           ELSE IF h = target THEN evidence[target] \cup evidence[source] ELSE evidence[h]
         /\ evaluation'[h] = IF h = source THEN blank ELSE IF h = target THEN joined ELSE evaluation[h]
  <2> HIDE DEF joined, blank
  <2> QED BY <1>0, <1>2 DEF FindingShape
<1>5. OneAtATime'
  <2>1. \A r \in ScanRuns : Underway(r)' <=> Underway(r)
    BY <1>3 DEF Underway
  <2>2. \A i \in DOMAIN ended : ended[i] \in ScanRuns
    BY <1>0 DEF OneAtATime
  <2> QED BY <1>0, <1>2, <1>3, <2>1, <2>2 DEF OneAtATime
<1>6. \A h \in Hosts : Counted(finding'[h], evaluation'[h], ended)
  <2> TAKE h \in Hosts
  <2>1. CASE h = source
    <3>1. Counted(NoRow, blank, ended)
      BY DEF Counted, NoRow
    <3> QED BY <1>4, <2>1, <3>1
  <2>2. CASE h = target
    <3>1. finding[target] \in FindingRow /\ finding[source] \in FindingRow /\ ended \in Seq(ScanRuns)
          /\ Counted(finding[target], evaluation[target], ended)
          /\ Counted(finding[source], evaluation[source], ended)
      BY <1>0 DEF FindingShape, OneAtATime
    <3>2. \A r \in ScanRuns : /\ evaluation[target][r] \in {"none", "clean", "detected"}
                               /\ evaluation[source][r] \in {"none", "clean", "detected"}
      BY <1>0 DEF FindingShape
    <3>3. \A r \in ScanRuns : joined[r] = JoinedEvaluation(evaluation[target][r], evaluation[source][r])
      OBVIOUS
    <3> DEFINE k == finding[target]
               d == finding[source]
               ek == evaluation[target]
               ed == evaluation[source]
    <3> HIDE DEF joined, k, d, ek, ed
    <3>4. k \in FindingRow /\ d \in FindingRow /\ ended \in Seq(ScanRuns) /\ Counted(k, ek, ended) /\ Counted(d, ed, ended)
      BY <3>1 DEF k, d, ek, ed
    <3>5. \A r \in ScanRuns : ek[r] \in {"none", "clean", "detected"} /\ ed[r] \in {"none", "clean", "detected"}
      BY <3>2 DEF ek, ed
    <3>6. \A r \in ScanRuns : joined[r] = JoinedEvaluation(ek[r], ed[r])
      BY <3>3 DEF ek, ed
    <3>7. Counted(Joined(k, d), joined, ended)
      BY <3>4, <3>5, <3>6, JoinCounts
    <3> QED BY <1>2, <1>4, <2>2, <3>7 DEF k, d
  <2>3. CASE h # source /\ h # target
    BY <1>0, <1>4, <2>3
  <2> QED BY <2>1, <2>2, <2>3
<1>7. HitIsOpen'
  <2> SUFFICES ASSUME NEW q \in ScanRuns, NEW h \in Hosts, q \in evidence'[h]
               PROVE  /\ scanRun[q].at \notin {"new", "devices"}
                      /\ scanRun[q].at = "running" => finding'[h].open
    BY <1>3 DEF HitIsOpen
  <2>1. CASE h = target
    <3> DEFINE k == finding[target]
               d == finding[source]
    <3>0. k \in FindingRow /\ d \in FindingRow
      BY <1>0 DEF FindingShape
    <3>1. evidence'[h] = evidence[target] \cup evidence[source] /\ finding'[h] = Joined(k, d)
      BY <1>2, <1>4, <2>1
    <3>2. CASE q \in evidence[target]
      <4>1. scanRun[q].at \notin {"new", "devices"} /\ (scanRun[q].at = "running" => k.open) /\ k.row
        BY <1>0, <3>2 DEF HitIsOpen, EvidenceHasRow
      <4>2. k.open => Joined(k, d).open
        BY <3>0, <4>1 DEF Joined, FindingRow
      <4> QED BY <3>1, <4>1, <4>2
    <3>3. CASE q \in evidence[source]
      <4>1. scanRun[q].at \notin {"new", "devices"} /\ (scanRun[q].at = "running" => d.open) /\ d.row
        BY <1>0, <3>3 DEF HitIsOpen, EvidenceHasRow
      <4>2. d.open => Joined(k, d).open
        BY <3>0, <4>1 DEF Joined, FindingRow
      <4> QED BY <3>1, <4>1, <4>2
    <3> QED BY <3>1, <3>2, <3>3
  <2>2. CASE h # target
    <3>1. h # source /\ q \in evidence[h] /\ finding'[h] = finding[h]
      BY <1>4, <2>2
    <3> QED BY <1>0, <3>1 DEF HitIsOpen
  <2> QED BY <2>1, <2>2
<1> QED BY <1>1, <1>2, <1>5, <1>6, <1>7 DEF ResolvedInv

\* A finding is resolved only while the last CleanScans runs that evaluated it
\* were clean, for any runs and assets and whatever is merged, as long as runs
\* on the same assets do not overlap in time.
THEOREM ResolvedStaysClean ==
    ASSUME ~Overlap
    PROVE  InitFindings /\ [][NextFindings]_findingVars => []ResolvedWasClean
<1>1. InitFindings => ResolvedInv
  <2> SUFFICES ASSUME InitFindings PROVE ResolvedInv
    OBVIOUS
  <2>1. FindingShape
    BY DEF InitFindings, FindingShape, RunReport, FindingRow, NoRow
  <2>2. FindingInv
    BY <2>1 DEF InitFindings, FindingInv, OnlyDoneEvaluates, EvidenceIsDetected, EvidenceHasRow, LoadedHasRow
  <2>3. OneAtATime /\ HitIsOpen
    BY DEF InitFindings, OneAtATime, HitIsOpen, Underway
  <2>4. \A h \in Hosts : Counted(finding[h], evaluation[h], ended)
    BY DEF InitFindings, Counted, NoRow
  <2> QED BY <2>2, <2>3, <2>4 DEF ResolvedInv
<1>2. ResolvedInv /\ [NextFindings]_findingVars => ResolvedInv'
  <2> SUFFICES ASSUME ResolvedInv, [NextFindings]_findingVars PROVE ResolvedInv'
    OBVIOUS
  <2>1. CASE UNCHANGED findingVars
    BY <2>1 DEF findingVars, ResolvedInv, FindingInv, FindingShape, OnlyDoneEvaluates, EvidenceIsDetected,
                EvidenceHasRow, LoadedHasRow, OneAtATime, HitIsOpen, Underway
  <2> QED BY <2>1, QuietSteps, DetectionCounts, EvaluationCounts, MergeCounts DEF NextFindings
<1>3. ResolvedInv => ResolvedWasClean
  <2> SUFFICES ASSUME ResolvedInv, NEW h \in Hosts, finding[h].row, ~finding[h].open
               PROVE  \E i \in DOMAIN ended : CleanFrom(h, i, CleanScans)
    BY DEF ResolvedWasClean
  <2>1. ended \in Seq(ScanRuns) /\ HasTail(ended, evaluation[h], CleanScans) /\ CleanScans \in Nat \ {0}
    BY FindingAssumption DEF ResolvedInv, OneAtATime, Counted
  <2>2. PICK i \in 1 .. Len(ended) + 1 : Unbroken(ended, evaluation[h], i, CleanScans)
    BY <2>1 DEF HasTail
  <2>3. CleanFrom(h, i, CleanScans)
    BY <2>2 DEF Unbroken, CleanFrom
  <2>4. i \in DOMAIN ended
    <3> SUFFICES ASSUME i = Len(ended) + 1 PROVE FALSE
      BY <2>1
    <3>1. {ended[j] : j \in i .. Len(ended)} = {}
      BY <2>1
    <3>2. {r \in {ended[j] : j \in i .. Len(ended)} : evaluation[h][r] = "clean"} = {}
      BY <3>1
    <3>3. Cardinality({r \in {ended[j] : j \in i .. Len(ended)} : evaluation[h][r] = "clean"}) = 0
      BY <3>2, FS_EmptySet
    <3>4. Cardinality({r \in {ended[j] : j \in i .. Len(ended)} : evaluation[h][r] = "clean"}) >= CleanScans
      BY <2>2 DEF Unbroken
    <3> QED BY <2>1, <3>3, <3>4
  <2> QED BY <2>3, <2>4
<1> QED BY <1>1, <1>2, <1>3, PTL

HIDE FindingAssumption

-----------------------------------------------------------------------------
(* AssetInventory: an asset shows what was last observed of it *)

USE InventoryAssumption

Sources == {"none", "scanner", "manual", "incorrect"}

\* The current facts of an unmerged asset are those of the macs it observed.
InventoryProjected(row, ids, macs) ==
    /\ {m \in Macs : ids[m] = "scanner"} \subseteq macs
    /\ \A m \in macs : ids[m] # "none"
    /\ row.seen <=> macs # {}

\* What the tables say of an asset that does not exist, that is merged, and
\* that is not.
AssetHolds(row, ids, macs, devs) ==
    /\ ~row.exists => row = Absent /\ macs = {} /\ devs = {} /\ \A m \in Macs : ids[m] = "none"
    /\ row.into # 0 => devs = {}
    /\ row.exists /\ row.into = 0 => InventoryProjected(row, ids, macs)

\* The chain of merges from an asset to one that is not merged meets no asset
\* twice.
Chain(table, a, n, path) ==
    /\ n \in Nat \ {0} /\ path \in [1 .. n -> AssetIds] /\ path[1] = a
    /\ table[path[n]].exists /\ table[path[n]].into = 0
    /\ \A i \in 1 .. n - 1 : table[path[i]].into = path[i + 1]
    /\ \A i, j \in 1 .. n : path[i] = path[j] => i = j

InventoryInv ==
    /\ InventoryTypeOK
    /\ \A a \in AssetIds : AssetHolds(assetRow[a], identifier[a], ObservedMacs(observations, a), devices[a])
    /\ \A a \in AssetIds : assetRow[a].exists => \E n, path : Chain(assetRow, a, n, path)
    /\ \A d \in DeviceRuns \X Macs : decisions[d] # 0 => assetRow[decisions[d]].exists

InventoryRow == [exists : BOOLEAN, into : AssetIds \cup {0}, seen : BOOLEAN]

\* The id of a new asset is one that is not used.
LEMMA NewIdIsUnused == ASSUME Unused # {} PROVE NewId \in AssetIds /\ ~assetRow[NewId].exists
<1>1. Unused \in SUBSET Nat
  BY InventoryAssumption DEF Unused
<1>2. \E a \in Unused : \A b \in Unused : a <= b
  BY <1>1, Least
<1>3. NewId \in Unused
  BY <1>2 DEF NewId
<1> QED BY <1>3 DEF Unused

\* A chain stays one while no asset of it is merged further or goes.
LEMMA ChainsStay ==
    ASSUME InventoryTypeOK, NEW table,
           \A a \in AssetIds : assetRow[a].exists => table[a].exists /\ table[a].into = assetRow[a].into,
           \A a \in AssetIds : ~assetRow[a].exists => assetRow[a].into = 0,
           NEW a, NEW n, NEW path, Chain(assetRow, a, n, path)
    PROVE  Chain(table, a, n, path)
<1>1. n \in Nat \ {0} /\ path \in [1 .. n -> AssetIds]
  BY DEF Chain
<1>2. path[n] \in AssetIds /\ \A i \in 1 .. n - 1 : path[i] \in AssetIds /\ path[i + 1] \in AssetIds
  BY <1>1
<1>3. table[path[n]].exists /\ table[path[n]].into = 0
  BY <1>2 DEF Chain
<1>4. ASSUME NEW i \in 1 .. n - 1 PROVE table[path[i]].into = path[i + 1]
  <2>1. assetRow[path[i]].into = path[i + 1] /\ path[i + 1] # 0
    BY <1>2 DEF Chain
  <2> QED BY <1>2, <2>1
<1> QED BY <1>3, <1>4 DEF Chain

\* When s is merged into t, the chains that end in s go on to t.
LEMMA ChainsGrow ==
    ASSUME InventoryTypeOK, NEW s \in AssetIds, NEW t \in AssetIds, s # t,
           assetRow[s].exists, assetRow[s].into = 0, assetRow[t].exists, assetRow[t].into = 0,
           NEW table, table[s].into = t, table[t].into = 0, table[t].exists,
           \A a \in AssetIds \ {s, t} : table[a] = assetRow[a],
           NEW a, NEW n, NEW path, Chain(assetRow, a, n, path)
    PROVE  \E m, p : Chain(table, a, m, p)
<1>1. n \in Nat \ {0} /\ path \in [1 .. n -> AssetIds] /\ path[1] = a
      /\ \A i, j \in 1 .. n : path[i] = path[j] => i = j
  BY DEF Chain
<1>2. \A i \in 1 .. n - 1 : path[i] \in AssetIds /\ path[i + 1] \in AssetIds /\ i \in 1 .. n
  BY <1>1
<1>3. ASSUME NEW i \in 1 .. n - 1 PROVE path[i] \in AssetIds \ {s, t} /\ table[path[i]].into = path[i + 1]
  <2>1. assetRow[path[i]].into = path[i + 1] /\ path[i + 1] # 0
    BY <1>2 DEF Chain
  <2>2. path[i] \in AssetIds \ {s, t}
    BY <1>2, <2>1
  <2> QED BY <2>1, <2>2
<1>4. path[n] \in AssetIds /\ assetRow[path[n]].exists /\ assetRow[path[n]].into = 0
  BY <1>1 DEF Chain
<1>5. CASE path[n] # s
  <2>1. table[path[n]].exists /\ table[path[n]].into = 0
    BY <1>4, <1>5
  <2>2. Chain(table, a, n, path)
    BY <1>1, <1>3, <2>1 DEF Chain
  <2> QED BY <2>2
<1>6. CASE path[n] = s
  <2> DEFINE p == [i \in 1 .. n + 1 |-> IF i = n + 1 THEN t ELSE path[i]]
  <2>1. n + 1 \in Nat \ {0} /\ p \in [1 .. n + 1 -> AssetIds]
    BY <1>1
  <2>2. p[n + 1] = t /\ \A i \in 1 .. n : p[i] = path[i]
    BY <1>1
  <2> HIDE DEF p
  <2>3. p[1] = a
    BY <1>1, <2>2
  <2>4. \A i \in 1 .. (n + 1) - 1 : table[p[i]].into = p[i + 1]
    <3> TAKE i \in 1 .. (n + 1) - 1
    <3>1. CASE i = n
      BY <1>1, <1>6, <2>2, <3>1
    <3>2. CASE i # n
      <4>1. i \in 1 .. n - 1 /\ i \in 1 .. n /\ i + 1 \in 1 .. n
        BY <1>1, <3>2
      <4> QED BY <1>3, <2>2, <4>1
    <3> QED BY <3>1, <3>2
  <2>5. \A i \in 1 .. n : path[i] # t
    <3> TAKE i \in 1 .. n
    <3>1. CASE i = n
      BY <1>6, <3>1
    <3>2. CASE i # n
      <4>1. i \in 1 .. n - 1
        BY <1>1, <3>2
      <4> QED BY <1>3, <4>1
    <3> QED BY <3>1, <3>2
  <2>6. \A i, j \in 1 .. n + 1 : p[i] = p[j] => i = j
    <3> SUFFICES ASSUME NEW i \in 1 .. n + 1, NEW j \in 1 .. n + 1, p[i] = p[j] PROVE i = j
      OBVIOUS
    <3>1. (i = n + 1 \/ i \in 1 .. n) /\ (j = n + 1 \/ j \in 1 .. n)
      BY <1>1
    <3> QED BY <1>1, <2>2, <2>5, <3>1
  <2>7. Chain(table, a, n + 1, p)
    BY <2>1, <2>2, <2>3, <2>4, <2>6 DEF Chain
  <2> QED BY <2>7
<1> QED BY <1>5, <1>6

\* Every identifier that a rebuild leaves is kept by hand or was observed.
LEMMA RebuiltIsProjected ==
    ASSUME NEW ids \in [Macs -> Sources], NEW macs \in SUBSET Macs
    PROVE  /\ Rebuilt(ids, macs) \in [Macs -> Sources]
           /\ {m \in Macs : Rebuilt(ids, macs)[m] = "scanner"} \subseteq macs
           /\ \A m \in macs : Rebuilt(ids, macs)[m] # "none"
BY DEF Rebuilt, Sources

\* What was observed of an asset is a set of addresses.
LEMMA ObservedType == ASSUME InventoryTypeOK, NEW a PROVE ObservedMacs(observations, a) \in SUBSET Macs
BY DEF InventoryTypeOK, Observation, ObservedMacs

\* What every step but a merge has to show.
LEMMA StepHolds ==
    ASSUME InventoryInv, InventoryTypeOK',
           \A a \in AssetIds : AssetHolds(assetRow'[a], identifier'[a], ObservedMacs(observations', a), devices'[a]),
           \A a \in AssetIds : assetRow[a].exists => assetRow'[a].exists /\ assetRow'[a].into = assetRow[a].into,
           \A a \in AssetIds : ~assetRow[a].exists => assetRow'[a].into = 0,
           \A d \in DeviceRuns \X Macs : decisions'[d] # 0 => assetRow'[decisions'[d]].exists
    PROVE  InventoryInv'
<1>1. ASSUME NEW a \in AssetIds, assetRow'[a].exists PROVE \E n, path : Chain(assetRow', a, n, path)
  <2>1. CASE assetRow[a].exists
    <3>1. PICK n, path : Chain(assetRow, a, n, path)
      BY <2>1 DEF InventoryInv
    <3>2. \A b \in AssetIds : ~assetRow[b].exists => assetRow[b].into = 0
      BY DEF InventoryInv, AssetHolds, Absent
    <3>3. InventoryTypeOK
      BY DEF InventoryInv
    <3>4. Chain(assetRow', a, n, path)
      BY <3>1, <3>2, <3>3, ChainsStay
    <3> QED BY <3>4
  <2>2. CASE ~assetRow[a].exists
    <3> DEFINE path == [i \in 1 .. 1 |-> a]
    <3>1. path \in [1 .. 1 -> AssetIds] /\ path[1] = a
      OBVIOUS
    <3>2. \A i \in 1 .. 1 : i = 1
      OBVIOUS
    <3>3. 1 .. 1 - 1 = {}
      OBVIOUS
    <3> HIDE DEF path
    <3>4. Chain(assetRow', a, 1, path)
      BY <1>1, <2>2, <3>1, <3>2, <3>3 DEF Chain
    <3> QED BY <3>4
  <2> QED BY <2>1, <2>2
<1> QED BY <1>1 DEF InventoryInv

\* ingest_device_report, for an asset that matches and for a new one.
LEMMA ReportSteps ==
    ASSUME InventoryInv, NEW r \in DeviceRuns, NEW m \in Macs, LinkReport(r, m) \/ CreateFromReport(r, m)
    PROVE  InventoryInv'
<1>0. InventoryTypeOK
      /\ \A a \in AssetIds : AssetHolds(assetRow[a], identifier[a], ObservedMacs(observations, a), devices[a])
      /\ \A d \in DeviceRuns \X Macs : decisions[d] # 0 => assetRow[decisions[d]].exists
  BY DEF InventoryInv
<1>1. ASSUME NEW a \in AssetIds, NEW row \in InventoryRow, NEW rowsAfter, rowsAfter = [assetRow EXCEPT ![a] = row],
             Observe(a, r, m, rowsAfter), row.exists, row.into = 0, row.seen,
             assetRow[a].exists => assetRow[a].into = 0 /\ identifier[a][m] # "none"
      PROVE  InventoryInv'
  <2> DEFINE ids == Upserted(identifier[a], m, "scanner")
             o == [run |-> r, mac |-> m, asset |-> a]
             devs == IF devices[a] = {} THEN {m} ELSE devices[a]
  <2>1. /\ assetRow' = [assetRow EXCEPT ![a] = row]
        /\ identifier' = [identifier EXCEPT ![a] = ids]
        /\ observations' = observations \cup {o}
        /\ decisions' = [decisions EXCEPT ![<<r, m>>] = a]
        /\ devices' = [devices EXCEPT ![a] = devs]
    BY <1>1 DEF Observe
  <2>2. identifier[a] \in [Macs -> Sources] /\ devices[a] \in SUBSET Macs
    BY <1>0 DEF InventoryTypeOK, Sources
  <2>3. ids \in [Macs -> Sources] /\ ids[m] = (IF identifier[a][m] = "none" THEN "scanner" ELSE identifier[a][m])
        /\ \A k \in Macs : k # m => ids[k] = identifier[a][k]
    BY <2>2 DEF Upserted, Sources
  <2>4. o \in Observation /\ devs \in SUBSET Macs /\ <<r, m>> \in DeviceRuns \X Macs
    BY <2>2 DEF Observation
  <2>5. o.mac = m /\ o.asset = a
    OBVIOUS
  <2> HIDE DEF ids, o, devs
  <2>6. InventoryTypeOK'
    BY <1>0, <2>1, <2>3, <2>4 DEF InventoryTypeOK, Sources, InventoryRow
  <2>7. \A b \in AssetIds : ObservedMacs(observations', b) =
            IF b = a THEN ObservedMacs(observations, a) \cup {m} ELSE ObservedMacs(observations, b)
    BY <2>1, <2>5 DEF ObservedMacs
  <2>8. \A b \in AssetIds : b # a => /\ assetRow'[b] = assetRow[b] /\ identifier'[b] = identifier[b]
                                     /\ devices'[b] = devices[b]
    BY <1>0, <2>1 DEF InventoryTypeOK
  <2>9. assetRow'[a] = row /\ identifier'[a] = ids /\ devices'[a] = devs
    BY <1>0, <2>1 DEF InventoryTypeOK
  <2>10. AssetHolds(row, ids, ObservedMacs(observations, a) \cup {m}, devs)
    <3>1. AssetHolds(assetRow[a], identifier[a], ObservedMacs(observations, a), devices[a])
      BY <1>0
    <3>2. {k \in Macs : ids[k] = "scanner"} \subseteq ObservedMacs(observations, a) \cup {m}
      <4>1. CASE assetRow[a].exists
        BY <1>1, <2>3, <3>1, <4>1 DEF AssetHolds, InventoryProjected
      <4>2. CASE ~assetRow[a].exists
        BY <2>3, <3>1, <4>2 DEF AssetHolds
      <4> QED BY <4>1, <4>2
    <3>3. ObservedMacs(observations, a) \in SUBSET Macs
      BY <1>0, ObservedType
    <3>4. \A k \in ObservedMacs(observations, a) \cup {m} : ids[k] # "none"
      <4>1. ids[m] # "none"
        BY <2>3
      <4>2. \A k \in ObservedMacs(observations, a) : identifier[a][k] # "none"
        BY <1>1, <3>1 DEF AssetHolds, InventoryProjected
      <4> QED BY <2>3, <3>3, <4>1, <4>2
    <3> QED BY <1>1, <3>2, <3>4 DEF AssetHolds, InventoryProjected
  <2>11. \A b \in AssetIds : AssetHolds(assetRow'[b], identifier'[b], ObservedMacs(observations', b), devices'[b])
    BY <1>0, <2>7, <2>8, <2>9, <2>10
  <2>12. \A b \in AssetIds : assetRow[b].exists => assetRow'[b].exists /\ assetRow'[b].into = assetRow[b].into
    BY <1>1, <2>8, <2>9
  <2>13. \A b \in AssetIds : ~assetRow[b].exists => assetRow'[b].into = 0
    BY <1>0, <1>1, <2>8, <2>9 DEF AssetHolds, Absent
  <2>14. \A d \in DeviceRuns \X Macs : decisions'[d] # 0 => assetRow'[decisions'[d]].exists
    <3> TAKE d \in DeviceRuns \X Macs
    <3>1. decisions'[d] = IF d = <<r, m>> THEN a ELSE decisions[d]
      BY <1>0, <2>1, <2>4 DEF InventoryTypeOK
    <3>2. decisions[d] # 0 => decisions[d] \in AssetIds
      BY <1>0 DEF InventoryTypeOK
    <3> QED BY <1>0, <1>1, <2>9, <2>12, <3>1, <3>2
  <2> QED BY <2>6, <2>11, <2>12, <2>13, <2>14, StepHolds
<1>2. ASSUME LinkReport(r, m) PROVE InventoryInv'
  <2>1. PICK a \in Matches(m) : Observe(a, r, m, [assetRow EXCEPT ![a].seen = TRUE])
    BY <1>2 DEF LinkReport
  <2>2. a \in AssetIds /\ assetRow[a].exists /\ assetRow[a].into = 0 /\ identifier[a][m] # "none"
    BY DEF Matches, Unmerged
  <2> DEFINE row == [assetRow[a] EXCEPT !.seen = TRUE]
  <2>3. row \in InventoryRow /\ row.exists /\ row.into = 0 /\ row.seen
    <3>1. assetRow[a] \in InventoryRow
      BY <1>0, <2>2 DEF InventoryTypeOK, InventoryRow
    <3> QED BY <2>2, <3>1 DEF InventoryRow
  <2>4. [assetRow EXCEPT ![a].seen = TRUE] = [assetRow EXCEPT ![a] = row]
    OBVIOUS
  <2> HIDE DEF row
  <2> QED BY <1>1, <2>1, <2>2, <2>3, <2>4
<1>3. ASSUME CreateFromReport(r, m) PROVE InventoryInv'
  <2>1. NewId \in AssetIds /\ ~assetRow[NewId].exists /\ Observe(NewId, r, m, Added(TRUE))
    BY <1>3, NewIdIsUnused DEF CreateFromReport
  <2> DEFINE row == [exists |-> TRUE, into |-> 0, seen |-> TRUE]
  <2>2. row \in InventoryRow /\ row.exists /\ row.into = 0 /\ row.seen
    BY DEF InventoryRow
  <2>3. Added(TRUE) = [assetRow EXCEPT ![NewId] = row]
    BY DEF Added
  <2> HIDE DEF row
  <2> QED BY <1>1, <2>1, <2>2, <2>3
<1> QED BY <1>2, <1>3

\* create_expected_asset and correct_identifier.
LEMMA StaffSteps ==
    ASSUME InventoryInv, NEW m \in Macs, CreateExpected(m) \/ \E a \in AssetIds : CorrectIdentifier(a, m)
    PROVE  InventoryInv'
<1>0. InventoryTypeOK
      /\ \A a \in AssetIds : AssetHolds(assetRow[a], identifier[a], ObservedMacs(observations, a), devices[a])
      /\ \A d \in DeviceRuns \X Macs : decisions[d] # 0 => assetRow[decisions[d]].exists
  BY DEF InventoryInv
<1>1. ASSUME CreateExpected(m) PROVE InventoryInv'
  <2> DEFINE row == [exists |-> TRUE, into |-> 0, seen |-> FALSE]
             a == NewId
             ids == [identifier[a] EXCEPT ![m] = "manual"]
  <2>1. a \in AssetIds /\ ~assetRow[a].exists
    BY <1>1, NewIdIsUnused DEF CreateExpected
  <2>2. assetRow' = [assetRow EXCEPT ![a] = row] /\ identifier' = [identifier EXCEPT ![a] = ids]
        /\ UNCHANGED <<observations, decisions, devices>>
    BY <1>1 DEF CreateExpected, Added
  <2>3. identifier[a] \in [Macs -> Sources]
    BY <1>0, <2>1 DEF InventoryTypeOK, Sources
  <2>4. row \in InventoryRow /\ row.exists /\ row.into = 0 /\ ~row.seen
    BY DEF InventoryRow
  <2>5. ids \in [Macs -> Sources] /\ \A k \in Macs : ids[k] = IF k = m THEN "manual" ELSE identifier[a][k]
    BY <2>3 DEF Sources
  <2> HIDE DEF row, a, ids
  <2>6. InventoryTypeOK'
    BY <1>0, <2>1, <2>2, <2>4, <2>5 DEF InventoryTypeOK, Sources, InventoryRow
  <2>7. \A b \in AssetIds : /\ assetRow'[b] = IF b = a THEN row ELSE assetRow[b]
                            /\ identifier'[b] = IF b = a THEN ids ELSE identifier[b]
                            /\ devices'[b] = devices[b]
    BY <1>0, <2>1, <2>2 DEF InventoryTypeOK
  <2>8. AssetHolds(row, ids, ObservedMacs(observations, a), devices[a])
    BY <1>0, <2>1, <2>4, <2>5 DEF AssetHolds, InventoryProjected
  <2>9. \A b \in AssetIds : AssetHolds(assetRow'[b], identifier'[b], ObservedMacs(observations', b), devices'[b])
    BY <1>0, <2>2, <2>7, <2>8
  <2>10. \A b \in AssetIds : assetRow[b].exists => assetRow'[b].exists /\ assetRow'[b].into = assetRow[b].into
    BY <2>1, <2>7
  <2>11. \A b \in AssetIds : ~assetRow[b].exists => assetRow'[b].into = 0
    BY <1>0, <2>4, <2>7 DEF AssetHolds, Absent
  <2>12. \A d \in DeviceRuns \X Macs : decisions'[d] # 0 => assetRow'[decisions'[d]].exists
    BY <1>0, <2>2, <2>10 DEF InventoryTypeOK
  <2> QED BY <2>6, <2>9, <2>10, <2>11, <2>12, StepHolds
<1>2. ASSUME NEW a \in AssetIds, CorrectIdentifier(a, m) PROVE InventoryInv'
  <2>0. identifier[a][m] \in {"scanner", "manual"} /\ UNCHANGED <<assetRow, observations, decisions, devices>>
    BY <1>2 DEF CorrectIdentifier
  <2>1. identifier[a] \in [Macs -> Sources] /\ assetRow[a].exists
    <3>1. identifier[a] \in [Macs -> Sources]
      BY <1>0 DEF InventoryTypeOK, Sources
    <3>2. assetRow[a].exists
      BY <1>0, <2>0 DEF AssetHolds
    <3> QED BY <3>1, <3>2
  <2>2. PICK ids \in [Macs -> Sources] :
           /\ identifier' = [identifier EXCEPT ![a] = ids]
           /\ \A k \in Macs : /\ ids[k] = "scanner" => identifier[a][k] = "scanner"
                              /\ identifier[a][k] # "none" => ids[k] # "none"
    <3>1. CASE identifier' = [identifier EXCEPT ![a][m] = "incorrect"]
      <4> DEFINE new == [identifier[a] EXCEPT ![m] = "incorrect"]
      <4>1. identifier' = [identifier EXCEPT ![a] = new]
        BY <3>1
      <4>2. new \in [Macs -> Sources] /\ \A k \in Macs : new[k] = IF k = m THEN "incorrect" ELSE identifier[a][k]
        BY <2>1 DEF Sources
      <4> HIDE DEF new
      <4> QED BY <4>1, <4>2
    <3>2. ASSUME NEW n \in Macs, identifier[a][n] = "none",
                 identifier' = [identifier EXCEPT ![a][m] = "incorrect", ![a][n] = "manual"]
          PROVE  \E ids \in [Macs -> Sources] :
                    /\ identifier' = [identifier EXCEPT ![a] = ids]
                    /\ \A k \in Macs : /\ ids[k] = "scanner" => identifier[a][k] = "scanner"
                                       /\ identifier[a][k] # "none" => ids[k] # "none"
      <4> DEFINE new == [k \in Macs |-> IF k = n THEN "manual" ELSE IF k = m THEN "incorrect" ELSE identifier[a][k]]
      <4>1. identifier' = [identifier EXCEPT ![a] = new]
        <5>1. identifier \in [AssetIds -> [Macs -> Sources]]
          BY <1>0 DEF InventoryTypeOK, Sources
        <5> QED BY <2>1, <3>2, <5>1
      <4>2. new \in [Macs -> Sources]
        BY <2>1 DEF Sources
      <4>3. \A k \in Macs : new[k] = IF k = n THEN "manual" ELSE IF k = m THEN "incorrect" ELSE identifier[a][k]
        OBVIOUS
      <4> HIDE DEF new
      <4> QED BY <4>1, <4>2, <4>3
    <3> QED BY <1>2, <3>1, <3>2 DEF CorrectIdentifier
  <2>3. InventoryTypeOK'
    BY <1>0, <2>0, <2>2 DEF InventoryTypeOK, Sources
  <2>4. \A b \in AssetIds : identifier'[b] = IF b = a THEN ids ELSE identifier[b]
    BY <1>0, <2>2 DEF InventoryTypeOK
  <2>5. AssetHolds(assetRow[a], ids, ObservedMacs(observations, a), devices[a])
    <3>1. ObservedMacs(observations, a) \in SUBSET Macs
      BY <1>0, ObservedType
    <3> QED BY <1>0, <2>1, <2>2, <3>1 DEF AssetHolds, InventoryProjected
  <2>6. \A b \in AssetIds : AssetHolds(assetRow'[b], identifier'[b], ObservedMacs(observations', b), devices'[b])
    BY <1>0, <2>0, <2>4, <2>5
  <2>7. \A b \in AssetIds : ~assetRow[b].exists => assetRow[b].into = 0
    BY <1>0 DEF AssetHolds, Absent
  <2> QED BY <1>0, <2>0, <2>3, <2>6, <2>7, StepHolds
<1> QED BY <1>1, <1>2

\* reassociate_observations and split_observations_to_new_asset: both assets
\* are rebuilt from the observations they hold then.
LEMMA ReassociateSteps ==
    ASSUME InventoryInv, NEW o \in observations,
           SplitObservation(o) \/ \E t \in AssetIds : ReassociateObservation(o, t)
    PROVE  InventoryInv'
<1>0. InventoryTypeOK
      /\ \A a \in AssetIds : AssetHolds(assetRow[a], identifier[a], ObservedMacs(observations, a), devices[a])
      /\ \A d \in DeviceRuns \X Macs : decisions[d] # 0 => assetRow[decisions[d]].exists
  BY DEF InventoryInv
<1>1. o \in Observation /\ o.asset \in AssetIds /\ o.mac \in Macs
  BY <1>0 DEF InventoryTypeOK, Observation
<1>2. ASSUME NEW t \in AssetIds, t # o.asset, NEW row \in InventoryRow, NEW rowsBefore,
             rowsBefore = [assetRow EXCEPT ![t] = row], row.exists, row.into = 0,
             assetRow[t].exists => assetRow[t].into = 0, o.asset \in Unmerged,
             Reassociated(o, o.asset, t, rowsBefore)
      PROVE  InventoryInv'
  <2> DEFINE s == o.asset
             moved == [o EXCEPT !.asset = t]
             table == (observations \ {o}) \cup {moved}
             sids == Rebuilt(identifier[s], ObservedMacs(table, s))
             tids == Rebuilt(identifier[t], ObservedMacs(table, t))
             srow == [assetRow[s] EXCEPT !.seen = ObservedMacs(table, s) # {}]
             trow == [row EXCEPT !.seen = TRUE]
  <2>1. assetRow \in [AssetIds -> InventoryRow] /\ identifier \in [AssetIds -> [Macs -> Sources]] /\ s \in AssetIds
        /\ assetRow[s].exists /\ assetRow[s].into = 0 /\ observations \subseteq Observation
    BY <1>0, <1>1, <1>2 DEF InventoryTypeOK, Sources, InventoryRow, Unmerged
  <2>2. moved \in Observation /\ moved.asset = t /\ moved.mac = o.mac
    BY <1>1 DEF Observation
  <2> HIDE DEF moved
  <2>3. observations' = table /\ UNCHANGED <<decisions, devices>>
        /\ identifier' = [identifier EXCEPT ![s] = sids, ![t] = tids]
    BY <1>2 DEF Reassociated, moved
  <2>4. assetRow' = [assetRow EXCEPT ![t] = trow, ![s] = srow]
    <3>1. assetRow' = [rowsBefore EXCEPT ![s].seen = ObservedMacs(table, s) # {}, ![t].seen = TRUE]
      BY <1>2 DEF Reassociated, moved
    <3>2. rowsBefore \in [AssetIds -> InventoryRow] /\ rowsBefore[s] = assetRow[s] /\ rowsBefore[t] = row
      BY <1>2, <2>1
    <3>3. assetRow' = [rowsBefore EXCEPT ![s] = srow, ![t] = trow]
      BY <1>2, <2>1, <3>1, <3>2
    <3> HIDE DEF srow, trow
    <3> QED BY <1>2, <2>1, <3>2, <3>3
  <2>5. table \subseteq Observation
    BY <2>1, <2>2
  <2>6. ObservedMacs(table, s) \in SUBSET Macs /\ ObservedMacs(table, t) \in SUBSET Macs
    BY <2>5 DEF ObservedMacs, Observation
  <2>7. ObservedMacs(table, t) # {}
    BY <2>2 DEF ObservedMacs
  <2>8. \A a \in AssetIds : a # s /\ a # t => ObservedMacs(table, a) = ObservedMacs(observations, a)
    BY <2>2 DEF ObservedMacs
  <2> HIDE DEF table
  <2>9. /\ sids \in [Macs -> Sources] /\ tids \in [Macs -> Sources]
        /\ {m \in Macs : sids[m] = "scanner"} \subseteq ObservedMacs(table, s)
        /\ {m \in Macs : tids[m] = "scanner"} \subseteq ObservedMacs(table, t)
        /\ \A m \in ObservedMacs(table, s) : sids[m] # "none"
        /\ \A m \in ObservedMacs(table, t) : tids[m] # "none"
    BY <2>1, <2>6, RebuiltIsProjected
  <2>10. /\ srow \in InventoryRow /\ srow.exists /\ srow.into = 0 /\ (srow.seen <=> ObservedMacs(table, s) # {})
         /\ trow \in InventoryRow /\ trow.exists /\ trow.into = 0 /\ trow.seen
    <3>1. assetRow[s] \in InventoryRow
      BY <2>1
    <3>2. \A x \in InventoryRow, b \in BOOLEAN : /\ [x EXCEPT !.seen = b] \in InventoryRow /\ [x EXCEPT !.seen = b].exists = x.exists
                                        /\ [x EXCEPT !.seen = b].into = x.into /\ [x EXCEPT !.seen = b].seen = b
      BY DEF InventoryRow
    <3>3. (ObservedMacs(table, s) # {}) \in BOOLEAN /\ TRUE \in BOOLEAN
      OBVIOUS
    <3> QED BY <1>2, <2>1, <3>1, <3>2, <3>3
  <2> HIDE DEF sids, tids, srow, trow
  <2>11. \A a \in AssetIds : /\ assetRow'[a] = IF a = s THEN srow ELSE IF a = t THEN trow ELSE assetRow[a]
                             /\ identifier'[a] = IF a = t THEN tids ELSE IF a = s THEN sids ELSE identifier[a]
                             /\ devices'[a] = devices[a]
    BY <1>2, <2>1, <2>3, <2>4
  <2>12. InventoryTypeOK'
    <3>1. assetRow' \in [AssetIds -> InventoryRow] /\ identifier' \in [AssetIds -> [Macs -> Sources]]
      BY <2>1, <2>3, <2>4, <2>9, <2>10
    <3> QED BY <1>0, <2>3, <2>5, <3>1 DEF InventoryTypeOK, InventoryRow, Sources
  <2>13. AssetHolds(srow, sids, ObservedMacs(table, s), devices[s])
    BY <2>9, <2>10 DEF AssetHolds, InventoryProjected
  <2>14. AssetHolds(trow, tids, ObservedMacs(table, t), devices[t])
    BY <2>7, <2>9, <2>10 DEF AssetHolds, InventoryProjected
  <2>15. \A a \in AssetIds : AssetHolds(assetRow'[a], identifier'[a], ObservedMacs(observations', a), devices'[a])
    <3> TAKE a \in AssetIds
    <3>1. CASE a = s
      <4>1. assetRow'[a] = srow /\ identifier'[a] = sids /\ devices'[a] = devices[s]
        BY <1>2, <2>11, <3>1
      <4> QED BY <2>3, <2>13, <3>1, <4>1
    <3>2. CASE a = t
      <4>1. assetRow'[a] = trow /\ identifier'[a] = tids /\ devices'[a] = devices[t]
        BY <1>2, <2>11, <3>2
      <4> QED BY <2>3, <2>14, <3>2, <4>1
    <3>3. CASE a # s /\ a # t
      BY <1>0, <2>3, <2>8, <2>11, <3>3
    <3> QED BY <3>1, <3>2, <3>3
  <2>16. \A a \in AssetIds : assetRow[a].exists => assetRow'[a].exists /\ assetRow'[a].into = assetRow[a].into
    BY <1>2, <2>1, <2>10, <2>11
  <2>17. \A a \in AssetIds : ~assetRow[a].exists => assetRow'[a].into = 0
    BY <1>0, <2>10, <2>11 DEF AssetHolds, Absent
  <2>18. \A d \in DeviceRuns \X Macs : decisions'[d] # 0 => assetRow'[decisions'[d]].exists
    BY <1>0, <2>3, <2>16 DEF InventoryTypeOK
  <2> QED BY <2>12, <2>15, <2>16, <2>17, <2>18, StepHolds
<1>3. ASSUME NEW t \in AssetIds, ReassociateObservation(o, t) PROVE InventoryInv'
  <2>1. o.asset \in Unmerged /\ t \in Unmerged \ {o.asset} /\ Reassociated(o, o.asset, t, assetRow)
    BY <1>3 DEF ReassociateObservation
  <2>2. assetRow[t] \in InventoryRow /\ assetRow[t].exists /\ assetRow[t].into = 0
    BY <1>0, <2>1 DEF InventoryTypeOK, InventoryRow, Unmerged
  <2>3. assetRow = [assetRow EXCEPT ![t] = assetRow[t]]
    BY <1>0 DEF InventoryTypeOK
  <2> QED BY <1>2, <2>1, <2>2, <2>3
<1>4. ASSUME SplitObservation(o) PROVE InventoryInv'
  <2> DEFINE row == [exists |-> TRUE, into |-> 0, seen |-> FALSE]
  <2>1. o.asset \in Unmerged /\ NewId \in AssetIds /\ ~assetRow[NewId].exists
        /\ Reassociated(o, o.asset, NewId, Added(FALSE))
    BY <1>4, NewIdIsUnused DEF SplitObservation
  <2>2. NewId # o.asset
    BY <2>1 DEF Unmerged
  <2>3. row \in InventoryRow /\ row.exists /\ row.into = 0
    BY DEF InventoryRow
  <2>4. Added(FALSE) = [assetRow EXCEPT ![NewId] = row]
    BY DEF Added
  <2> HIDE DEF row
  <2> QED BY <1>2, <2>1, <2>2, <2>3, <2>4
<1> QED BY <1>3, <1>4

\* merge_assets: the target is rebuilt, and the source points to it.
LEMMA InventoryMergeSteps ==
    ASSUME InventoryInv, NEW t \in AssetIds, NEW s \in AssetIds, MergeAssets(t, s)
    PROVE  InventoryInv'
<1>0. InventoryTypeOK
      /\ \A a \in AssetIds : AssetHolds(assetRow[a], identifier[a], ObservedMacs(observations, a), devices[a])
      /\ \A d \in DeviceRuns \X Macs : decisions[d] # 0 => assetRow[decisions[d]].exists
  BY DEF InventoryInv
<1> DEFINE table == Moved(observations, s, t)
           taken == {m \in Macs : identifier[t][m] = "none"}
           ids == [m \in Macs |-> IF m \in taken THEN identifier[s][m] ELSE identifier[t][m]]
           tids == Rebuilt(ids, ObservedMacs(table, t))
           sids == [m \in Macs |-> IF m \in taken THEN "none" ELSE identifier[s][m]]
           srow == [assetRow[s] EXCEPT !.into = t, !.seen = ObservedMacs(table, s) # {}]
           trow == [assetRow[t] EXCEPT !.seen = ObservedMacs(table, t) # {}]
           tdevs == devices[t] \cup devices[s]
<1>1. assetRow \in [AssetIds -> InventoryRow] /\ identifier \in [AssetIds -> [Macs -> Sources]]
      /\ observations \subseteq Observation /\ devices \in [AssetIds -> SUBSET Macs]
      /\ t # s /\ assetRow[s].exists /\ assetRow[s].into = 0 /\ assetRow[t].exists /\ assetRow[t].into = 0
  BY <1>0 DEF InventoryTypeOK, Sources, InventoryRow, MergeAssets, MayMerge, Unmerged
<1>2. observations' = table /\ UNCHANGED decisions
      /\ identifier' = [identifier EXCEPT ![t] = tids, ![s] = sids]
      /\ devices' = [devices EXCEPT ![t] = tdevs, ![s] = {}]
  BY DEF MergeAssets
<1>3. assetRow' = [assetRow EXCEPT ![s] = srow, ![t] = trow]
  <2> DEFINE x == ObservedMacs(table, s) # {}
             y == ObservedMacs(table, t) # {}
  <2>1. assetRow' = [assetRow EXCEPT ![s].into = t, ![s].seen = x, ![t].seen = y]
    BY DEF MergeAssets
  <2> HIDE DEF x, y
  <2>2. assetRow' = [assetRow EXCEPT ![s] = [assetRow[s] EXCEPT !.into = t, !.seen = x],
                                     ![t] = [assetRow[t] EXCEPT !.seen = y]]
    BY <1>1, <2>1
  <2> QED BY <2>2 DEF x, y
<1>4. table \subseteq Observation
  <2>1. \A o \in observations : o \in Observation /\ [o EXCEPT !.asset = t] \in Observation
    BY <1>1 DEF Observation
  <2> QED BY <2>1 DEF Moved
<1>5. \A a \in AssetIds : a # s /\ a # t => ObservedMacs(table, a) = ObservedMacs(observations, a)
  <2>1. \A o \in observations : [o EXCEPT !.asset = t].asset = t
    BY <1>1 DEF Observation
  <2> SUFFICES ASSUME NEW a \in AssetIds, a # s, a # t
               PROVE  {o \in table : o.asset = a} = {o \in observations : o.asset = a}
    BY DEF ObservedMacs
  <2>2. \A o \in table : o.asset = a => o \in observations
    BY <2>1 DEF Moved
  <2>3. \A o \in observations : o.asset = a => o \in table
    BY DEF Moved
  <2> QED BY <2>2, <2>3
<1> HIDE DEF table
<1>6. ObservedMacs(table, s) \in SUBSET Macs /\ ObservedMacs(table, t) \in SUBSET Macs
  BY <1>4 DEF ObservedMacs, Observation
<1>7. ids \in [Macs -> Sources] /\ sids \in [Macs -> Sources]
  BY <1>1 DEF Sources
<1> HIDE DEF ids, sids
<1>8. /\ tids \in [Macs -> Sources]
      /\ {m \in Macs : tids[m] = "scanner"} \subseteq ObservedMacs(table, t)
      /\ \A m \in ObservedMacs(table, t) : tids[m] # "none"
  BY <1>6, <1>7, RebuiltIsProjected
<1>9. /\ srow \in InventoryRow /\ srow.exists /\ srow.into = t
      /\ trow \in InventoryRow /\ trow.exists /\ trow.into = 0 /\ (trow.seen <=> ObservedMacs(table, t) # {})
      /\ t # 0 /\ tdevs \in SUBSET Macs
  <2>1. \A z \in InventoryRow, b \in BOOLEAN :
           /\ [z EXCEPT !.seen = b] \in InventoryRow /\ [z EXCEPT !.seen = b].exists = z.exists
           /\ [z EXCEPT !.seen = b].into = z.into /\ [z EXCEPT !.seen = b].seen = b
    BY DEF InventoryRow
  <2>2. assetRow[s] \in InventoryRow /\ assetRow[t] \in InventoryRow /\ t # 0 /\ tdevs \in SUBSET Macs
    BY <1>1
  <2> DEFINE x == ObservedMacs(table, s) # {}
             y == ObservedMacs(table, t) # {}
  <2>3. x \in BOOLEAN /\ y \in BOOLEAN
    OBVIOUS
  <2> HIDE DEF x, y
  <2>4. /\ [assetRow[s] EXCEPT !.into = t, !.seen = x] \in InventoryRow
        /\ [assetRow[s] EXCEPT !.into = t, !.seen = x].exists = assetRow[s].exists
        /\ [assetRow[s] EXCEPT !.into = t, !.seen = x].into = t
    <3> DEFINE z == assetRow[s]
    <3>1. z \in InventoryRow
      BY <2>2
    <3> HIDE DEF z
    <3>2. [z EXCEPT !.into = t, !.seen = x] \in InventoryRow
      BY <2>3, <3>1 DEF InventoryRow
    <3>3. [z EXCEPT !.into = t, !.seen = x].exists = z.exists
          /\ [z EXCEPT !.into = t, !.seen = x].into = t
      BY <3>1 DEF InventoryRow
    <3> QED BY <3>2, <3>3 DEF z
  <2>5. /\ [assetRow[t] EXCEPT !.seen = y] \in InventoryRow
        /\ [assetRow[t] EXCEPT !.seen = y].exists = assetRow[t].exists
        /\ [assetRow[t] EXCEPT !.seen = y].into = assetRow[t].into
        /\ [assetRow[t] EXCEPT !.seen = y].seen = y
    BY <2>1, <2>2, <2>3
  <2>6. srow = [assetRow[s] EXCEPT !.into = t, !.seen = x] /\ trow = [assetRow[t] EXCEPT !.seen = y]
        /\ y = (ObservedMacs(table, t) # {})
    BY DEF x, y
  <2> HIDE DEF srow, trow
  <2>7. srow \in InventoryRow /\ srow.exists = assetRow[s].exists /\ srow.into = t
        /\ trow \in InventoryRow /\ trow.exists = assetRow[t].exists /\ trow.into = assetRow[t].into /\ trow.seen = y
    BY <2>4, <2>5, <2>6
  <2> QED BY <1>1, <2>2, <2>6, <2>7
<1> HIDE DEF tids, srow, trow, tdevs
<1>10. \A a \in AssetIds :
          /\ assetRow'[a] = IF a = t THEN trow ELSE IF a = s THEN srow ELSE assetRow[a]
          /\ identifier'[a] = IF a = s THEN sids ELSE IF a = t THEN tids ELSE identifier[a]
          /\ devices'[a] = IF a = s THEN {} ELSE IF a = t THEN tdevs ELSE devices[a]
  BY <1>1, <1>2, <1>3
<1>11. InventoryTypeOK'
  <2>1. assetRow' \in [AssetIds -> InventoryRow] /\ identifier' \in [AssetIds -> [Macs -> Sources]]
        /\ devices' \in [AssetIds -> SUBSET Macs]
    BY <1>1, <1>2, <1>3, <1>7, <1>8, <1>9
  <2> QED BY <1>0, <1>2, <1>4, <2>1 DEF InventoryTypeOK, InventoryRow, Sources
<1>12. AssetHolds(srow, sids, ObservedMacs(table, s), {})
  BY <1>9 DEF AssetHolds
<1>13. AssetHolds(trow, tids, ObservedMacs(table, t), tdevs)
  BY <1>8, <1>9 DEF AssetHolds, InventoryProjected
<1>14. \A a \in AssetIds : AssetHolds(assetRow'[a], identifier'[a], ObservedMacs(observations', a), devices'[a])
  BY <1>0, <1>1, <1>2, <1>5, <1>10, <1>12, <1>13
<1>15. ASSUME NEW a \in AssetIds, assetRow'[a].exists PROVE \E n, path : Chain(assetRow', a, n, path)
  <2>1. assetRow[a].exists
    BY <1>1, <1>10, <1>15
  <2>2. PICK n, path : Chain(assetRow, a, n, path)
    BY <2>1 DEF InventoryInv
  <2>3. assetRow'[s].into = t /\ assetRow'[t].into = 0 /\ assetRow'[t].exists
        /\ \A b \in AssetIds \ {s, t} : assetRow'[b] = assetRow[b]
    BY <1>1, <1>9, <1>10
  <2> QED BY <1>0, <1>1, <2>2, <2>3, ChainsGrow
<1>16. \A d \in DeviceRuns \X Macs : decisions'[d] # 0 => assetRow'[decisions'[d]].exists
  BY <1>0, <1>1, <1>2, <1>9, <1>10 DEF InventoryTypeOK
<1> QED BY <1>11, <1>14, <1>15, <1>16 DEF InventoryInv

\* The invariant holds in every reachable state.
LEMMA InventoryInvHolds == InitInventory /\ [][NextInventory]_inventoryVars => []InventoryInv
<1>1. InitInventory => InventoryInv
  <2> SUFFICES ASSUME InitInventory PROVE InventoryInv
    OBVIOUS
  <2>1. InventoryTypeOK
    BY DEF InitInventory, InventoryTypeOK, Absent
  <2>2. \A a \in AssetIds : assetRow[a] = Absent /\ ~assetRow[a].exists
    BY DEF InitInventory, Absent
  <2>3. \A a \in AssetIds : AssetHolds(assetRow[a], identifier[a], ObservedMacs(observations, a), devices[a])
    BY <2>2 DEF InitInventory, AssetHolds, Absent, ObservedMacs
  <2>4. \A d \in DeviceRuns \X Macs : decisions[d] = 0
    BY DEF InitInventory
  <2> QED BY <2>1, <2>2, <2>3, <2>4 DEF InventoryInv
<1>2. InventoryInv /\ [NextInventory]_inventoryVars => InventoryInv'
  <2> SUFFICES ASSUME InventoryInv, [NextInventory]_inventoryVars PROVE InventoryInv'
    OBVIOUS
  <2>1. CASE UNCHANGED inventoryVars
    BY <2>1 DEF inventoryVars, InventoryInv, InventoryTypeOK
  <2> QED BY <2>1, ReportSteps, StaffSteps, ReassociateSteps, InventoryMergeSteps DEF NextInventory
<1> QED BY <1>1, <1>2, PTL

\* Type correctness of assets, identifiers, observations and decisions.
THEOREM InventoryTypeCorrect == InitInventory /\ [][NextInventory]_inventoryVars => []InventoryTypeOK
<1>1. InventoryInv => InventoryTypeOK
  BY DEF InventoryInv
<1> QED BY <1>1, InventoryInvHolds, PTL

\* The current facts of an asset are those of the observations it holds now,
\* whatever was merged, split, moved or corrected.
THEOREM FactsFollowObservations ==
    InitInventory /\ [][NextInventory]_inventoryVars => []ProjectionFollowsObservations
<1>1. InventoryInv => ProjectionFollowsObservations
  BY DEF InventoryInv, ProjectionFollowsObservations, Unmerged, AssetHolds, InventoryProjected
<1> QED BY <1>1, InventoryInvHolds, PTL

\* A stored decision leads, along the merges since, to an asset that is not
\* merged, in no more steps than there are assets.
THEOREM DecisionsStayResolved == InitInventory /\ [][NextInventory]_inventoryVars => []DecisionsResolve
<1>1. InventoryInv => DecisionsResolve
  <2> SUFFICES ASSUME InventoryInv PROVE DecisionsResolve
    OBVIOUS
  <2>1. ASSUME NEW d \in DeviceRuns \X Macs, decisions[d] # 0
        PROVE  \E n \in 1 .. Cardinality(AssetIds) :
                  \E path \in [1 .. n -> AssetIds] :
                      /\ path[1] = decisions[d] /\ path[n] \in Unmerged
                      /\ \A i \in 1 .. n - 1 : path[i + 1] = Follow[path[i]]
    <3>1. decisions[d] \in AssetIds /\ assetRow[decisions[d]].exists
      BY <2>1 DEF InventoryInv, InventoryTypeOK
    <3>2. PICK n, path : Chain(assetRow, decisions[d], n, path)
      BY <3>1 DEF InventoryInv
    <3>3. n \in Nat \ {0} /\ path \in [1 .. n -> AssetIds] /\ path[1] = decisions[d]
          /\ \A i, j \in 1 .. n : path[i] = path[j] => i = j
      BY <3>2 DEF Chain
    <3>4. n \in 1 .. Cardinality(AssetIds)
      <4>1. path \in Injection(1 .. n, AssetIds)
        BY <3>3 DEF Injection, IsInjective
      <4>2. Cardinality(1 .. n) <= Cardinality(AssetIds)
        BY <4>1, InventoryAssumption, FS_Injection
      <4>3. Cardinality(1 .. n) = n
        BY <3>3, FS_Interval
      <4>4. Cardinality(AssetIds) \in Nat
        BY InventoryAssumption, FS_CardinalityType
      <4> QED BY <3>3, <4>2, <4>3, <4>4
    <3>5. path[n] \in Unmerged
      BY <3>2, <3>3 DEF Chain, Unmerged
    <3>6. \A i \in 1 .. n - 1 : path[i + 1] = Follow[path[i]]
      <4> TAKE i \in 1 .. n - 1
      <4>1. path[i] \in AssetIds /\ path[i + 1] \in AssetIds
        BY <3>3
      <4>2. assetRow[path[i]].into = path[i + 1] /\ path[i + 1] # 0
        BY <3>2, <4>1 DEF Chain
      <4> QED BY <4>1, <4>2 DEF Follow
    <3> QED BY <3>3, <3>4, <3>5, <3>6
  <2>2. \A a \in AssetIds : assetRow[a].into # 0 => devices[a] = {}
    BY DEF InventoryInv, AssetHolds
  <2> QED BY <2>1, <2>2 DEF DecisionsResolve
<1> QED BY <1>1, InventoryInvHolds, PTL

HIDE InventoryAssumption

-----------------------------------------------------------------------------
(* Correlation: a host is linked to an asset no other name contests *)

\* The candidates of a report are well typed after every step.
LEMMA CandidateSteps == CorrelationTypeOK /\ [NextCorrelation]_correlationVars => CorrelationTypeOK'
<1> SUFFICES ASSUME CorrelationTypeOK, [NextCorrelation]_correlationVars PROVE CorrelationTypeOK'
  OBVIOUS
<1> USE DEF CorrelationTypeOK
<1>1. CASE ChooseScope
  BY <1>1 DEF ChooseScope
<1>2. CASE AddCandidate
  BY <1>2 DEF AddCandidate
<1>3. CASE UNCHANGED correlationVars
  BY <1>3 DEF correlationVars
<1> QED BY <1>1, <1>2, <1>3 DEF NextCorrelation

\* A score is a number.
LEMMA ScoreType == CorrelationTypeOK => \A i \in Ids : ScoreOf(i) \in Int
<1> SUFFICES ASSUME CorrelationTypeOK, NEW i \in Ids PROVE ScoreOf(i) \in Int
  OBVIOUS
<1>1. candidates[i] \in Candidate
  BY DEF CorrelationTypeOK, Ids
<1>2. NameScore(candidates[i]) \in Int
  BY <1>1 DEF Candidate, Names, NameScore
<1>3. candidates[i].corroboration \in Int
  <2>1. candidates[i].corroboration \in Corroborations
    BY <1>1 DEF Candidate
  <2>2. \A n \in Corroborations : n \in Int
    BY CorrelationAssumption
  <2> QED BY <2>1, <2>2
<1>4. (IF candidates[i].strong THEN 70 ELSE 0) \in Int /\ (IF candidates[i].site THEN 10 ELSE 0) \in Int
  OBVIOUS
<1> QED BY <1>2, <1>3, <1>4 DEF ScoreOf

\* Every set of candidates has a first one, the best of them by score.
LEMMA FirstIsBest ==
    ASSUME CorrelationTypeOK, NEW S \in SUBSET Ids, S # {}
    PROVE  First(S) \in S /\ \A j \in S : ScoreOf(First(S)) >= ScoreOf(j)
<1> DEFINE Leads(i, T) == \A j \in T : ScoreOf(i) > ScoreOf(j) \/ (ScoreOf(i) = ScoreOf(j) /\ i <= j)
           F == {T \in SUBSET S : T = {} \/ \E i \in T : Leads(i, T)}
<1>1. Ids \subseteq Nat /\ IsFiniteSet(Ids)
  <2>1. Ids = 1 .. Len(candidates) /\ Len(candidates) \in Nat
    BY DEF Ids, CorrelationTypeOK
  <2> QED BY <2>1, FS_Interval
<1>2. IsFiniteSet(S)
  BY <1>1, FS_Subset
<1>3. {} \in F
  OBVIOUS
<1>4. \A T \in SUBSET S, x \in S : T \in F => T \cup {x} \in F
  <2> SUFFICES ASSUME NEW T \in SUBSET S, NEW x \in S, T \in F PROVE T \cup {x} \in F
    OBVIOUS
  <2>0. \A i \in S : ScoreOf(i) \in Int /\ i \in Nat
    BY <1>1, ScoreType
  <2>1. CASE T = {}
    <3>1. Leads(x, T \cup {x})
      BY <2>1, <2>0
    <3> QED BY <3>1
  <2>2. CASE T # {}
    <3>1. PICK i \in T : Leads(i, T)
      BY <2>2
    <3>2. CASE ScoreOf(i) > ScoreOf(x) \/ (ScoreOf(i) = ScoreOf(x) /\ i <= x)
      <4>1. Leads(i, T \cup {x})
        BY <3>1, <3>2
      <4> HIDE DEF Leads
      <4> QED BY <4>1
    <3>3. CASE ScoreOf(x) > ScoreOf(i) \/ (ScoreOf(i) = ScoreOf(x) /\ x <= i)
      <4>1. Leads(x, T \cup {x})
        BY <3>1, <3>3, <2>0
      <4> HIDE DEF Leads
      <4> QED BY <4>1
    <3> QED BY <3>2, <3>3, <2>0
  <2> QED BY <2>1, <2>2
<1>5. S \in F
  <2> HIDE DEF F
  <2> QED BY <1>2, <1>3, <1>4, FiniteInduction
<1>6. \E i \in S : Leads(i, S)
  BY <1>5
<1>7. First(S) \in S /\ Leads(First(S), S)
  BY <1>6 DEF First
<1>8. ScoreOf(First(S)) \in Int /\ \A j \in S : ScoreOf(j) \in Int
  BY <1>7, ScoreType
<1> QED BY <1>7, <1>8

\* What decide selects is what the property says.
LEMMA SelectionIsUnrivalled == CorrelationTypeOK => LinkIsUnrivalled
<1> SUFFICES ASSUME CorrelationTypeOK, Selected # 0
             PROVE  /\ \/ candidates[Selected].strong
                       \/ Named(Selected) /\ candidates[Selected].corroboration > 0
                    /\ \A j \in Viable \ {Selected} :
                           BlocksAuto(Selected, j) =>
                               /\ ScoreOf(j) < 40
                               /\ \E k \in Viable \ {Selected} :
                                      ScoreOf(k) >= ScoreOf(j) /\ ~BlocksAuto(Selected, k)
  BY DEF LinkIsUnrivalled
<1>1. EligibleAuto # {} /\ Selected = First(EligibleAuto)
      /\ (Rivals(Selected) # {} => ~BlocksAuto(Selected, First(Rivals(Selected))))
  BY DEF Selected
<1>2. EligibleAuto \subseteq Ids /\ Viable \subseteq Ids /\ EligibleAuto \subseteq Viable
  BY DEF EligibleAuto, Viable
<1>3. Selected \in EligibleAuto
  BY <1>1, <1>2, FirstIsBest
<1>4. candidates[Selected].strong \/ (Named(Selected) /\ candidates[Selected].corroboration > 0)
  BY <1>3 DEF EligibleAuto, Qualifies
<1>5. ASSUME NEW j \in Viable \ {Selected}, BlocksAuto(Selected, j)
      PROVE  /\ ScoreOf(j) < 40
             /\ \E k \in Viable \ {Selected} :
                    ScoreOf(k) >= ScoreOf(j) /\ ~BlocksAuto(Selected, k)
  <2> DEFINE k == First(Rivals(Selected))
  <2>1. j \in Rivals(Selected) /\ Rivals(Selected) \in SUBSET Ids
    BY <1>2 DEF Rivals
  <2>2. k \in Rivals(Selected) /\ ScoreOf(k) >= ScoreOf(j)
    BY <2>1, FirstIsBest
  <2>3. ~BlocksAuto(Selected, k)
    BY <1>1, <2>1
  <2> HIDE DEF k
  <2>4. ScoreOf(k) \in Int /\ ScoreOf(j) \in Int /\ ScoreOf(Selected) \in Int
    BY <2>1, <2>2, <1>2, <1>3, ScoreType
  <2>5. ScoreOf(Selected) - ScoreOf(j) < 15
    BY <1>5 DEF BlocksAuto
  <2>6. ScoreOf(Selected) - ScoreOf(k) < 15
    BY <2>2, <2>4, <2>5
  <2>7. ~(ScoreOf(k) >= 40)
    BY <2>3, <2>6 DEF BlocksAuto
  <2>8. ScoreOf(j) < 40
    BY <2>2, <2>4, <2>7
  <2>9. k \in Viable \ {Selected}
    BY <2>2 DEF Rivals
  <2> QED BY <2>2, <2>3, <2>8, <2>9
<1> QED BY <1>4, <1>5

\* Type correctness of the candidates of a report.
THEOREM CorrelationTypeCorrect ==
    InitCorrelation /\ [][NextCorrelation]_correlationVars => []CorrelationTypeOK
<1>1. InitCorrelation => CorrelationTypeOK
  BY DEF InitCorrelation, CorrelationTypeOK
<1> QED BY <1>1, CandidateSteps, PTL

\* A report is linked on a strong identifier or a corroborated name, and a
\* rival that would make the match ambiguous is overlooked only below the
\* review threshold, behind one that would not.
THEOREM LinksAreUnrivalled ==
    InitCorrelation /\ [][NextCorrelation]_correlationVars => []LinkIsUnrivalled
<1> QED BY CorrelationTypeCorrect, SelectionIsUnrivalled, PTL

-----------------------------------------------------------------------------
(* FindingPriority: a priority is that of the factors it was last given *)

PriorityKinds == {"nvd", "epss", "kev", "rename", "criticality", "tag", "ingest", "merge", "recalculate"}

\* An open transaction is of one of the kinds and changes what its kind may.
OpenShape(t) ==
    /\ t = [kind |-> t.kind, change |-> t.change, priorities |-> t.priorities, crossed |-> t.crossed]
    /\ t.kind \in PriorityKinds /\ IsChange(t.kind, t.change)
    /\ PerFinding(t.priorities, Bands) /\ t.crossed \in BOOLEAN

\* What a transaction that no other has crossed is about to store: the priority
\* of the factors it leaves, for every finding whose priority they change and
\* that it does not overlook.
Recalculates(t, f) ==
    LET after == Applied(f, t.kind, t.change) IN
    t.kind # "tag" =>
       \A v \in ScoredCves \ Overlooked(t) :
          IF v \in DOMAIN t.priorities THEN t.priorities[v] = Priority(after, v)
          ELSE Priority(after, v) = Priority(f, v)

PriorityInv ==
    /\ PriorityTypeOK
    /\ tx = [s \in Sessions |-> tx[s]]
    /\ \A s \in Sessions : tx[s] # Closed => OpenShape(tx[s]) /\ (~tx[s].crossed => Recalculates(tx[s], Now))
    /\ PriorityFollowsFactors

\* A band is one of P1 to P4.
LEMMA PriorityIsBand == \A f, v : Priority(f, v) \in Bands
<1> SUFFICES ASSUME NEW f, NEW v PROVE Priority(f, v) \in Bands
  OBVIOUS
<1> DEFINE a == Band(Score(f, v))
           b == FloorBand(f.intel[v].cvss, f.evidence[v].severity)
<1>1. a \in Bands /\ b \in Bands
  BY DEF Band, FloorBand, Bands
<1>2. Priority(f, v) \in {1, Min({a, b})}
  BY DEF Priority
<1> HIDE DEF a, b
<1>3. Min({a, b}) \in {a, b}
  <2>1. \E x \in {a, b} : \A y \in {a, b} : x <= y
    BY <1>1 DEF Bands
  <2> QED BY <2>1 DEF Min
<1> QED BY <1>1, <1>2, <1>3 DEF Bands

\* The priority of a finding depends on its own factors and the asset's only.
LEMMA PriorityOfFactors ==
    ASSUME NEW f, NEW g, NEW v, f.intel[v] = g.intel[v], f.asset = g.asset, f.evidence[v] = g.evidence[v]
    PROVE  Priority(f, v) = Priority(g, v)
<1>1. Score(f, v) = Score(g, v)
  BY DEF Score
<1> QED BY <1>1 DEF Priority

\* The columns that a change leaves alone, for each kind.
LEMMA AppliedFactors ==
    ASSUME Now \in Factors, NEW kind \in PriorityKinds, NEW change
    PROVE  /\ kind \in {"nvd", "epss", "kev", "rename"} =>
                 /\ Applied(Now, kind, change).asset = owner /\ Applied(Now, kind, change).evidence = scored
                 /\ \A v \in ScoredCves : v \notin DOMAIN change => Applied(Now, kind, change).intel[v] = intel[v]
           /\ kind = "ingest" =>
                 /\ Applied(Now, kind, change).asset = owner /\ Applied(Now, kind, change).intel = intel
                 /\ \A v \in ScoredCves : v \notin DOMAIN change => Applied(Now, kind, change).evidence[v] = scored[v]
           /\ kind = "recalculate" => Applied(Now, kind, change) = Now
<1>1. CASE kind = "nvd"
  BY <1>1 DEF Applied, Now
<1>2. CASE kind = "epss"
  BY <1>2 DEF Applied, Now
<1>3. CASE kind = "kev"
  BY <1>3 DEF Applied, Now
<1>4. CASE kind = "rename"
  BY <1>4 DEF Applied, Now
<1>5. CASE kind = "ingest"
  BY <1>5 DEF Applied, Now, WithDetections
<1>6. CASE kind = "recalculate"
  BY <1>6 DEF Applied
<1>7. CASE kind \in {"criticality", "tag", "merge"}
  BY <1>7
<1> QED BY <1>1, <1>2, <1>3, <1>4, <1>5, <1>6, <1>7 DEF PriorityKinds

\* Detections leave the evidence of every finding typed.
LEMMA DetectionsType ==
    ASSUME NEW found, PerFinding(found, Detection),
           scored \in [ScoredCves -> [severity : Severities, wan : BOOLEAN, days : {0} \cup Ages]]
    PROVE  WithDetections(scored, found) \in [ScoredCves -> [severity : Severities, wan : BOOLEAN, days : {0} \cup Ages]]
<1> DEFINE row(v) == [scored[v] EXCEPT !.severity = found[v].severity, !.wan = scored[v].wan \/ found[v].wan]
<1>1. \A v \in ScoredCves : v \in DOMAIN found =>
         row(v) \in [severity : Severities, wan : BOOLEAN, days : {0} \cup Ages]
  <2> TAKE v \in ScoredCves
  <2> HAVE v \in DOMAIN found
  <2>1. found[v].severity \in Severities /\ (scored[v].wan \/ found[v].wan) \in BOOLEAN
    BY DEF PerFinding, Detection
  <2>2. \A a \in Severities, w \in BOOLEAN : [scored[v] EXCEPT !.severity = a, !.wan = w]
              \in [severity : Severities, wan : BOOLEAN, days : {0} \cup Ages]
    OBVIOUS
  <2> QED BY <2>1, <2>2
<1>2. WithDetections(scored, found) = [v \in ScoredCves |-> IF v \in DOMAIN found THEN row(v) ELSE scored[v]]
  BY DEF WithDetections
<1> HIDE DEF row
<1> QED BY <1>1, <1>2

\* A change of its kind leaves the factors typed.
LEMMA AppliedType ==
    ASSUME Now \in Factors, NEW kind \in PriorityKinds, NEW change, IsChange(kind, change)
    PROVE  LET after == Applied(Now, kind, change) IN
           after = [intel |-> after.intel, asset |-> after.asset, evidence |-> after.evidence] /\ after \in Factors
<1>0. /\ intel \in [ScoredCves -> Intel] /\ owner \in Owner
      /\ scored \in [ScoredCves -> [severity : Severities, wan : BOOLEAN, days : {0} \cup Ages]]
  BY DEF Now, Factors
<1>1. CASE kind = "nvd"
  <2> DEFINE new == [v \in ScoredCves |-> IF v \in DOMAIN change THEN [intel[v] EXCEPT !.cvss = change[v]] ELSE intel[v]]
  <2>1. new \in [ScoredCves -> Intel]
    BY <1>0, <1>1 DEF Intel, IsChange, PerFinding
  <2>2. Applied(Now, kind, change) = [intel |-> new, asset |-> owner, evidence |-> scored]
    BY <1>1 DEF Applied, Now
  <2> HIDE DEF new
  <2> QED BY <1>0, <2>1, <2>2 DEF Factors
<1>2. CASE kind = "epss"
  <2> DEFINE new == [v \in ScoredCves |-> IF v \in DOMAIN change THEN [intel[v] EXCEPT !.epss = change[v]] ELSE intel[v]]
  <2>1. new \in [ScoredCves -> Intel]
    BY <1>0, <1>2 DEF Intel, IsChange, PerFinding
  <2>2. Applied(Now, kind, change) = [intel |-> new, asset |-> owner, evidence |-> scored]
    BY <1>2 DEF Applied, Now
  <2> HIDE DEF new
  <2> QED BY <1>0, <2>1, <2>2 DEF Factors
<1>3. CASE kind = "kev"
  <2> DEFINE new == [v \in ScoredCves |-> IF v \in DOMAIN change THEN [intel[v] EXCEPT !.kev = change[v]] ELSE intel[v]]
  <2>1. new \in [ScoredCves -> Intel]
    <3> SUFFICES ASSUME NEW v \in ScoredCves PROVE new[v] \in Intel
      OBVIOUS
    <3>1. intel[v] \in Intel
      BY <1>0
    <3>2. v \in DOMAIN change => change[v] \in {"yes", "no"}
      BY <1>3 DEF IsChange, PerFinding
    <3> QED BY <3>1, <3>2 DEF Intel
  <2>2. Applied(Now, kind, change) = [intel |-> new, asset |-> owner, evidence |-> scored]
    BY <1>3 DEF Applied, Now
  <2> HIDE DEF new
  <2> QED BY <1>0, <2>1, <2>2 DEF Factors
<1>4. CASE kind = "criticality"
  <2>1. Applied(Now, kind, change) = [intel |-> intel, asset |-> [owner EXCEPT !.criticality = change], evidence |-> scored]
    BY <1>4 DEF Applied, Now
  <2>2. [owner EXCEPT !.criticality = change] \in Owner
    BY <1>0, <1>4 DEF IsChange, Owner
  <2> QED BY <1>0, <2>1, <2>2 DEF Factors
<1>5. CASE kind = "tag"
  <2>1. Applied(Now, kind, change) = [intel |-> intel, asset |-> [owner EXCEPT !.cui = change], evidence |-> scored]
    BY <1>5 DEF Applied, Now
  <2>2. [owner EXCEPT !.cui = change] \in Owner
    BY <1>0, <1>5 DEF IsChange, Owner
  <2> QED BY <1>0, <2>1, <2>2 DEF Factors
<1>6. CASE kind = "ingest"
  <2> DEFINE new == WithDetections(scored, change)
  <2>1. new \in [ScoredCves -> [severity : Severities, wan : BOOLEAN, days : {0} \cup Ages]]
    BY <1>0, <1>6, DetectionsType DEF IsChange
  <2>2. Applied(Now, kind, change) = [intel |-> intel, asset |-> owner, evidence |-> new]
    BY <1>6 DEF Applied, Now
  <2> HIDE DEF new
  <2> QED BY <1>0, <2>1, <2>2 DEF Factors
<1>7. CASE kind = "merge"
  <2> DEFINE new == WithDetections(scored, change.evidence)
  <2>1. change.asset \in Owner /\ new \in [ScoredCves -> [severity : Severities, wan : BOOLEAN, days : {0} \cup Ages]]
    BY <1>0, <1>7, DetectionsType DEF IsChange
  <2>2. Applied(Now, kind, change) = [intel |-> intel, asset |-> change.asset, evidence |-> new]
    BY <1>7 DEF Applied, Now
  <2> HIDE DEF new
  <2> QED BY <1>0, <2>1, <2>2 DEF Factors
<1>8. CASE kind = "rename"
  <2> DEFINE new == [v \in ScoredCves |-> IF v \in DOMAIN change THEN change[v] ELSE intel[v]]
  <2>1. new \in [ScoredCves -> Intel]
    BY <1>0, <1>8 DEF IsChange, PerFinding
  <2>2. Applied(Now, kind, change) = [intel |-> new, asset |-> owner, evidence |-> scored]
    BY <1>8 DEF Applied, Now
  <2> HIDE DEF new
  <2> QED BY <1>0, <2>1, <2>2 DEF Factors
<1>9. CASE kind = "recalculate"
  <2>1. Applied(Now, kind, change) = [intel |-> intel, asset |-> owner, evidence |-> scored]
    BY <1>9 DEF Applied, Now
  <2> QED BY <1>0, <2>1 DEF Factors
<1> QED BY <1>1, <1>2, <1>3, <1>4, <1>5, <1>6, <1>7, <1>8, <1>9 DEF PriorityKinds

\* A transaction that opens knows what it is about to store.
LEMMA OpensRight ==
    ASSUME PriorityInv, NEW s \in Sessions, NEW kind \in PriorityKinds, NEW change, NEW seen, NEW vs \in SUBSET ScoredCves,
           IsChange(kind, change), Transaction(s, kind, change, seen, vs),
           kind # "tag" => \A v \in vs : Priority(seen, v) = Priority(Applied(Now, kind, change), v),
           kind \notin {"tag", "merge"} =>
              \A v \in ScoredCves \ vs :
                 (kind = "rename" /\ v \in DOMAIN change) \/ Priority(Applied(Now, kind, change), v) = Priority(Now, v)
    PROVE  PriorityInv'
<1> DEFINE new == [kind |-> kind, change |-> change, priorities |-> Recalculated(seen, vs), crossed |-> FALSE]
<1>1. tx' = [tx EXCEPT ![s] = new] /\ UNCHANGED <<intel, owner, scored, priority, drifted>>
  BY DEF Transaction
<1>2. /\ DOMAIN Recalculated(seen, vs) = vs /\ \A v \in vs : Recalculated(seen, vs)[v] = Priority(seen, v)
      /\ PerFinding(Recalculated(seen, vs), Bands)
  BY PriorityIsBand DEF Recalculated, PerFinding
<1>3. new.kind = kind /\ new.change = change /\ new.priorities = Recalculated(seen, vs) /\ new.crossed = FALSE
      /\ OpenShape(new)
  BY <1>2 DEF OpenShape
<1>4. Recalculates(new, Now)
  <2> HIDE DEF new
  <2>1. Overlooked(new) = IF kind = "rename" THEN DOMAIN change \ vs ELSE IF kind = "merge" THEN ScoredCves \ vs ELSE {}
    BY <1>2, <1>3 DEF Overlooked
  <2> QED BY <1>2, <1>3, <2>1 DEF Recalculates
<1> HIDE DEF new
<1>5. tx = [u \in Sessions |-> tx[u]] /\ PriorityTypeOK /\ PriorityFollowsFactors
  BY DEF PriorityInv
<1>6. tx' = [u \in Sessions |-> tx'[u]] /\ \A u \in Sessions : tx'[u] = IF u = s THEN new ELSE tx[u]
  BY <1>1, <1>5
<1>7. Now' = Now
  BY <1>1 DEF Now
<1>8. ASSUME NEW u \in Sessions, tx'[u] # Closed
      PROVE  OpenShape(tx'[u]) /\ (~tx'[u].crossed => Recalculates(tx'[u], Now'))
  <2>1. CASE u = s
    <3>1. tx'[u] = new
      BY <1>6, <2>1
    <3> QED BY <1>3, <1>4, <1>7, <3>1
  <2>2. CASE u # s
    <3>1. tx'[u] = tx[u]
      BY <1>6, <2>2
    <3>2. tx[u] # Closed
      BY <1>8, <3>1
    <3> QED BY <1>7, <3>1, <3>2 DEF PriorityInv
  <2> QED BY <2>1, <2>2
<1>9. PriorityTypeOK'
  BY <1>1, <1>5, <1>7, <1>8 DEF PriorityTypeOK, OpenShape
<1>10. PriorityFollowsFactors'
  BY <1>1, <1>5, <1>7 DEF PriorityFollowsFactors
<1> QED BY <1>6, <1>8, <1>9, <1>10 DEF PriorityInv

\* The steps that open a transaction.
LEMMA OpenSteps ==
    ASSUME PriorityInv, NEW s \in Sessions,
           \/ \E parsed \in ParsedNvd : RefreshNvd(s, parsed)
           \/ \E records \in EpssDatasets : RefreshEpss(s, records)
           \/ \E listing \in KevCatalogs : RefreshKev(s, listing)
           \/ \E c \in Criticalities : ChangeCriticality(s, c)
           \/ ChangeCuiTag(s) \/ AgePass(s)
           \/ \E v \in ScoredCves, severity \in Severities, wan \in BOOLEAN : IngestEvidence(s, v, severity, wan)
           \/ \E v \in ScoredCves, i \in Renamings, elsewhere \in BOOLEAN : RenameFinding(s, v, i, elsewhere)
           \/ \E o \in MergeTargets : \E vs \in SUBSET ScoredCves : \E met \in [vs -> Detection] : MergeUnder(s, o, met)
           \/ \E v \in ScoredCves : TreatFinding(s, v)
    PROVE  PriorityInv'
<1>0. Now \in Factors
  BY DEF PriorityInv, PriorityTypeOK
<1>1. Now.intel = intel /\ Now.asset = owner /\ Now.evidence = scored
  BY DEF Now
<1>2. ASSUME NEW kind \in {"nvd", "epss", "kev", "rename"}, NEW change, NEW v \in ScoredCves,
             Applied(Now, kind, change).intel[v] = intel[v]
      PROVE  Priority(Applied(Now, kind, change), v) = Priority(Now, v)
  <2> DEFINE after == Applied(Now, kind, change)
  <2>1. after.asset = owner /\ after.evidence = scored
    BY <1>0, AppliedFactors DEF PriorityKinds
  <2> HIDE DEF after
  <2>2. after.intel[v] = Now.intel[v] /\ after.asset = Now.asset /\ after.evidence[v] = Now.evidence[v]
    BY <1>1, <1>2, <2>1 DEF after
  <2>3. Priority(after, v) = Priority(Now, v)
    BY <2>2, PriorityOfFactors
  <2> QED BY <2>3 DEF after
<1>3. ASSUME NEW parsed \in ParsedNvd, RefreshNvd(s, parsed) PROVE PriorityInv'
  <2>1. PICK vs \in SUBSET ScoredCves : parsed \in [vs -> SelectedCvss]
    BY DEF ParsedNvd
  <2>2. DOMAIN parsed = vs /\ IsChange("nvd", parsed)
    BY <2>1 DEF IsChange, PerFinding, SelectedCvss
  <2>3. Transaction(s, "nvd", parsed, Applied(Now, "nvd", parsed), vs)
    BY <1>3, <2>2 DEF RefreshNvd
  <2>4. \A v \in ScoredCves \ vs : Applied(Now, "nvd", parsed).intel[v] = intel[v]
    BY <1>0, <2>2, AppliedFactors DEF PriorityKinds
  <2>5. \A v \in ScoredCves \ vs : Priority(Applied(Now, "nvd", parsed), v) = Priority(Now, v)
    BY <1>2, <2>4
  <2> QED BY <2>2, <2>3, <2>5, OpensRight DEF PriorityKinds
<1>4. ASSUME NEW records \in EpssDatasets, RefreshEpss(s, records) PROVE PriorityInv'
  <2> DEFINE after == Applied(Now, "epss", records)
  <2>1. IsChange("epss", records)
    BY DEF EpssDatasets, IsChange, PerFinding
  <2>2. Transaction(s, "epss", records, after, Affected(after)) /\ Affected(after) \in SUBSET ScoredCves
    BY <1>4 DEF RefreshEpss, Affected
  <2>3. \A v \in ScoredCves \ Affected(after) : after.intel[v] = intel[v]
    BY DEF Affected
  <2>4. \A v \in ScoredCves \ Affected(after) : Priority(after, v) = Priority(Now, v)
    BY <1>2, <2>3
  <2> QED BY <2>1, <2>2, <2>4, OpensRight DEF PriorityKinds
<1>5. ASSUME NEW listing \in KevCatalogs, RefreshKev(s, listing) PROVE PriorityInv'
  <2> DEFINE told == IF listing.complete THEN ScoredCves ELSE listing.listed
             flags == [v \in told |-> IF v \in listing.listed THEN "yes" ELSE "no"]
             after == Applied(Now, "kev", flags)
  <2>1. told \subseteq ScoredCves
    BY DEF KevCatalogs
  <2>2. IsChange("kev", flags)
    <3>1. DOMAIN flags = told /\ \A v \in told : flags[v] \in {"yes", "no"}
      OBVIOUS
    <3> HIDE DEF flags, told
    <3> QED BY <2>1, <3>1 DEF IsChange, PerFinding
  <2>3. Transaction(s, "kev", flags, after, Affected(after)) /\ Affected(after) \in SUBSET ScoredCves
    BY <1>5 DEF RefreshKev, KevAffected, Affected
  <2> HIDE DEF flags, told
  <2>4. \A v \in ScoredCves \ Affected(after) : after.intel[v] = intel[v]
    BY DEF Affected
  <2>5. \A v \in ScoredCves \ Affected(after) : Priority(after, v) = Priority(Now, v)
    BY <1>2, <2>4
  <2> QED BY <2>2, <2>3, <2>5, OpensRight DEF PriorityKinds
<1>6. ASSUME NEW c \in Criticalities, ChangeCriticality(s, c) PROVE PriorityInv'
  <2>1. Transaction(s, "criticality", c, Applied(Now, "criticality", c), ScoredCves) /\ IsChange("criticality", c)
    BY <1>6 DEF ChangeCriticality, IsChange
  <2> QED BY <2>1, OpensRight DEF PriorityKinds
<1>7. ASSUME ChangeCuiTag(s) PROVE PriorityInv'
  <2>1. Transaction(s, "tag", ~owner.cui, Now, ScoredCves) /\ IsChange("tag", ~owner.cui)
    BY <1>7 DEF ChangeCuiTag, IsChange
  <2> QED BY <2>1, OpensRight DEF PriorityKinds
<1>8. ASSUME NEW vs \in SUBSET ScoredCves, Transaction(s, "recalculate", 0, Now, vs) PROVE PriorityInv'
  <2>1. IsChange("recalculate", 0)
    BY DEF IsChange
  <2>2. Applied(Now, "recalculate", 0) = Now
    BY <1>0, AppliedFactors DEF PriorityKinds
  <2> QED BY <1>8, <2>1, <2>2, OpensRight DEF PriorityKinds
<1>9. ASSUME NEW v \in ScoredCves, NEW severity \in Severities, NEW wan \in BOOLEAN,
             IngestEvidence(s, v, severity, wan)
      PROVE  PriorityInv'
  <2> DEFINE found == [u \in {v} |-> [severity |-> severity, wan |-> wan]]
             after == Applied(Now, "ingest", found)
  <2>1. Transaction(s, "ingest", found, after, {v})
    BY <1>9 DEF IngestEvidence
  <2>2. IsChange("ingest", found) /\ DOMAIN found = {v}
    <3>1. [severity |-> severity, wan |-> wan] \in Detection
      BY DEF Detection
    <3>2. DOMAIN found = {v} /\ \A u \in DOMAIN found : found[u] \in Detection
      BY <3>1
    <3> HIDE DEF found
    <3> QED BY <3>2 DEF IsChange, PerFinding
  <2> HIDE DEF found
  <2>3. after.asset = Now.asset /\ after.intel = Now.intel
        /\ \A u \in ScoredCves \ {v} : after.evidence[u] = Now.evidence[u]
    BY <1>0, <1>1, <2>2, AppliedFactors DEF PriorityKinds
  <2> HIDE DEF after
  <2>4. \A u \in ScoredCves \ {v} : Priority(after, u) = Priority(Now, u)
    BY <2>3, PriorityOfFactors
  <2> QED BY <2>1, <2>2, <2>4, OpensRight DEF PriorityKinds, after
<1>10. ASSUME NEW v \in ScoredCves, NEW i \in Renamings, NEW elsewhere \in BOOLEAN, RenameFinding(s, v, i, elsewhere)
      PROVE  PriorityInv'
  <2> DEFINE renamed == [u \in {v} |-> i]
             after == Applied(Now, "rename", renamed)
             vs == IF elsewhere THEN {} ELSE {v}
  <2>1. Transaction(s, "rename", renamed, after, vs) /\ vs \in SUBSET ScoredCves
    BY <1>10 DEF RenameFinding
  <2>2. IsChange("rename", renamed) /\ DOMAIN renamed = {v}
    BY MovesAssumption DEF IsChange, PerFinding
  <2> HIDE DEF renamed, vs
  <2>3. \A u \in ScoredCves : u \in DOMAIN renamed \/ after.intel[u] = intel[u]
    BY <1>0, AppliedFactors DEF PriorityKinds
  <2>4. \A u \in ScoredCves : u \in DOMAIN renamed \/ Priority(after, u) = Priority(Now, u)
    BY <1>2, <2>3
  <2> HIDE DEF after
  <2> QED BY <2>1, <2>2, <2>4, OpensRight DEF PriorityKinds, after
<1>11. ASSUME NEW o \in MergeTargets, NEW vs \in SUBSET ScoredCves, NEW met \in [vs -> Detection], MergeUnder(s, o, met)
      PROVE  PriorityInv'
  <2> DEFINE change == [asset |-> o, evidence |-> met]
             after == Applied(Now, "merge", change)
  <2>1. DOMAIN met = vs /\ \A v \in vs : met[v] \in Detection
    OBVIOUS
  <2>2. Transaction(s, "merge", change, after, vs)
    BY <1>11, <2>1 DEF MergeUnder, MergeRecalculates
  <2>3. IsChange("merge", change)
    BY <2>1, MovesAssumption DEF IsChange, PerFinding
  <2> HIDE DEF change
  <2> QED BY <2>2, <2>3, OpensRight DEF PriorityKinds
<1>12. AgePass(s) \/ (\E v \in ScoredCves : TreatFinding(s, v)) => PriorityInv'
  <2>1. AgePass(s) => PriorityInv'
    BY <1>8 DEF AgePass
  <2>2. ASSUME NEW v \in ScoredCves, TreatFinding(s, v) PROVE PriorityInv'
    BY <1>8, <2>2 DEF TreatFinding
  <2> QED BY <2>1, <2>2
<1> QED BY <1>3, <1>4, <1>5, <1>6, <1>7, <1>9, <1>10, <1>11, <1>12

\* CommitTx: what is stored is the priority of the factors that are left.
LEMMA CommitSteps ==
    ASSUME PriorityInv, NEW s \in Sessions, CommitTx(s)
    PROVE  PriorityInv'
<1> DEFINE t == tx[s]
           after == Applied(Now, t.kind, t.change)
<1>0. /\ t # Closed /\ intel' = after.intel /\ owner' = after.asset /\ scored' = after.evidence
      /\ priority' = [v \in ScoredCves |-> IF v \in DOMAIN t.priorities THEN t.priorities[v] ELSE priority[v]]
      /\ tx' = [u \in Sessions |-> IF u = s \/ tx[u] = Closed THEN Closed ELSE [tx[u] EXCEPT !.crossed = TRUE]]
      /\ drifted' = [v \in ScoredCves |-> Drift(t, v)]
  BY DEF CommitTx
<1>1. OpenShape(t) /\ (~t.crossed => Recalculates(t, Now)) /\ PriorityTypeOK /\ PriorityFollowsFactors
  BY <1>0 DEF PriorityInv
<1>2. after = [intel |-> after.intel, asset |-> after.asset, evidence |-> after.evidence] /\ after \in Factors
  BY <1>1, AppliedType DEF OpenShape, PriorityTypeOK
<1>3. Now' = after
  <2> HIDE DEF after
  <2> QED BY <1>0, <1>2 DEF Now
<1>4. ASSUME NEW u \in Sessions, tx'[u] # Closed
      PROVE  OpenShape(tx'[u]) /\ tx'[u].crossed
  <2>1. tx[u] # Closed /\ tx'[u] = [tx[u] EXCEPT !.crossed = TRUE]
    BY <1>0, <1>4
  <2>2. OpenShape(tx[u])
    BY <2>1 DEF PriorityInv
  <2> DEFINE x == tx[u]
  <2>3. x = [kind |-> x.kind, change |-> x.change, priorities |-> x.priorities, crossed |-> x.crossed]
    BY <2>2 DEF OpenShape
  <2>4. tx'[u] = [kind |-> x.kind, change |-> x.change, priorities |-> x.priorities, crossed |-> TRUE]
    BY <2>1, <2>3
  <2>5. tx'[u].kind = x.kind /\ tx'[u].change = x.change /\ tx'[u].priorities = x.priorities /\ tx'[u].crossed = TRUE
    BY <2>4
  <2> QED BY <2>2, <2>4, <2>5 DEF OpenShape
<1>5. priority' \in [ScoredCves -> Bands]
  BY <1>0, <1>1 DEF OpenShape, PerFinding, PriorityTypeOK
<1>6. PriorityTypeOK'
  <2>1. drifted' \in [ScoredCves -> {"no", "tagged", "yes"}]
    <3>1. \A v \in ScoredCves : drifted[v] \in {"no", "tagged", "yes"}
      BY <1>1 DEF PriorityTypeOK
    <3>2. \A v \in ScoredCves : Drift(t, v) \in {"no", "tagged", "yes"}
      BY <3>1 DEF Drift
    <3> QED BY <1>0, <3>2
  <2>2. Now' \in Factors
    BY <1>2, <1>3
  <2> QED BY <1>4, <1>5, <2>1, <2>2 DEF PriorityTypeOK, OpenShape
<1>7. PriorityFollowsFactors'
  <2> SUFFICES ASSUME NEW v \in ScoredCves, drifted'[v] = "no" PROVE priority'[v] = Priority(Now', v)
    BY DEF PriorityFollowsFactors
  <2>1. Drift(t, v) = "no"
    BY <1>0
  <2>2. ~t.crossed /\ v \notin Overlooked(t) /\ t.kind # "tag" /\ (v \in DOMAIN t.priorities \/ drifted[v] = "no")
    BY <2>1 DEF Drift
  <2>3. Recalculates(t, Now)
    BY <1>1, <2>2
  <2>4. CASE v \in DOMAIN t.priorities
    <3>1. t.priorities[v] = Priority(after, v)
      BY <2>2, <2>3, <2>4 DEF Recalculates
    <3> QED BY <1>0, <1>3, <2>4, <3>1
  <2>5. CASE v \notin DOMAIN t.priorities
    <3>1. Priority(after, v) = Priority(Now, v)
      BY <2>2, <2>3, <2>5 DEF Recalculates
    <3>2. priority[v] = Priority(Now, v)
      BY <1>1, <2>2, <2>5 DEF PriorityFollowsFactors
    <3> QED BY <1>0, <1>3, <2>5, <3>1, <3>2
  <2> QED BY <2>4, <2>5
<1>8. tx' = [u \in Sessions |-> tx'[u]]
  BY <1>0
<1> QED BY <1>4, <1>6, <1>7, <1>8 DEF PriorityInv

\* The other steps: a transaction that fails, and the passing of time.
LEMMA PriorityOtherSteps ==
    ASSUME PriorityInv, (\E s \in Sessions : RollBackTx(s)) \/ FindingsAge \/ UNCHANGED priorityVars
    PROVE  PriorityInv'
<1>0. PriorityTypeOK /\ PriorityFollowsFactors /\ tx = [u \in Sessions |-> tx[u]]
  BY DEF PriorityInv
<1>1. ASSUME NEW s \in Sessions, RollBackTx(s) PROVE PriorityInv'
  <2>1. tx' = [tx EXCEPT ![s] = Closed] /\ UNCHANGED <<intel, owner, scored, priority, drifted>>
    BY <1>1 DEF RollBackTx
  <2>2. tx' = [u \in Sessions |-> tx'[u]] /\ \A u \in Sessions : tx'[u] = IF u = s THEN Closed ELSE tx[u]
    BY <1>0, <2>1
  <2>3. Now' = Now
    BY <2>1 DEF Now
  <2>4. ASSUME NEW u \in Sessions, tx'[u] # Closed
        PROVE  OpenShape(tx'[u]) /\ (~tx'[u].crossed => Recalculates(tx'[u], Now'))
    <3>1. tx'[u] = tx[u]
      BY <2>2, <2>4
    <3> QED BY <2>3, <2>4, <3>1 DEF PriorityInv
  <2>5. PriorityTypeOK'
    BY <1>0, <2>1, <2>3, <2>4 DEF PriorityTypeOK, OpenShape
  <2>6. PriorityFollowsFactors'
    BY <1>0, <2>1, <2>3 DEF PriorityFollowsFactors
  <2> QED BY <2>2, <2>4, <2>5, <2>6 DEF PriorityInv
<1>2. CASE FindingsAge
  <2>1. PICK days \in Ages : scored' = [v \in ScoredCves |-> [scored[v] EXCEPT !.days = days]]
    BY <1>2 DEF FindingsAge
  <2>2. /\ tx' = [s \in Sessions |-> IF tx[s] = Closed THEN Closed ELSE [tx[s] EXCEPT !.crossed = TRUE]]
        /\ drifted' = [v \in ScoredCves |-> "yes"] /\ UNCHANGED <<intel, owner, priority>>
    BY <1>2 DEF FindingsAge
  <2>3. scored \in [ScoredCves -> [severity : Severities, wan : BOOLEAN, days : {0} \cup Ages]]
        /\ intel \in [ScoredCves -> Intel] /\ owner \in Owner
    BY <1>0 DEF PriorityTypeOK, Now, Factors
  <2>4. scored' \in [ScoredCves -> [severity : Severities, wan : BOOLEAN, days : {0} \cup Ages]]
    BY <2>1, <2>3
  <2>5. Now' \in Factors
    <3>1. Now' = [intel |-> intel, asset |-> owner, evidence |-> scored']
      BY <2>2 DEF Now
    <3> QED BY <2>3, <2>4, <3>1 DEF Factors
  <2>6. ASSUME NEW u \in Sessions, tx'[u] # Closed
        PROVE  OpenShape(tx'[u]) /\ tx'[u].crossed
    <3>1. tx[u] # Closed /\ tx'[u] = [tx[u] EXCEPT !.crossed = TRUE]
      BY <2>2, <2>6
    <3>2. OpenShape(tx[u])
      BY <3>1 DEF PriorityInv
    <3> DEFINE x == tx[u]
    <3>3. x = [kind |-> x.kind, change |-> x.change, priorities |-> x.priorities, crossed |-> x.crossed]
      BY <3>2 DEF OpenShape
    <3>4. tx'[u] = [kind |-> x.kind, change |-> x.change, priorities |-> x.priorities, crossed |-> TRUE]
      BY <3>1, <3>3
    <3>5. tx'[u].kind = x.kind /\ tx'[u].change = x.change /\ tx'[u].priorities = x.priorities /\ tx'[u].crossed = TRUE
      BY <3>4
    <3> QED BY <3>2, <3>4, <3>5 DEF OpenShape
  <2>7. PriorityTypeOK'
    BY <1>0, <2>2, <2>5, <2>6 DEF PriorityTypeOK, OpenShape
  <2>8. PriorityFollowsFactors' /\ tx' = [u \in Sessions |-> tx'[u]]
    BY <2>2 DEF PriorityFollowsFactors
  <2> QED BY <2>6, <2>7, <2>8 DEF PriorityInv
<1>3. CASE UNCHANGED priorityVars
  <2>1. Now' = Now /\ tx' = tx /\ priority' = priority /\ drifted' = drifted
    BY <1>3 DEF priorityVars, Now
  <2>2. \A u \in Sessions : tx'[u] # Closed => OpenShape(tx'[u]) /\ (~tx'[u].crossed => Recalculates(tx'[u], Now'))
    BY <2>1 DEF PriorityInv
  <2>3. PriorityTypeOK' /\ PriorityFollowsFactors'
    BY <1>0, <2>1 DEF PriorityTypeOK, PriorityFollowsFactors
  <2> QED BY <1>0, <2>1, <2>2, <2>3 DEF PriorityInv
<1> QED BY <1>1, <1>2, <1>3

\* The invariant holds in every reachable state.
LEMMA PriorityInvHolds == InitPriorities /\ [][NextPriorities]_priorityVars => []PriorityInv
<1>1. InitPriorities => PriorityInv
  <2> SUFFICES ASSUME InitPriorities PROVE PriorityInv
    OBVIOUS
  <2>1. Now \in Factors
    <3>1. intel \in [ScoredCves -> Intel]
      BY DEF InitPriorities, Intel
    <3>2. owner \in Owner
      BY PriorityAssumption DEF InitPriorities, Owner
    <3>3. scored \in [ScoredCves -> [severity : Severities, wan : BOOLEAN, days : {0} \cup Ages]]
      BY PriorityAssumption DEF InitPriorities
    <3> QED BY <3>1, <3>2, <3>3 DEF Now, Factors
  <2>2. priority \in [ScoredCves -> Bands] /\ \A v \in ScoredCves : priority[v] = Priority(Now, v)
    BY PriorityIsBand DEF InitPriorities
  <2>3. \A s \in Sessions : tx[s] = Closed
    BY DEF InitPriorities
  <2>4. tx = [s \in Sessions |-> tx[s]] /\ drifted = [v \in ScoredCves |-> "no"]
    BY DEF InitPriorities
  <2> QED BY <2>1, <2>2, <2>3, <2>4 DEF PriorityInv, PriorityTypeOK, PriorityFollowsFactors
<1>2. PriorityInv /\ [NextPriorities]_priorityVars => PriorityInv'
  BY OpenSteps, CommitSteps, PriorityOtherSteps DEF NextPriorities
<1> QED BY <1>1, <1>2, PTL

\* Type correctness of the factors, the priorities and the transactions.
THEOREM PriorityTypeCorrect == InitPriorities /\ [][NextPriorities]_priorityVars => []PriorityTypeOK
<1>1. PriorityInv => PriorityTypeOK
  BY DEF PriorityInv
<1> QED BY <1>1, PriorityInvHolds, PTL

\* A finding shows the priority of its factors, unless since its last
\* recalculation two transactions crossed, it grew older, its asset was tagged,
\* a report of another asset renamed it, or a merge put it under another asset.
THEOREM PrioritiesFollowFactors == InitPriorities /\ [][NextPriorities]_priorityVars => []PriorityFollowsFactors
<1>1. PriorityInv => PriorityFollowsFactors
  BY DEF PriorityInv
<1> QED BY <1>1, PriorityInvHolds, PTL
=============================================================================
