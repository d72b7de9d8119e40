--------------------------- MODULE MCServicesProofs -------------------------
(***************************************************************************)
(* The composition of the services takes no part beyond its own steps:     *)
(* what is proved of a part alone holds of it in every run of MCServices.  *)
(***************************************************************************)
EXTENDS MCServices, ScopeProofs, ServicesProofs, FindingsProofs, TLAPS

\* A step of the composition is one of a part, and no step of the others.
LEMMA PartSteps ==
    ASSUME [Next]_serviceVars
    PROVE  /\ [NextFindings]_findingVars
           /\ [NextCatalog]_catalogVars
           /\ [NextInventory]_inventoryVars
           /\ [NextCorrelation]_correlationVars
           /\ [NextOutbox]_outboxVars
           /\ [NextPolicies]_policyVars
           /\ [NextTreatments]_treatmentVars
           /\ [NextArtifacts]_artifactVars
           /\ [NextEnrollment]_enrollmentVars
           /\ [NextPipeline]_pipelineVars
           /\ [NextStaff]_staffVars
           /\ [NextLocality]_localityVars
           /\ [NextTargets]_targetVars
           /\ [NextPriorities]_priorityVars
           /\ [NextCompliance]_complianceVars
           /\ UNCHANGED part
<1>1. CASE UNCHANGED serviceVars
  BY <1>1 DEF serviceVars
<1>2. CASE part = "findings" /\ NextFindings /\ Rest("findings")
  BY <1>2 DEF Rest
<1>3. CASE part = "catalog" /\ NextCatalog /\ Rest("catalog")
  BY <1>3 DEF Rest
<1>4. CASE part = "inventory" /\ NextInventory /\ Rest("inventory")
  BY <1>4 DEF Rest
<1>5. CASE part = "correlation" /\ NextCorrelation /\ Rest("correlation")
  BY <1>5 DEF Rest
<1>6. CASE part = "outbox" /\ NextOutbox /\ Rest("outbox")
  BY <1>6 DEF Rest
<1>7. CASE part = "policies" /\ NextPolicies /\ Rest("policies")
  BY <1>7 DEF Rest
<1>8. CASE part = "treatments" /\ NextTreatments /\ Rest("treatments")
  BY <1>8 DEF Rest
<1>9. CASE part = "artifacts" /\ NextArtifacts /\ Rest("artifacts")
  BY <1>9 DEF Rest
<1>10. CASE part = "enrollment" /\ NextEnrollment /\ Rest("enrollment")
  BY <1>10 DEF Rest
<1>11. CASE part = "pipeline" /\ NextPipeline /\ Rest("pipeline")
  BY <1>11 DEF Rest
<1>12. CASE part = "staff" /\ NextStaff /\ Rest("staff")
  BY <1>12 DEF Rest
<1>13. CASE part = "locality" /\ NextLocality /\ Rest("locality")
  BY <1>13 DEF Rest
<1>14. CASE part = "targets" /\ NextTargets /\ Rest("targets")
  BY <1>14 DEF Rest
<1>15. CASE part = "priorities" /\ NextPriorities /\ Rest("priorities")
  BY <1>15 DEF Rest
<1>16. CASE part = "compliance" /\ NextCompliance /\ Rest("compliance")
  BY <1>16 DEF Rest
<1> QED BY <1>1, <1>2, <1>3, <1>4, <1>5, <1>6, <1>7, <1>8, <1>9, <1>10, <1>11, <1>12, <1>13, <1>14, <1>15, <1>16 DEF Next

\* Each part behaves as its own specification.
LEMMA PartsBehave ==
    Spec =>
        /\ InitFindings /\ [][NextFindings]_findingVars
        /\ InitCatalog /\ [][NextCatalog]_catalogVars
        /\ InitInventory /\ [][NextInventory]_inventoryVars
        /\ InitCorrelation /\ [][NextCorrelation]_correlationVars
        /\ InitOutbox /\ [][NextOutbox]_outboxVars
        /\ InitPolicies /\ [][NextPolicies]_policyVars
        /\ InitTreatments /\ [][NextTreatments]_treatmentVars
        /\ InitArtifacts /\ [][NextArtifacts]_artifactVars
        /\ InitEnrollment /\ [][NextEnrollment]_enrollmentVars
        /\ InitPipeline /\ [][NextPipeline]_pipelineVars
        /\ InitStaff /\ [][NextStaff]_staffVars
        /\ InitLocality /\ [][NextLocality]_localityVars
        /\ InitTargets /\ [][NextTargets]_targetVars
        /\ InitPriorities /\ [][NextPriorities]_priorityVars
        /\ InitCompliance /\ [][NextCompliance]_complianceVars
        /\ [](part \in Parts)
<1>1. Init => InitFindings /\ InitCatalog /\ InitInventory /\ InitCorrelation /\ InitOutbox
              /\ InitPolicies /\ InitTreatments /\ InitArtifacts /\ InitEnrollment /\ InitPipeline
              /\ InitStaff /\ InitLocality /\ InitTargets /\ InitPriorities /\ InitCompliance
              /\ part \in Parts
  BY DEF Init
<1>2. part \in Parts /\ [Next]_serviceVars => (part \in Parts)'
  BY PartSteps
<1> QED BY <1>1, <1>2, PartSteps, PTL DEF Spec

\* Every reachable state of every service is well typed, for any values of the
\* constants.
THEOREM ServicesTypeCorrect == Spec => []TypeOK
<1>1. Spec => []FindingTypeOK
  BY PartsBehave, FindingTypeCorrect, PTL
<1>2. Spec => []CatalogTypeOK
  <2>1. CatalogInv => CatalogTypeOK
    BY DEF CatalogInv, GoodTables, OpenCall, CatalogTypeOK
  <2> QED BY <2>1, PartsBehave, CatalogInvHolds, PTL DEF CatalogSpec
<1>3. Spec => []InventoryTypeOK
  BY PartsBehave, InventoryTypeCorrect, PTL
<1>4. Spec => []CorrelationTypeOK
  BY PartsBehave, CorrelationTypeCorrect, PTL
<1>5. Spec => []OutboxTypeOK
  BY PartsBehave, OutboxTypeCorrect, PTL DEF OutboxSpec
<1>6. Spec => []PolicyTypeOK
  BY PartsBehave, PolicyTypeCorrect, PTL
<1>7. Spec => []TreatmentTypeOK
  BY PartsBehave, TreatmentTypeCorrect, PTL DEF TreatmentSpec
<1>8. Spec => []ArtifactTypeOK
  BY PartsBehave, ArtifactTypeCorrect, PTL DEF ArtifactSpec
<1>9. Spec => []EnrollmentTypeOK
  BY PartsBehave, EnrollmentTypeCorrect, PTL DEF EnrollmentSpec
<1>10. Spec => []PipelineTypeOK
  BY PartsBehave, PipelineTypeCorrect, PTL DEF PipelineSpec
<1>11. Spec => []StaffTypeOK
  <2>1. StaffInv => StaffTypeOK
    BY DEF StaffInv
  <2> QED BY <2>1, PartsBehave, StaffInvHolds, PTL DEF StaffSpec
<1>12. Spec => []LocalityTypeOK
  BY PartsBehave, LocalityTypeCorrect, PTL DEF LocalitySpec
<1>13. Spec => []TargetTypeOK
  BY PartsBehave, TargetTypeCorrect, PTL DEF TargetSpec
<1>14. Spec => []PriorityTypeOK
  BY PartsBehave, PriorityTypeCorrect, PTL
<1>15. Spec => []ComplianceTypeOK
  BY PartsBehave, ComplianceTypeCorrect, PTL
<1>16. part \in Parts /\ FindingTypeOK /\ CatalogTypeOK /\ InventoryTypeOK /\ CorrelationTypeOK /\ OutboxTypeOK
     /\ PolicyTypeOK /\ TreatmentTypeOK /\ ArtifactTypeOK /\ EnrollmentTypeOK /\ PipelineTypeOK
     /\ StaffTypeOK /\ LocalityTypeOK /\ TargetTypeOK /\ PriorityTypeOK /\ ComplianceTypeOK => TypeOK
  BY PartsAssumption DEF TypeOK
<1> QED BY <1>1, <1>2, <1>3, <1>4, <1>5, <1>6, <1>7, <1>8, <1>9, <1>10, <1>11, <1>12, <1>13, <1>14, <1>15, <1>16, PartsBehave, PTL

\* What the runs check of the parts, in every run of the composition: nothing
\* resolved without clean runs (where runs on the same assets do not overlap),
\* no clean verdict against evidence, evidence and findings as mapped, assets
\* as observed and decided, priorities of their factors, links without a
\* rival, alerts that count their events, bounded deliveries, the strongest
\* policy, settled handling, projected acceptances, artifacts with their
\* bytes, bounded challenges and guesses, eligible preferences, coverage that
\* was scanned, nothing forbidden scanned, and mappings that survive a merge.
THEOREM ServicesKeepTheirProperties ==
    Spec => /\ ~Overlap => []ResolvedWasClean
            /\ [](CleanHasNoEvidence /\ EvidenceFollowsMapping /\ FindingIsSupported)
            /\ [](ProjectionFollowsObservations /\ DecisionsResolve /\ LinkIsUnrivalled)
            /\ [](PriorityFollowsFactors /\ AlertCountsItsEvents /\ SendsAreBounded)
            /\ [](WinnerIsStrongest /\ HandlingSettles /\ ActiveIsProjected)
            /\ [](StoredHasItsBytes /\ DoneHasItsEvidence /\ CoverageWasScanned)
            /\ [](ChallengesAreLimited /\ GuessesAreBounded /\ PreferenceIsEligible)
            /\ []ForbiddenIsNeverScanned
            /\ MappingsSurviveMerge
<1>1. ~Overlap => (Spec => []ResolvedWasClean)
  <2> SUFFICES ASSUME ~Overlap PROVE Spec => []ResolvedWasClean
    OBVIOUS
  <2> QED BY PartsBehave, ResolvedStaysClean, PTL
<1>2. Spec => []CleanHasNoEvidence /\ []EvidenceFollowsMapping /\ []FindingIsSupported
  BY PartsBehave, NoCleanWithEvidence, EvidenceKeepsToMapping, FindingsAreSupported, PTL DEF CatalogSpec
<1>3. Spec => []ProjectionFollowsObservations /\ []DecisionsResolve /\ []LinkIsUnrivalled
  BY PartsBehave, FactsFollowObservations, DecisionsStayResolved, LinksAreUnrivalled, PTL
<1>4. Spec => []PriorityFollowsFactors /\ []AlertCountsItsEvents /\ []SendsAreBounded
  BY PartsBehave, PrioritiesFollowFactors, AlertsCountTheirEvents, SendsStayBounded, PTL DEF OutboxSpec
<1>5. Spec => []WinnerIsStrongest /\ []HandlingSettles /\ []ActiveIsProjected
  BY PartsBehave, WinnersAreStrongest, HandlingIsSettled, ActiveIsTheProjection, PTL DEF TreatmentSpec
<1>6. Spec => []StoredHasItsBytes /\ []DoneHasItsEvidence /\ []CoverageWasScanned
  BY PartsBehave, StoredKeepsItsBytes, DoneKeepsItsEvidence, CoverageIsScanned, PTL DEF ArtifactSpec, PipelineSpec
<1>7. Spec => []ChallengesAreLimited /\ []GuessesAreBounded /\ []PreferenceIsEligible
  BY PartsBehave, ChallengesStayLimited, GuessesStayBounded, PreferencesAreEligible, PTL
     DEF EnrollmentSpec, StaffSpec, LocalitySpec
<1>8. Spec => []ForbiddenIsNeverScanned
  BY PartsBehave, ForbiddenNeverScanned, PTL DEF TargetSpec
<1>9. Spec => MappingsSurviveMerge
  BY PartsBehave, MergesKeepMappings, PTL
<1> QED BY <1>1, <1>2, <1>3, <1>4, <1>5, <1>6, <1>7, <1>8, <1>9, PTL
=============================================================================
