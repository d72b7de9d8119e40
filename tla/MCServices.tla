----------------------------- MODULE MCServices -----------------------------
(***************************************************************************)
(* The services around the run life cycle, which share no state with each  *)
(* other at the grain of their modules: a behaviour is of one of them.     *)
(***************************************************************************)
EXTENDS TLC, FindingLifecycle, DetectorCatalog, AssetInventory, Correlation, AlertOutbox, Policies,
        Treatments, RawArtifacts, AgentEnrollment, ScanPipeline, StaffAccess, Locality, RunTargets,
        FindingPriority, Compliance

CONSTANT Parts     \* the services that the run is about

ASSUME PartsAssumption ==
    Parts \subseteq {"findings", "catalog", "inventory", "correlation", "outbox", "policies", "treatments",
                     "artifacts", "enrollment", "pipeline", "staff", "locality", "targets", "priorities",
                     "compliance"}

\* A finding is renamed to a vulnerability that is new, and its asset merged
\* into one that weighs more.
MCRenamings == {[cvss |-> NoValue, epss |-> NoValue, kev |-> "unknown"]}
MCMergeTargets == {[criticality |-> "critical", cui |-> TRUE]}

\* Nothing tells one session from another.
SessionSymmetry == Permutations(Sessions)

VARIABLE part    \* the service that this behaviour is of

serviceVars == <<part, findingVars, catalogVars, inventoryVars, correlationVars, outboxVars,
                 policyVars, treatmentVars, artifactVars, enrollmentVars, pipelineVars, staffVars,
                 localityVars, targetVars, priorityVars, complianceVars>>

Init ==
    /\ part \in Parts
    /\ InitFindings /\ InitCatalog /\ InitInventory /\ InitCorrelation
    /\ InitOutbox /\ InitPolicies /\ InitTreatments /\ InitArtifacts
    /\ InitEnrollment /\ InitPipeline /\ InitStaff /\ InitLocality /\ InitTargets /\ InitPriorities
    /\ InitCompliance
    /\ part # "pipeline" => stages = CHOOSE s \in Stages : ValidStages(s)
    /\ part # "policies" => asset.site = "none"

Rest(p) ==
    /\ part = p /\ UNCHANGED part
    /\ IF p = "findings" THEN TRUE ELSE UNCHANGED findingVars
    /\ IF p = "catalog" THEN TRUE ELSE UNCHANGED catalogVars
    /\ IF p = "inventory" THEN TRUE ELSE UNCHANGED inventoryVars
    /\ IF p = "correlation" THEN TRUE ELSE UNCHANGED correlationVars
    /\ IF p = "outbox" THEN TRUE ELSE UNCHANGED outboxVars
    /\ IF p = "policies" THEN TRUE ELSE UNCHANGED policyVars
    /\ IF p = "treatments" THEN TRUE ELSE UNCHANGED treatmentVars
    /\ IF p = "artifacts" THEN TRUE ELSE UNCHANGED artifactVars
    /\ IF p = "enrollment" THEN TRUE ELSE UNCHANGED enrollmentVars
    /\ IF p = "pipeline" THEN TRUE ELSE UNCHANGED pipelineVars
    /\ IF p = "staff" THEN TRUE ELSE UNCHANGED staffVars
    /\ IF p = "locality" THEN TRUE ELSE UNCHANGED localityVars
    /\ IF p = "targets" THEN TRUE ELSE UNCHANGED targetVars
    /\ IF p = "priorities" THEN TRUE ELSE UNCHANGED priorityVars
    /\ IF p = "compliance" THEN TRUE ELSE UNCHANGED complianceVars

Next ==
    \/ part = "findings" /\ NextFindings /\ Rest("findings")
    \/ part = "catalog" /\ NextCatalog /\ Rest("catalog")
    \/ part = "inventory" /\ NextInventory /\ Rest("inventory")
    \/ part = "correlation" /\ NextCorrelation /\ Rest("correlation")
    \/ part = "outbox" /\ NextOutbox /\ Rest("outbox")
    \/ part = "policies" /\ NextPolicies /\ Rest("policies")
    \/ part = "treatments" /\ NextTreatments /\ Rest("treatments")
    \/ part = "artifacts" /\ NextArtifacts /\ Rest("artifacts")
    \/ part = "enrollment" /\ NextEnrollment /\ Rest("enrollment")
    \/ part = "pipeline" /\ NextPipeline /\ Rest("pipeline")
    \/ part = "staff" /\ NextStaff /\ Rest("staff")
    \/ part = "locality" /\ NextLocality /\ Rest("locality")
    \/ part = "targets" /\ NextTargets /\ Rest("targets")
    \/ part = "priorities" /\ NextPriorities /\ Rest("priorities")
    \/ part = "compliance" /\ NextCompliance /\ Rest("compliance")

Spec == Init /\ [][Next]_serviceVars

-----------------------------------------------------------------------------
\* Every table and request of the service in hand is well typed.
TypeOK ==
    CASE part = "findings" -> FindingTypeOK
      [] part = "catalog" -> CatalogTypeOK
      [] part = "inventory" -> InventoryTypeOK
      [] part = "correlation" -> CorrelationTypeOK
      [] part = "outbox" -> OutboxTypeOK
      [] part = "policies" -> PolicyTypeOK
      [] part = "treatments" -> TreatmentTypeOK
      [] part = "artifacts" -> ArtifactTypeOK
      [] part = "enrollment" -> EnrollmentTypeOK
      [] part = "pipeline" -> PipelineTypeOK
      [] part = "staff" -> StaffTypeOK
      [] part = "locality" -> LocalityTypeOK
      [] part = "targets" -> TargetTypeOK
      [] part = "priorities" -> PriorityTypeOK
      [] part = "compliance" -> ComplianceTypeOK
=============================================================================
