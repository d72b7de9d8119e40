\* The services around a run: what it may scan, which host is which asset, who
\* may act, and what follows.
CONSTANTS
    Parts = {"inventory", "correlation", "outbox", "treatments", "artifacts", "enrollment", "pipeline", "staff", "locality", "targets", "compliance"}
    ScanRuns = {1, 2, 3}
    Hosts = {1, 2}
    CleanScans = 2
    Overlap = FALSE
    Detectors = {"t1", "t2"}
    CVEs = {"c1", "c2"}
    KnownAssets = {"a", "b"}
    IngestRuns = {1, 2}
    MaxEvidence = 4
    AssetIds = {1, 2, 3}
    Macs = {"m", "n"}
    DeviceRuns = {1}
    MaxReports = 2
    Corroborations = {0, 15, 28, 38}
    MaxCandidates = 3
    Facts = {1, 2}
    Subjects = {"s"}
    Posts = {"a", "b"}
    MaxAttempts = 2
    RuleCount = 2
    MaxChanges = 1
    Scopes = {3, 4}
    PolicySites = {"s"}
    Networked = {"s"}
    Priorities = {0, 1}
    TreatmentIds = {1, 2}
    TreatedFindings = {"k", "d"}
    Uploads = {1, 2}
    Digests = {"d", "e"}
    AgentKeys = {"k", "x"}
    Nonces = {1, 2}
    AuthRequests = {"p", "q"}
    ChallengeLimit = 1
    Explicit = {"e"}
    Block = {"c", "d"}
    StaffTenants = {"t"}
    Logins = {1, 2}
    Edits = {1}
    FailureLimit = 1
    IpLimit = 3
    Sites = {"s", "u"}
    Networks = {1, 2}
    LanAgents = {"a", "b"}
    None = "none"
    Addresses = {1, 2, 3}
    Prohibited = {3}
    Cidr = {1, 2}
    Answers = {{}, {1}, {3}}
    Exclusions = {1, 2}
    Excludable = {{1}, {1, 2}}
    RowScopes = {"tenant", "site"}
    ScoredCves = {1}
    CvssScores = {95}
    Percentiles = {96}
    Severities = {"info"}
    Criticalities = {"normal", "critical"}
    Ages = {90}
    Renamings <- MCRenamings
    MergeTargets <- MCMergeTargets
    Sessions = {1, 2}
    Builtin = {"b"}
    Custom = {"c"}
    MappedFindings = {"f", "g"}
    ReferenceIds = {1, 2, 3}
SPECIFICATION Spec
CHECK_DEADLOCK FALSE
INVARIANTS
    AlertCountsItsEvents
    SendsAreBounded
    ActiveIsProjected
    StoredHasItsBytes
    DoneHasItsEvidence
    ChallengesAreLimited
    CoverageWasScanned
    GuessesAreBounded
    PreferenceIsEligible
    ForbiddenIsNeverScanned
    ProjectionFollowsObservations
    DecisionsResolve
    LinkIsUnrivalled
PROPERTY MappingsSurviveMerge
