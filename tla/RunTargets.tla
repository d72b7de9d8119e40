----------------------------- MODULE RunTargets -----------------------------
(***************************************************************************)
(* Which addresses a run may scan: exclusions, authorized WAN targets, the *)
(* snapshot of a run, the checks of its start and the targets that its     *)
(* payload hands to the worker (scan_exclusions.py, routers/exclusions.py, *)
(* wan_targets.py, scan_snapshot.py, scan_security.py, scan_execution.py,  *)
(* and resolve_execution_targets of the worker's runner.py).               *)
(*                                                                         *)
(* A CIDR, an IP or a range is the set of its addresses.  The start checks *)
(* the run, commits the claim and computes the payload after it: admins    *)
(* and the DNS may change anything between these steps.                    *)
(*                                                                         *)
(* Bounds: one run; a LAN run of one network, a WAN run of one block and   *)
(* one name; a network keeps its range.                                    *)
(***************************************************************************)
EXTENDS Naturals, FiniteSets

CONSTANTS Addresses,    \* what can be scanned or excluded
          Prohibited,   \* PROHIBITED_NETWORKS: private, loopback, ...
          Cidr,         \* the CIDR of the network, and of the WAN block
          Answers,      \* what the WAN name can resolve to; {} is no answer
          Exclusions,   \* rows
          Excludable,   \* address sets an exclusion is created for
          RowScopes     \* scopes of exclusions that are created

ASSUME TargetAssumption ==
    /\ Prohibited \subseteq Addresses /\ Cidr \subseteq Addresses \ Prohibited
    /\ Answers \subseteq SUBSET Addresses /\ {} \in Answers /\ Excludable \subseteq SUBSET Addresses
    /\ RowScopes \subseteq {"global", "tenant", "site", "network", "scan", "other"}

VARIABLES
    exclusion,   \* ScanExclusion rows
    allowed,     \* AuthorizedWanTarget rows not archived; for a LAN, the network
    answer,      \* what the name resolves to now
    job,         \* the run: its status, its scope and its snapshot
    payload      \* the payload the worker holds, and what it scans

targetVars == <<exclusion, allowed, answer, job, payload>>

TargetKinds == {"network", "block", "name"}
Row == [at : {"none", "live", "archived"}, scope : RowScopes \cup {"global"}, addrs : SUBSET Addresses]
NoExclusion == [at |-> "none", scope |-> "global", addrs |-> {}]
NoJob == [status |-> "none", scope |-> "lan", targets |-> {}, rows |-> {}]
\* forbidden is kept for the property: what was excluded when the run was
\* queued and when the payload was made.
NoPayload == [held |-> FALSE, targets |-> {}, excluded |-> {}, scanned |-> {}, forbidden |-> {}]

TargetTypeOK ==
    /\ exclusion \in [Exclusions -> Row]
    /\ allowed \subseteq TargetKinds /\ answer \in Answers
    /\ job \in [status : {"none", "queued", "running", "failed"}, scope : {"lan", "wan"},
                targets : SUBSET TargetKinds, rows : SUBSET Exclusions]
    /\ payload \in [held : BOOLEAN, targets : SUBSET Addresses, excluded : SUBSET Addresses,
                    scanned : SUBSET Addresses, forbidden : SUBSET Addresses]

InitTargets ==
    /\ exclusion = [x \in Exclusions |-> NoExclusion]
    /\ allowed = {"network"} /\ answer = {}
    /\ job = NoJob /\ payload = NoPayload

-----------------------------------------------------------------------------
(* What admins and the DNS do *)

\* create_exclusion, after _bound_scope and assert_scope_keys
CreateExclusion(x, c, addrs) ==
    /\ exclusion[x].at = "none"
    /\ exclusion' = [exclusion EXCEPT ![x] = [at |-> "live", scope |-> c, addrs |-> addrs]]
    /\ UNCHANGED <<allowed, answer, job, payload>>

ArchiveExclusion(x) ==
    /\ exclusion[x].at = "live"
    /\ exclusion' = [exclusion EXCEPT ![x].at = "archived"]
    /\ UNCHANGED <<allowed, answer, job, payload>>

\* assert_wan_target_policy, assert_wan_address_policy
PolicyAllows(addrs) == addrs \cap Prohibited = {}

\* create_wan_target.  A target that is authorized again is another row, not
\* the one that the run names.
CreateWanTarget(t) ==
    /\ job.status = "none" /\ t \in {"block", "name"} \ allowed
    /\ t = "block" => PolicyAllows(Cidr)
    /\ allowed' = allowed \cup {t}
    /\ UNCHANGED <<exclusion, answer, job, payload>>

\* archive_wan_target, or a network archived or an agent deauthorized
Disallow(t) ==
    /\ t \in allowed
    /\ allowed' = allowed \ {t}
    /\ UNCHANGED <<exclusion, answer, job, payload>>

NameChanges(addrs) ==
    /\ addrs # answer
    /\ answer' = addrs
    /\ UNCHANGED <<exclusion, allowed, job, payload>>

-----------------------------------------------------------------------------
(* Exclusions in force *)

\* effective_exclusions: "other" stands for another site, network or scan.
Applies(row, scope) ==
    row.scope \in {"global", "tenant", "scan"} \cup (IF scope = "lan" THEN {"site", "network"} ELSE {})
Effective(scope) == {x \in Exclusions : exclusion[x].at = "live" /\ Applies(exclusion[x], scope)}

\* exclusion_networks_from_rows
Excluded(rows) == UNION {exclusion[x].addrs : x \in rows}

\* worker_targets_from_snapshot without the names: what the exclusions leave
Remaining(targets, excluded) == IF targets \cap {"network", "block"} # {} THEN Cidr \ excluded ELSE {}
\* its SnapshotError
AllRemoved(targets, excluded) == targets # {} /\ "name" \notin targets /\ Remaining(targets, excluded) = {}

\* validate_definition for a run: it has targets, none of them archived.
ValidDefinition(scope, targets) ==
    /\ targets # {} /\ targets \subseteq allowed
    /\ targets \subseteq (IF scope = "lan" THEN {"network"} ELSE {"block", "name"})

\* build_execution_snapshot, in the row that is queued
RunSnapshot(scope, targets, rows) == [status |-> "queued", scope |-> scope, targets |-> targets, rows |-> rows]

\* create_run
CreateRun(scope, targets) ==
    LET rows == Effective(scope) IN
    /\ job.status = "none"
    /\ ValidDefinition(scope, targets)
    /\ ~AllRemoved(targets, Excluded(rows))
    /\ job' = RunSnapshot(scope, targets, rows)
    /\ UNCHANGED <<exclusion, allowed, answer, payload>>

-----------------------------------------------------------------------------
(* The start of the run *)

\* resolve_fqdn_addresses and assert_wan_address_policy
NameIsPublic == answer # {} /\ PolicyAllows(answer)

\* _revalidate_caps_and_exclusions: an exclusion added since that touches a
\* target blocks the run; the name must avoid every current one.
ExclusionsAllow ==
    LET current == Effective(job.scope)
        added == current \ job.rows
        touched == (IF job.targets \cap {"network", "block"} # {} THEN Cidr ELSE {})
    IN /\ ~AllRemoved(job.targets, Excluded(job.rows \cup added))
       /\ touched \cap Excluded(added) = {}
       /\ "name" \in job.targets /\ Excluded(current) # {} => answer # {} /\ answer \cap Excluded(current) = {}

\* revalidate_lan_claim, revalidate_wan_start
Revalidates ==
    /\ job.targets \subseteq allowed
    /\ "name" \in job.targets => NameIsPublic
    /\ ExclusionsAllow

\* start_job up to its commit: a blocked run fails.
Start ==
    /\ job.status = "queued"
    /\ job' = [job EXCEPT !.status = IF Revalidates THEN "running" ELSE "failed"]
    /\ UNCHANGED <<exclusion, allowed, answer, payload>>

\* Mutated form: only the exclusions of now.
CombinedRows_Current == Effective(job.scope)

\* worker_execution_payload: those of the snapshot and those added since
CombinedRows == job.rows \cup Effective(job.scope)

\* pin_fqdn_targets: a name with an excluded address is left out as a whole,
\* and a prohibited address blocks; addresses replace the name.
PinBlocks(excluded) ==
    "name" \in job.targets /\ (answer = {} \/ (answer \cap excluded = {} /\ answer \cap Prohibited # {}))
Pinned(excluded) ==
    Remaining(job.targets, excluded)
        \cup (IF "name" \in job.targets /\ answer \cap excluded = {} THEN answer ELSE {})

\* job_payload.  When it raises, the run that was committed as running has
\* no payload.  A resume (owned_running_job) checks again.
MakePayload(resumed) ==
    LET excluded == Excluded(CombinedRows) IN
    /\ job.status = "running"
    /\ resumed = payload.held
    /\ resumed => job.scope = "lan" /\ Revalidates
    /\ ~AllRemoved(job.targets, excluded) /\ ~PinBlocks(excluded) /\ Pinned(excluded) # {}
    /\ payload' = [held |-> TRUE, targets |-> Pinned(excluded), excluded |-> excluded, scanned |-> {},
                   forbidden |-> Excluded(job.rows \cup Effective(job.scope))
                                     \cup (IF job.scope = "wan" THEN Prohibited ELSE {})]
    /\ UNCHANGED <<exclusion, allowed, answer, job>>

\* resolve_execution_targets: the worker applies the exclusions again.
ResolveTargets ==
    /\ payload.held /\ payload.scanned = {} /\ payload.targets \ payload.excluded # {}
    /\ payload' = [payload EXCEPT !.scanned = payload.targets \ payload.excluded]
    /\ UNCHANGED <<exclusion, allowed, answer, job>>

NextTargets ==
    \/ \E x \in Exclusions, c \in RowScopes, addrs \in Excludable : CreateExclusion(x, c, addrs)
    \/ \E x \in Exclusions : ArchiveExclusion(x)
    \/ \E t \in TargetKinds : CreateWanTarget(t) \/ Disallow(t)
    \/ \E addrs \in Answers : NameChanges(addrs)
    \/ \E scope \in {"lan", "wan"}, targets \in SUBSET TargetKinds : CreateRun(scope, targets)
    \/ Start
    \/ \E resumed \in BOOLEAN : MakePayload(resumed)
    \/ ResolveTargets

TargetSpec == InitTargets /\ [][NextTargets]_targetVars

-----------------------------------------------------------------------------
\* However exclusions are added and archived and the name's answers change
\* between queueing, start, payload and resume, the worker never scans an
\* address that was excluded when the run was queued or when its payload was
\* made, and a WAN run never scans a prohibited one.
ForbiddenIsNeverScanned == payload.scanned \cap payload.forbidden = {}
=============================================================================
