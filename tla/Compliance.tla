----------------------------- MODULE Compliance -----------------------------
(***************************************************************************)
(* Frameworks, controls and the mapping of controls to findings            *)
(* (compliance.py).  The subjects that are modelled are asset findings,    *)
(* the only ones that a merge of assets removes.  No row is locked: a new  *)
(* mapping and a merge act on what they read, and only the unique index    *)
(* and the foreign key of the table stand between them.                    *)
(***************************************************************************)
EXTENDS Naturals, FiniteSets

CONSTANTS Builtin,          \* the controls of the file of the built-in framework
          Custom,           \* those that only a user creates
          MappedFindings,   \* asset findings
          ReferenceIds      \* given out in ascending order

ASSUME ComplianceAssumption ==
    ReferenceIds \subseteq Nat \ {0} /\ Builtin \cup Custom # {} /\ MappedFindings # {}

VARIABLES
    framework,   \* ComplianceFramework of the one slug and version
    compliance,  \* status of each ComplianceControl
    reference,   \* ComplianceControlReference rows
    subjects,    \* the asset findings that exist
    mapper,      \* a request between its checks and its INSERT
    merging      \* a merge of two findings between its reads and its commit

complianceVars == <<framework, compliance, reference, subjects, mapper, merging>>

Controls == Builtin \cup Custom
Status == {"none", "live", "archived"}
Reference == [at : {"none", "live", "removed", "deleted"}, control : Controls, subject : MappedFindings]
NoMapper == [at |-> "none"]
NoMerge == [at |-> "none"]

ComplianceTypeOK ==
    /\ framework \in Status /\ compliance \in [Controls -> Status]
    /\ reference \in [ReferenceIds -> Reference]
    /\ subjects \subseteq MappedFindings
    /\ mapper \in {NoMapper} \cup [at : {"checked"}, control : Controls, subject : MappedFindings]
    /\ merging \in {NoMerge} \cup [at : {"read"}, keeper : MappedFindings, donor : MappedFindings,
                                   refs : SUBSET ReferenceIds, keys : SUBSET Controls,
                                   unmapped : SUBSET Controls]

InitCompliance ==
    /\ framework = "none" /\ compliance = [c \in Controls |-> "none"]
    /\ reference = [i \in ReferenceIds |->
                      [at |-> "none", control |-> CHOOSE c \in Controls : TRUE,
                       subject |-> CHOOSE f \in MappedFindings : TRUE]]
    /\ subjects = MappedFindings
    /\ mapper = NoMapper /\ merging = NoMerge

-----------------------------------------------------------------------------
(* Frameworks and controls *)

CreateFramework ==
    /\ framework = "none" /\ framework' = "live"
    /\ UNCHANGED <<compliance, reference, subjects, mapper, merging>>

ArchiveFramework ==
    /\ framework = "live" /\ framework' = "archived"
    /\ UNCHANGED <<compliance, reference, subjects, mapper, merging>>

CreateComplianceControl(c) ==
    /\ framework = "live" /\ compliance[c] = "none"
    /\ compliance' = [compliance EXCEPT ![c] = "live"]
    /\ UNCHANGED <<framework, reference, subjects, mapper, merging>>

ArchiveComplianceControl(c) ==
    /\ compliance[c] = "live"
    /\ compliance' = [compliance EXCEPT ![c] = "archived"]
    /\ UNCHANGED <<framework, reference, subjects, mapper, merging>>

\* import_builtin_framework: only what is missing is added, even to an archived
\* framework, and an archived control stays so.  A file that does not pass
\* _validate_bundle and _verify_bundle_provenance changes nothing.
ImportBuiltinFramework ==
    /\ framework' = IF framework = "none" THEN "live" ELSE framework
    /\ compliance' = [c \in Controls |->
                        IF c \in Builtin /\ compliance[c] = "none" THEN "live" ELSE compliance[c]]
    /\ <<framework, compliance>>' # <<framework, compliance>>
    /\ UNCHANGED <<reference, subjects, mapper, merging>>

-----------------------------------------------------------------------------
(* References *)

LiveIn(rows, f) == {i \in ReferenceIds : rows[i].at = "live" /\ rows[i].subject = f}
LiveOn(f) == LiveIn(reference, f)

\* add_control_reference up to its INSERT, with resolve_subject
CheckMapping(c, f) ==
    /\ mapper = NoMapper
    /\ compliance[c] = "live" /\ framework # "archived" /\ f \in subjects
    /\ mapper' = [at |-> "checked", control |-> c, subject |-> f]
    /\ UNCHANGED <<framework, compliance, reference, subjects, merging>>

\* Its INSERT and commit.  A second active mapping, or a finding that is gone
\* by now, is refused with 409.
AddReference ==
    LET free == {i \in ReferenceIds : reference[i].at = "none"} IN
    /\ mapper.at = "checked" /\ free # {}
    /\ reference' =
         IF mapper.subject \in subjects /\ \A i \in LiveOn(mapper.subject) : reference[i].control # mapper.control
         THEN [reference EXCEPT ![CHOOSE i \in free : \A j \in free : i <= j] =
                 [at |-> "live", control |-> mapper.control, subject |-> mapper.subject]]
         ELSE reference
    /\ mapper' = NoMapper
    /\ UNCHANGED <<framework, compliance, subjects, merging>>

\* remove_control_reference
RemoveReference(i) ==
    /\ reference[i].at = "live"
    /\ reference' = [reference EXCEPT ![i].at = "removed"]
    /\ merging' = IF merging = NoMerge THEN merging
                  ELSE [merging EXCEPT !.unmapped = @ \cup {reference[i].control}]
    /\ UNCHANGED <<framework, compliance, subjects, mapper>>

-----------------------------------------------------------------------------
(* A merge of two findings *)

\* Mutated form: a removed mapping of the keeper counts as well.
KeeperKeys_All(f) == {reference[i].control : i \in {k \in ReferenceIds :
                        reference[k].at \in {"live", "removed"} /\ reference[k].subject = f}}

\* keeper_keys
KeeperKeys(f) == {reference[i].control : i \in LiveOn(f)}

\* reassign_asset_finding_control_references: its two queries
ReassignReads(keeper, donor) ==
    /\ merging = NoMerge /\ keeper # donor /\ {keeper, donor} \subseteq subjects
    /\ merging' = [at |-> "read", keeper |-> keeper, donor |-> donor, refs |-> LiveOn(donor),
                   keys |-> KeeperKeys(keeper), unmapped |-> {}]
    /\ UNCHANGED <<framework, compliance, reference, subjects, mapper>>

\* What it does with the donor's mappings: one that the keeper has too is
\* removed, the others move.  The delete of the donor cascades to what is left
\* on it, the removed ones included.
Reassigned ==
    [i \in ReferenceIds |->
        LET row == reference[i] IN
        IF i \in merging.refs /\ row.control \in merging.keys THEN [row EXCEPT !.at = "deleted"]
        ELSE IF i \in merging.refs THEN [row EXCEPT !.subject = merging.keeper]
        ELSE IF row.subject = merging.donor /\ row.at # "none" THEN [row EXCEPT !.at = "deleted"]
        ELSE row]

\* The unique index refuses a mapping that moves beside a new one.
MoveCollides ==
    \E i \in merging.refs, k \in LiveOn(merging.keeper) :
        /\ reference[i].at = "live" /\ reference[i].control = reference[k].control
        /\ reference[i].control \notin merging.keys

\* merge_finding_treatments, then the delete of the donor and the commit, or
\* an error that rolls the whole merge back.
MergeCommits ==
    /\ merging.at = "read" /\ ~MoveCollides
    /\ reference' = Reassigned
    /\ subjects' = subjects \ {merging.donor}
    /\ merging' = NoMerge
    /\ UNCHANGED <<framework, compliance, mapper>>

MergeRollsBack ==
    /\ merging.at = "read" /\ merging' = NoMerge
    /\ UNCHANGED <<framework, compliance, reference, subjects, mapper>>

NextCompliance ==
    \/ CreateFramework \/ ArchiveFramework \/ ImportBuiltinFramework
    \/ \E c \in Controls : CreateComplianceControl(c) \/ ArchiveComplianceControl(c)
    \/ \E c \in Controls, f \in MappedFindings : CheckMapping(c, f)
    \/ AddReference
    \/ \E i \in ReferenceIds : RemoveReference(i)
    \/ \E keeper, donor \in MappedFindings : ReassignReads(keeper, donor)
    \/ MergeCommits \/ MergeRollsBack

-----------------------------------------------------------------------------
\* A merge loses no mapping: a control that is mapped to either finding when
\* the merge reads them, and that nobody unmaps meanwhile, is mapped exactly
\* once to the finding that is left, whatever else is mapped, removed or
\* archived in between.
MappingsSurviveMerge ==
    [][subjects' # subjects =>
         LET kept == LiveOn(merging.keeper) \cup (LiveOn(merging.donor) \cap merging.refs) IN
         \A c \in {reference[i].control : i \in kept} \ merging.unmapped :
            Cardinality({i \in LiveIn(reference', merging.keeper) : reference'[i].control = c}) = 1
      ]_complianceVars
=============================================================================
