----------------------------- MODULE Treatments -----------------------------
(***************************************************************************)
(* Treatments of findings and their compensating controls (treatments.py,  *)
(* routers/treatments.py).  Every request locks the finding's row, expires *)
(* what is due and then does its work in the same transaction.  A merge of *)
(* two findings does not overlap with a request on them here.              *)
(***************************************************************************)
EXTENDS Naturals, FiniteSets

CONSTANTS TreatmentIds,      \* given out in ascending order
          TreatedFindings

ASSUME TreatmentAssumption == TreatmentIds \subseteq Nat \ {0} /\ TreatedFindings # {}

VARIABLES
    treatment,   \* FindingTreatment rows
    projection,  \* treatment_state of each finding; "merged" once it is gone
    control      \* a CompensatingControl and the treatment it belongs to

treatmentVars == <<treatment, projection, control>>

Kinds == {"mitigated", "accepted_risk"}    \* false_positive is as accepted_risk
NoTreatment == [at |-> "none", kind |-> "mitigated", due |-> FALSE, of |-> CHOOSE f \in TreatedFindings : TRUE]
TreatmentRow == [at : {"none", "pending_review", "active", "expired", "revoked", "superseded"},
                 kind : Kinds, due : BOOLEAN, of : TreatedFindings]

TreatmentTypeOK ==
    /\ treatment \in [TreatmentIds -> TreatmentRow]
    /\ projection \in [TreatedFindings -> Kinds \cup {"unaddressed", "merged"}]
    /\ control \in [of : TreatmentIds \cup {0}, at : {"none", "active", "retired"}]

InitTreatments ==
    /\ treatment = [i \in TreatmentIds |-> NoTreatment]
    /\ projection = [f \in TreatedFindings |-> "unaddressed"]
    /\ control = [of |-> 0, at |-> "none"]

ActiveIn(rows, f) == {i \in TreatmentIds : rows[i].at = "active" /\ rows[i].of = f}

\* reconcile_treatment_projection
Projected(rows, f) ==
    IF ActiveIn(rows, f) = {} THEN "unaddressed" ELSE rows[CHOOSE i \in ActiveIn(rows, f) : TRUE].kind

\* expire_elapsed_treatments_for_finding, the first thing under the lock.
Expired(rows, f) ==
    [i \in TreatmentIds |->
        IF i \in ActiveIn(rows, f) /\ rows[i].due THEN [rows[i] EXCEPT !.at = "expired"] ELSE rows[i]]

Writes(rows, f) ==
    /\ treatment' = rows
    /\ projection' = [projection EXCEPT ![f] = Projected(rows, f)]

\* Mutated form: the treatment in force stays so.
Activated_Beside(rows, i) == [rows EXCEPT ![i].at = "active"]

\* _activate with _supersede_current
Activated(rows, i) ==
    [j \in TreatmentIds |->
        IF j = i THEN [rows[j] EXCEPT !.at = "active"]
        ELSE IF j \in ActiveIn(rows, rows[i].of) THEN [rows[j] EXCEPT !.at = "superseded"] ELSE rows[j]]

\* Both rows are written by one flush, in the order of their ids, and the
\* unique index over the active treatment of a finding is checked at once: an
\* older treatment cannot take over from a newer one (409).
FlushRefused(rows, i) == \E j \in ActiveIn(rows, rows[i].of) : j > i

Fresh == {i \in TreatmentIds : treatment[i].at = "none"}
Exists(f) == projection[f] # "merged"

CreateTreatment(f, kind) ==
    /\ Exists(f)
    /\ \E i \in Fresh :
         /\ \A j \in Fresh : i <= j
         /\ LET rows == [Expired(treatment, f) EXCEPT ![i] =
                            [at |-> "pending_review", kind |-> kind, due |-> FALSE, of |-> f]]
            IN Writes(IF kind = "mitigated" THEN Activated(rows, i) ELSE rows, f)
    /\ UNCHANGED control

\* approve_treatment: pending and not yet due.
ApproveTreatment(i) ==
    LET rows == Expired(treatment, treatment[i].of) IN
    /\ treatment[i].at = "pending_review" /\ ~treatment[i].due
    /\ ~FlushRefused(rows, i)
    /\ Writes(Activated(rows, i), treatment[i].of)
    /\ UNCHANGED control

\* review_treatment keeps the status; what is due expires on the way.
ReviewTreatment(i) ==
    LET rows == Expired(treatment, treatment[i].of) IN
    /\ rows[i].at \in {"pending_review", "active"}
    /\ Writes(rows, treatment[i].of)
    /\ UNCHANGED control

\* revoke_treatment
Revoked(rows, i) == Writes([rows EXCEPT ![i].at = "revoked"], rows[i].of)

RevokeTreatment(i) ==
    LET rows == Expired(treatment, treatment[i].of) IN
    /\ rows[i].at \in {"pending_review", "active"}
    /\ Revoked(rows, i)
    /\ UNCHANGED control

\* expires_at of a treatment passes.
BecomesDue(i) ==
    /\ treatment[i].at # "none" /\ ~treatment[i].due
    /\ treatment' = [treatment EXCEPT ![i].due = TRUE]
    /\ UNCHANGED <<projection, control>>

\* expire_due_treatments, one finding of the scheduler's pass.
ExpireDue(f) ==
    /\ \E i \in ActiveIn(treatment, f) : treatment[i].due
    /\ Writes(Expired(treatment, f), f)
    /\ UNCHANGED control

\* A control may be added to a treatment in any state, and is retired once.
\* Bound: one control.
CreateControl(i) ==
    /\ treatment[i].at # "none" /\ control.at = "none"
    /\ control' = [of |-> i, at |-> "active"]
    /\ Writes(Expired(treatment, treatment[i].of), treatment[i].of)

RetireControl(i) ==
    /\ control = [of |-> i, at |-> "active"]
    /\ control' = [control EXCEPT !.at = "retired"]
    /\ Writes(Expired(treatment, treatment[i].of), treatment[i].of)

\* merge_finding_treatments: two treatments in force cancel each other out,
\* every treatment moves to the keeper, the donor's row is deleted.
MergeTreatments(keeper, donor) ==
    /\ keeper # donor /\ Exists(keeper) /\ Exists(donor)
    /\ LET rows == Expired(Expired(treatment, keeper), donor)
           collision == ActiveIn(rows, keeper) # {} /\ ActiveIn(rows, donor) # {}
           both == IF collision THEN ActiveIn(rows, keeper) \cup ActiveIn(rows, donor) ELSE {}
           moved == [i \in TreatmentIds |->
                       [rows[i] EXCEPT !.at = IF i \in both THEN "superseded" ELSE @,
                                       !.of = IF @ = donor THEN keeper ELSE @]]
       IN /\ treatment' = moved
          /\ projection' = [projection EXCEPT ![keeper] = Projected(moved, keeper), ![donor] = "merged"]
    /\ UNCHANGED control

NextTreatments ==
    \/ \E f \in TreatedFindings : ExpireDue(f) \/ \E kind \in Kinds : CreateTreatment(f, kind)
    \/ \E i \in TreatmentIds :
         \/ ApproveTreatment(i) \/ ReviewTreatment(i) \/ RevokeTreatment(i) \/ BecomesDue(i)
         \/ CreateControl(i) \/ RetireControl(i)
    \/ \E keeper, donor \in TreatedFindings : MergeTreatments(keeper, donor)

TreatmentSpec == InitTreatments /\ [][NextTreatments]_treatmentVars

-----------------------------------------------------------------------------
\* The treatment_state of a finding, which its priority and every report are
\* computed from, is that of the one treatment in force, whatever sequence of
\* approvals, expiries, revocations and merges led there.
ActiveIsProjected ==
    \A f \in TreatedFindings : Exists(f) =>
        /\ Cardinality(ActiveIn(treatment, f)) <= 1
        /\ projection[f] = Projected(treatment, f)
=============================================================================
