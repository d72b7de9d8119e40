--------------------------- MODULE ServicesProofs ---------------------------
(*****************************************************************************)
(* Proofs about the services beside the scan: Treatments, AlertOutbox,       *)
(* Policies and Compliance, each for any rows, requests and processes.       *)
(*****************************************************************************)
EXTENDS Treatments, AlertOutbox, Policies, Compliance, OrderLemmas,
        SequenceTheorems, FiniteSetTheorems, TLAPS


-----------------------------------------------------------------------------
(* Treatments: an acceptance in force carries an approval that covers it *)

USE TreatmentAssumption

\* No two treatments of a finding are in force (the unique index
\* uq_finding_treatments_active).
Unrivalled(rows, f) == \A i, j \in ActiveIn(rows, f) : i = j

\* A treatment that was created belongs to a finding that is there, and a
\* control in force to a treatment that was created.
Supported ==
    /\ \A i \in TreatmentIds : treatment[i].at # "none" => Exists(treatment[i].of)
    /\ control.at = "active" => control.of \in TreatmentIds /\ treatment[control.of].at # "none"

Consistent ==
    \A f \in TreatedFindings : Exists(f) =>
        Unrivalled(treatment, f) /\ projection[f] = Projected(treatment, f)

TreatmentInv == TreatmentTypeOK /\ Supported /\ Consistent

Rows == [TreatmentIds -> TreatmentRow]

\* What a request may write to the control.
MayControl ==
    \/ UNCHANGED control
    \/ /\ control' \in [of : TreatmentIds, at : {"active", "retired"}]
       /\ treatment[control'.of].at # "none"

\* No treatment, no control, nothing projected.
LEMMA InitHolds == InitTreatments => TreatmentInv
<1> SUFFICES ASSUME InitTreatments PROVE TreatmentInv
  OBVIOUS
<1>1. NoTreatment \in TreatmentRow /\ NoTreatment.at = "none"
  BY DEF NoTreatment, TreatmentRow, Kinds
<1>2. TreatmentTypeOK
  BY <1>1 DEF InitTreatments, TreatmentTypeOK
<1>3. \A f \in TreatedFindings : ActiveIn(treatment, f) = {}
  BY <1>1 DEF InitTreatments, ActiveIn
<1> QED
  BY <1>1, <1>2, <1>3 DEF InitTreatments, TreatmentInv, Supported, Consistent, Unrivalled, Projected

\* The projection of a finding looks at its active rows only.
LEMMA SameProjection ==
    ASSUME NEW old, NEW new, NEW f,
           \A i \in TreatmentIds : (new[i].at = "active" /\ new[i].of = f) <=> (old[i].at = "active" /\ old[i].of = f),
           \A i \in TreatmentIds : new[i].at = "active" /\ new[i].of = f => new[i].kind = old[i].kind
    PROVE  ActiveIn(new, f) = ActiveIn(old, f) /\ Projected(new, f) = Projected(old, f)
<1>1. ActiveIn(new, f) = ActiveIn(old, f)
  BY DEF ActiveIn
<1>2. CASE ActiveIn(old, f) = {}
  BY <1>1, <1>2 DEF Projected
<1>3. CASE ActiveIn(old, f) # {}
  <2> DEFINE i == CHOOSE j \in ActiveIn(old, f) : TRUE
  <2>1. i \in ActiveIn(old, f)
    BY <1>3
  <2>2. new[i].kind = old[i].kind
    BY <1>1, <2>1 DEF ActiveIn
  <2> QED
    BY <1>1, <1>3, <2>2 DEF Projected
<1> QED
  BY <1>1, <1>2, <1>3

\* The projection of any rows is a kind or none.
LEMMA ProjectedTyped ==
    ASSUME NEW rows \in Rows, NEW f \in TreatedFindings
    PROVE  Projected(rows, f) \in Kinds \cup {"unaddressed"}
<1>1. CASE ActiveIn(rows, f) = {}
  BY <1>1 DEF Projected
<1>2. CASE ActiveIn(rows, f) # {}
  <2>1. (CHOOSE i \in ActiveIn(rows, f) : TRUE) \in TreatmentIds
    BY <1>2 DEF ActiveIn
  <2> QED
    BY <1>2, <2>1 DEF Projected, Rows, TreatmentRow
<1> QED
  BY <1>1, <1>2

\* expire_elapsed_treatments_for_finding changes rows of the finding only.
LEMMA ExpiredRows ==
    ASSUME NEW rows \in Rows, NEW f \in TreatedFindings
    PROVE  /\ Expired(rows, f) \in Rows
           /\ ActiveIn(Expired(rows, f), f) \subseteq ActiveIn(rows, f)
           /\ \A i \in TreatmentIds : /\ Expired(rows, f)[i].of = rows[i].of
                                      /\ Expired(rows, f)[i].kind = rows[i].kind
                                      /\ rows[i].of # f => Expired(rows, f)[i] = rows[i]
                                      /\ Expired(rows, f)[i].at = "none" <=> rows[i].at = "none"
                                      /\ Expired(rows, f)[i].at = "active" => rows[i].at = "active"
<1>1. ASSUME NEW i \in TreatmentIds
      PROVE  /\ Expired(rows, f)[i] \in TreatmentRow
             /\ Expired(rows, f)[i].of = rows[i].of
             /\ Expired(rows, f)[i].kind = rows[i].kind
             /\ rows[i].of # f => Expired(rows, f)[i] = rows[i]
             /\ Expired(rows, f)[i].at = "none" <=> rows[i].at = "none"
             /\ Expired(rows, f)[i].at = "active" => rows[i].at = "active"
  <2>1. rows[i] \in TreatmentRow
    BY DEF Rows
  <2>2. CASE i \in ActiveIn(rows, f) /\ rows[i].due
    <3>1. Expired(rows, f)[i] = [rows[i] EXCEPT !.at = "expired"]
      BY <2>2 DEF Expired
    <3>2. rows[i].at = "active" /\ rows[i].of = f
      BY <2>2 DEF ActiveIn
    <3> QED
      BY <2>1, <3>1, <3>2 DEF TreatmentRow
  <2>3. CASE ~(i \in ActiveIn(rows, f) /\ rows[i].due)
    <3>1. Expired(rows, f)[i] = rows[i]
      BY <2>3 DEF Expired
    <3> QED
      BY <2>1, <3>1
  <2> QED
    BY <2>2, <2>3
<1>2. Expired(rows, f) \in Rows
  BY <1>1 DEF Expired, Rows
<1>3. ActiveIn(Expired(rows, f), f) \subseteq ActiveIn(rows, f)
  BY <1>1 DEF ActiveIn
<1> QED
  BY <1>1, <1>2, <1>3

\* A request that writes rows of one finding, leaves at most one of them in
\* force and reconciles the projection keeps the invariant.
LEMMA WritesKeepsInv ==
    ASSUME TreatmentInv, NEW f \in TreatedFindings, Exists(f), NEW rows \in Rows, Writes(rows, f),
           Unrivalled(rows, f),
           \A i \in TreatmentIds :
              \/ rows[i] = treatment[i]
              \/ (treatment[i].of = f \/ treatment[i].at = "none") /\ rows[i].of = f,
           \A i \in TreatmentIds : treatment[i].at # "none" => rows[i].at # "none",
           MayControl
    PROVE  TreatmentInv'
<1>1. treatment' = rows /\ projection' = [projection EXCEPT ![f] = Projected(rows, f)]
  BY DEF Writes
<1>2. Projected(rows, f) \in Kinds \cup {"unaddressed"}
  BY ProjectedTyped
<1>3. TreatmentTypeOK'
  <2>1. treatment' \in [TreatmentIds -> TreatmentRow] /\ projection' \in [TreatedFindings -> Kinds \cup {"unaddressed", "merged"}]
    BY <1>1, <1>2 DEF TreatmentInv, TreatmentTypeOK, Rows
  <2>2. control' \in [of : TreatmentIds \cup {0}, at : {"none", "active", "retired"}]
    BY DEF TreatmentInv, TreatmentTypeOK, MayControl
  <2> QED
    BY <2>1, <2>2 DEF TreatmentTypeOK
<1>4. \A g \in TreatedFindings : projection'[g] # "merged" <=> Exists(g)
  BY <1>1, <1>2 DEF Exists, TreatmentInv, TreatmentTypeOK, Kinds
<1>5. Supported'
  <2>1. \A i \in TreatmentIds : treatment'[i].at # "none" => projection'[treatment'[i].of] # "merged"
    <3> SUFFICES ASSUME NEW i \in TreatmentIds, rows[i].at # "none" PROVE projection'[rows[i].of] # "merged"
      BY <1>1
    <3>1. rows[i].of \in TreatedFindings /\ treatment[i].of \in TreatedFindings
      BY DEF Rows, TreatmentRow, TreatmentInv, TreatmentTypeOK
    <3>2. Exists(rows[i].of)
      BY DEF TreatmentInv, Supported
    <3> QED
      BY <1>4, <3>1, <3>2
  <2>2. control'.at = "active" => control'.of \in TreatmentIds /\ treatment'[control'.of].at # "none"
    BY <1>1 DEF MayControl, TreatmentInv, Supported
  <2> QED
    BY <2>1, <2>2 DEF Supported, Exists
<1>6. ASSUME NEW g \in TreatedFindings, Exists(g)
      PROVE  Unrivalled(rows, g) /\ projection'[g] = Projected(rows, g)
  <2>1. CASE g = f
    <3>1. projection'[f] = Projected(rows, f)
      BY <1>1 DEF TreatmentInv, TreatmentTypeOK
    <3> QED
      BY <2>1, <3>1
  <2>2. CASE g # f
    <3>1. \A i \in TreatmentIds : (rows[i].at = "active" /\ rows[i].of = g)
                                    <=> (treatment[i].at = "active" /\ treatment[i].of = g)
      <4> SUFFICES ASSUME NEW i \in TreatmentIds
                   PROVE  (rows[i].at = "active" /\ rows[i].of = g)
                             <=> (treatment[i].at = "active" /\ treatment[i].of = g)
        OBVIOUS
      <4>1. CASE rows[i] = treatment[i]
        BY <4>1
      <4>2. CASE (treatment[i].of = f \/ treatment[i].at = "none") /\ rows[i].of = f
        BY <2>2, <4>2
      <4> QED
        BY <4>1, <4>2
    <3>2. \A i \in TreatmentIds : rows[i].at = "active" /\ rows[i].of = g => rows[i].kind = treatment[i].kind
      BY <2>2
    <3>3. ActiveIn(rows, g) = ActiveIn(treatment, g) /\ Projected(rows, g) = Projected(treatment, g)
      BY <3>1, <3>2, SameProjection
    <3>4. Unrivalled(treatment, g) /\ projection[g] = Projected(treatment, g)
      BY <1>6 DEF TreatmentInv, Consistent
    <3> QED
      BY <1>1, <2>2, <3>3, <3>4 DEF Unrivalled, TreatmentInv, TreatmentTypeOK
  <2> QED
    BY <2>1, <2>2
<1>7. Consistent'
  BY <1>1, <1>4, <1>6 DEF Consistent, Exists, Unrivalled
<1> QED
  BY <1>3, <1>5, <1>7 DEF TreatmentInv

\* What the first thing that every request does leaves behind.
LEMMA ExpiredFirst ==
    ASSUME TreatmentInv, NEW f \in TreatedFindings, Exists(f)
    PROVE  /\ Expired(treatment, f) \in Rows
           /\ Unrivalled(Expired(treatment, f), f)
           /\ \A i \in TreatmentIds : /\ Expired(treatment, f)[i].of = treatment[i].of
                                      /\ treatment[i].of # f => Expired(treatment, f)[i] = treatment[i]
                                      /\ Expired(treatment, f)[i].at = "none" <=> treatment[i].at = "none"
<1>1. treatment \in Rows
  BY DEF TreatmentInv, TreatmentTypeOK, Rows
<1>2. ActiveIn(Expired(treatment, f), f) \subseteq ActiveIn(treatment, f)
  BY <1>1, ExpiredRows
<1>3. Unrivalled(treatment, f)
  BY DEF TreatmentInv, Consistent
<1> QED
  BY <1>1, <1>2, <1>3, ExpiredRows DEF Unrivalled

\* A request that only expires what is due, or ends one treatment as well.
LEMMA EndingStep ==
    ASSUME TreatmentInv, NEW f \in TreatedFindings, Exists(f), NEW rows \in Rows, Writes(rows, f),
           \A i \in TreatmentIds :
              \/ rows[i] = Expired(treatment, f)[i]
              \/ treatment[i].of = f /\ rows[i].of = f /\ rows[i].at \notin {"none", "active"},
           MayControl
    PROVE  TreatmentInv'
<1>1. \A i \in TreatmentIds :
         \/ rows[i] = treatment[i]
         \/ (treatment[i].of = f \/ treatment[i].at = "none") /\ rows[i].of = f
  BY ExpiredFirst
<1>2. ActiveIn(rows, f) \subseteq ActiveIn(Expired(treatment, f), f)
  BY DEF ActiveIn
<1>3. Unrivalled(rows, f)
  BY <1>2, ExpiredFirst DEF Unrivalled
<1>4. \A i \in TreatmentIds : treatment[i].at # "none" => rows[i].at # "none"
  BY ExpiredFirst
<1> QED
  BY <1>1, <1>3, <1>4, WritesKeepsInv

\* _activate leaves one treatment of the finding in force.
LEMMA ActivatedRows ==
    ASSUME NEW rows \in Rows, NEW i \in TreatmentIds
    PROVE  /\ Activated(rows, i) \in Rows
           /\ Unrivalled(Activated(rows, i), rows[i].of)
           /\ \A j \in TreatmentIds : /\ Activated(rows, i)[j].of = rows[j].of
                                      /\ rows[j].of # rows[i].of => Activated(rows, i)[j] = rows[j]
                                      /\ rows[j].at # "none" => Activated(rows, i)[j].at # "none"
<1>1. ASSUME NEW j \in TreatmentIds
      PROVE  /\ Activated(rows, i)[j] \in TreatmentRow
             /\ Activated(rows, i)[j].of = rows[j].of
             /\ rows[j].of # rows[i].of => Activated(rows, i)[j] = rows[j]
             /\ rows[j].at # "none" => Activated(rows, i)[j].at # "none"
             /\ j # i => ~(Activated(rows, i)[j].at = "active" /\ rows[j].of = rows[i].of)
  <2>1. rows[j] \in TreatmentRow
    BY DEF Rows
  <2>2. CASE j = i
    <3>1. Activated(rows, i)[j] = [rows[j] EXCEPT !.at = "active"]
      BY <2>2 DEF Activated
    <3> QED
      BY <2>1, <2>2, <3>1 DEF TreatmentRow
  <2>3. CASE j # i /\ j \in ActiveIn(rows, rows[i].of)
    <3>1. Activated(rows, i)[j] = [rows[j] EXCEPT !.at = "superseded"]
      BY <2>3 DEF Activated
    <3>2. rows[j].of = rows[i].of
      BY <2>3 DEF ActiveIn
    <3> QED
      BY <2>1, <3>1, <3>2 DEF TreatmentRow
  <2>4. CASE j # i /\ j \notin ActiveIn(rows, rows[i].of)
    <3>1. Activated(rows, i)[j] = rows[j]
      BY <2>4 DEF Activated
    <3>2. ~(rows[j].at = "active" /\ rows[j].of = rows[i].of)
      BY <2>4 DEF ActiveIn
    <3> QED
      BY <2>1, <3>1, <3>2
  <2> QED
    BY <2>2, <2>3, <2>4
<1>2. Activated(rows, i) \in Rows
  BY <1>1 DEF Activated, Rows
<1>3. ActiveIn(Activated(rows, i), rows[i].of) \subseteq {i}
  BY <1>1 DEF ActiveIn
<1> QED
  BY <1>1, <1>2, <1>3 DEF Unrivalled

\* A treatment of a finding that exists is created; what is due expires first.
LEMMA TreatmentCreateStep ==
    ASSUME TreatmentInv, NEW f \in TreatedFindings, NEW kind \in Kinds, CreateTreatment(f, kind)
    PROVE  TreatmentInv'
<1> DEFINE created(i) == [Expired(treatment, f) EXCEPT ![i] =
                             [at |-> "pending_review", kind |-> kind, due |-> FALSE, of |-> f]]
<1>1. PICK i \in Fresh : Writes(IF kind = "mitigated" THEN Activated(created(i), i) ELSE created(i), f)
  BY DEF CreateTreatment
<1> DEFINE rows == created(i)
           new == IF kind = "mitigated" THEN Activated(rows, i) ELSE rows
<1>2. Exists(f) /\ Writes(new, f) /\ MayControl
  BY <1>1 DEF CreateTreatment, MayControl
<1>3. i \in TreatmentIds /\ treatment[i].at = "none"
  BY DEF Fresh
<1>4. /\ Expired(treatment, f) \in Rows /\ Unrivalled(Expired(treatment, f), f)
      /\ \A j \in TreatmentIds : /\ Expired(treatment, f)[j].of = treatment[j].of
                                 /\ treatment[j].of # f => Expired(treatment, f)[j] = treatment[j]
                                 /\ Expired(treatment, f)[j].at = "none" <=> treatment[j].at = "none"
  BY <1>2, ExpiredFirst
<1>5. /\ rows \in Rows /\ rows[i].of = f /\ rows[i].at = "pending_review"
      /\ \A j \in TreatmentIds \ {i} : rows[j] = Expired(treatment, f)[j]
  BY <1>3, <1>4 DEF Rows, TreatmentRow
<1> HIDE DEF rows, created
<1>6. /\ Unrivalled(rows, f)
      /\ \A j \in TreatmentIds : \/ rows[j] = treatment[j]
                                 \/ (treatment[j].of = f \/ treatment[j].at = "none") /\ rows[j].of = f
      /\ \A j \in TreatmentIds : treatment[j].at # "none" => rows[j].at # "none"
  <2>1. ActiveIn(rows, f) \subseteq ActiveIn(Expired(treatment, f), f)
    BY <1>5 DEF ActiveIn
  <2> QED
    BY <1>3, <1>4, <1>5, <2>1 DEF Unrivalled
<1>7. /\ new \in Rows /\ Unrivalled(new, f)
      /\ \A j \in TreatmentIds : \/ new[j] = treatment[j]
                                 \/ (treatment[j].of = f \/ treatment[j].at = "none") /\ new[j].of = f
      /\ \A j \in TreatmentIds : treatment[j].at # "none" => new[j].at # "none"
  <2>1. CASE kind = "mitigated"
    <3>1. /\ Activated(rows, i) \in Rows /\ Unrivalled(Activated(rows, i), f)
          /\ \A j \in TreatmentIds : /\ Activated(rows, i)[j].of = rows[j].of
                                     /\ rows[j].of # f => Activated(rows, i)[j] = rows[j]
                                     /\ rows[j].at # "none" => Activated(rows, i)[j].at # "none"
      BY <1>3, <1>5, ActivatedRows
    <3> QED
      BY <1>6, <2>1, <3>1
  <2>2. CASE kind # "mitigated"
    BY <1>5, <1>6, <2>2
  <2> QED
    BY <2>1, <2>2
<1> HIDE DEF new
<1> QED
  BY <1>2, <1>7, WritesKeepsInv

\* An approval puts the one treatment of its finding in force.
LEMMA ApproveStep ==
    ASSUME TreatmentInv, NEW i \in TreatmentIds, ApproveTreatment(i)
    PROVE  TreatmentInv'
<1> DEFINE f == treatment[i].of
           rows == Expired(treatment, f)
<1>1. treatment[i] \in TreatmentRow /\ treatment[i].at = "pending_review" /\ Writes(Activated(rows, i), f)
      /\ control' = control
  BY DEF ApproveTreatment, TreatmentInv, TreatmentTypeOK
<1>2. f \in TreatedFindings /\ Exists(f)
  BY <1>1 DEF TreatmentRow, TreatmentInv, Supported
<1> HIDE DEF f
<1>3. /\ rows \in Rows
      /\ \A j \in TreatmentIds : /\ rows[j].of = treatment[j].of
                                 /\ treatment[j].of # f => rows[j] = treatment[j]
                                 /\ rows[j].at = "none" <=> treatment[j].at = "none"
  BY <1>2, ExpiredFirst
<1>4. rows[i].of = f
  BY <1>3 DEF f
<1> HIDE DEF rows
<1>5. /\ Activated(rows, i) \in Rows /\ Unrivalled(Activated(rows, i), f)
      /\ \A j \in TreatmentIds : /\ Activated(rows, i)[j].of = rows[j].of
                                 /\ rows[j].of # f => Activated(rows, i)[j] = rows[j]
                                 /\ rows[j].at # "none" => Activated(rows, i)[j].at # "none"
  BY <1>3, <1>4, ActivatedRows
<1>6. \A j \in TreatmentIds :
         \/ Activated(rows, i)[j] = treatment[j]
         \/ (treatment[j].of = f \/ treatment[j].at = "none") /\ Activated(rows, i)[j].of = f
  BY <1>3, <1>5
<1>7. \A j \in TreatmentIds : treatment[j].at # "none" => Activated(rows, i)[j].at # "none"
  BY <1>3, <1>5
<1>8. MayControl
  BY <1>1 DEF MayControl
<1> QED
  BY <1>1, <1>2, <1>5, <1>6, <1>7, <1>8, WritesKeepsInv

\* Requests that leave no treatment in force that was not: a review, a
\* control added or retired, and what expires.
LEMMA KeepingSteps ==
    ASSUME TreatmentInv, NEW f \in TreatedFindings, Exists(f), Writes(Expired(treatment, f), f),
           MayControl
    PROVE  TreatmentInv'
BY ExpiredFirst, EndingStep

\* The finding of a treatment exists.
LEMMA ExistsOf ==
    ASSUME TreatmentInv, NEW i \in TreatmentIds, treatment[i].at # "none"
    PROVE  treatment[i].of \in TreatedFindings /\ Exists(treatment[i].of)
BY DEF TreatmentInv, TreatmentTypeOK, TreatmentRow, Supported

\* A review keeps the status; what is due expires on the way.
LEMMA ReviewStep ==
    ASSUME TreatmentInv, NEW i \in TreatmentIds, ReviewTreatment(i)
    PROVE  TreatmentInv'
<1>1. treatment[i].of \in TreatedFindings /\ treatment \in Rows
  BY DEF TreatmentInv, TreatmentTypeOK, TreatmentRow, Rows
<1>2. treatment[i].at # "none"
  BY <1>1, ExpiredRows DEF ReviewTreatment
<1>3. MayControl
  BY DEF ReviewTreatment, MayControl
<1> QED
  BY <1>2, <1>3, ExistsOf, KeepingSteps DEF ReviewTreatment

\* A revoked treatment is no longer projected.
LEMMA TreatmentRevokeStep ==
    ASSUME TreatmentInv, NEW i \in TreatmentIds, RevokeTreatment(i)
    PROVE  TreatmentInv'
<1> DEFINE f == treatment[i].of
           rows == Expired(treatment, f)
           new == [rows EXCEPT ![i].at = "revoked"]
<1>1. f \in TreatedFindings /\ treatment \in Rows
  BY DEF TreatmentInv, TreatmentTypeOK, TreatmentRow, Rows
<1>2. treatment[i].at # "none"
  BY <1>1, ExpiredRows DEF RevokeTreatment
<1>3. Exists(f)
  BY <1>2, ExistsOf
<1>4. rows \in Rows /\ rows[i].of = f
  BY <1>1, ExpiredRows
<1>5. Writes(new, f) /\ control' = control
  BY <1>4 DEF RevokeTreatment, Revoked
<1> HIDE DEF f
<1>6. new = [rows EXCEPT ![i] = [rows[i] EXCEPT !.at = "revoked"]]
  BY <1>4
<1>7. new \in Rows /\ new[i].of = f /\ new[i].at = "revoked" /\ \A j \in TreatmentIds \ {i} : new[j] = rows[j]
  BY <1>4, <1>6 DEF Rows, TreatmentRow
<1>8. treatment[i].of = f
  BY DEF f
<1> HIDE DEF new
<1>9. MayControl
  BY <1>5 DEF MayControl
<1> QED
  BY <1>1, <1>3, <1>5, <1>7, <1>8, <1>9, EndingStep

\* A treatment that becomes due changes nothing else.
LEMMA BecomesDueStep ==
    ASSUME TreatmentInv, NEW i \in TreatmentIds, BecomesDue(i)
    PROVE  TreatmentInv'
<1>1. treatment' = [treatment EXCEPT ![i] = [treatment[i] EXCEPT !.due = TRUE]]
      /\ UNCHANGED <<projection, control>>
  BY DEF BecomesDue, TreatmentInv, TreatmentTypeOK
<1>2. \A j \in TreatmentIds : /\ treatment'[j] \in TreatmentRow /\ treatment'[j].at = treatment[j].at
                              /\ treatment'[j].of = treatment[j].of /\ treatment'[j].kind = treatment[j].kind
  <2> SUFFICES ASSUME NEW j \in TreatmentIds
               PROVE  /\ treatment'[j] \in TreatmentRow /\ treatment'[j].at = treatment[j].at
                      /\ treatment'[j].of = treatment[j].of /\ treatment'[j].kind = treatment[j].kind
    OBVIOUS
  <2>1. treatment \in [TreatmentIds -> TreatmentRow] /\ treatment[j] \in TreatmentRow
    BY DEF TreatmentInv, TreatmentTypeOK
  <2>2. CASE j = i
    <3>1. treatment'[j] = [treatment[j] EXCEPT !.due = TRUE]
      BY <1>1, <2>1, <2>2
    <3> QED
      BY <2>1, <3>1 DEF TreatmentRow
  <2>3. CASE j # i
    BY <1>1, <2>1, <2>3
  <2> QED
    BY <2>2, <2>3
<1>3. TreatmentTypeOK'
  BY <1>1, <1>2 DEF TreatmentInv, TreatmentTypeOK
<1>4. Supported'
  BY <1>1, <1>2 DEF TreatmentInv, Supported, Exists
<1>5. \A f \in TreatedFindings : ActiveIn(treatment', f) = ActiveIn(treatment, f)
                                 /\ Projected(treatment', f) = Projected(treatment, f)
  BY <1>2, SameProjection
<1>6. Consistent'
  BY <1>1, <1>5 DEF TreatmentInv, Consistent, Unrivalled, Exists
<1> QED
  BY <1>3, <1>4, <1>6 DEF TreatmentInv

\* A control is put in force for a treatment that exists.
LEMMA CreateControlStep ==
    ASSUME TreatmentInv, NEW i \in TreatmentIds, CreateControl(i)
    PROVE  TreatmentInv'
<1>1. treatment[i].at # "none" /\ Writes(Expired(treatment, treatment[i].of), treatment[i].of)
  BY DEF CreateControl
<1>2. MayControl
  BY DEF CreateControl, MayControl
<1> QED
  BY <1>1, <1>2, ExistsOf, KeepingSteps

\* A control is retired.
LEMMA RetireControlStep ==
    ASSUME TreatmentInv, NEW i \in TreatmentIds, RetireControl(i)
    PROVE  TreatmentInv'
<1>1. control.at = "active" /\ control.of = i /\ Writes(Expired(treatment, treatment[i].of), treatment[i].of)
  BY DEF RetireControl
<1>2. treatment[i].at # "none"
  BY <1>1 DEF TreatmentInv, Supported
<1>3. MayControl
  BY <1>1, <1>2 DEF RetireControl, MayControl
<1> QED
  BY <1>1, <1>2, <1>3, ExistsOf, KeepingSteps

\* The pass expires what is due on one finding and reconciles it.
LEMMA ExpireDueStep ==
    ASSUME TreatmentInv, NEW f \in TreatedFindings, ExpireDue(f)
    PROVE  TreatmentInv'
<1>1. PICK i \in ActiveIn(treatment, f) : TRUE
  BY DEF ExpireDue
<1>2. i \in TreatmentIds /\ treatment[i].of = f /\ treatment[i].at # "none"
  BY DEF ActiveIn
<1>3. Exists(f) /\ MayControl
  BY <1>2, ExistsOf DEF ExpireDue, MayControl
<1> QED
  BY <1>3, KeepingSteps DEF ExpireDue

\* merge_finding_treatments: what the donor brings is in force alone, or
\* nothing is; the donor keeps no treatment.
LEMMA MergeStep ==
    ASSUME TreatmentInv, NEW keeper \in TreatedFindings, NEW donor \in TreatedFindings,
           MergeTreatments(keeper, donor)
    PROVE  TreatmentInv'
<1> DEFINE first == Expired(treatment, keeper)
           rows == Expired(first, donor)
           collision == ActiveIn(rows, keeper) # {} /\ ActiveIn(rows, donor) # {}
           both == IF collision THEN ActiveIn(rows, keeper) \cup ActiveIn(rows, donor) ELSE {}
           moved == [i \in TreatmentIds |->
                       [rows[i] EXCEPT !.at = IF i \in both THEN "superseded" ELSE @,
                                       !.of = IF @ = donor THEN keeper ELSE @]]
<1>1. /\ keeper # donor /\ Exists(keeper) /\ Exists(donor) /\ treatment' = moved
      /\ projection' = [projection EXCEPT ![keeper] = Projected(moved, keeper), ![donor] = "merged"]
      /\ UNCHANGED control
  BY DEF MergeTreatments
<1>2. /\ rows \in Rows
      /\ \A f \in TreatedFindings : ActiveIn(rows, f) \subseteq ActiveIn(treatment, f)
      /\ \A i \in TreatmentIds : /\ rows[i].of = treatment[i].of
                                 /\ rows[i].at = "none" <=> treatment[i].at = "none"
                                 /\ treatment[i].of \notin {keeper, donor} => rows[i] = treatment[i]
  <2>1. treatment \in Rows
    BY DEF TreatmentInv, TreatmentTypeOK, Rows
  <2>2. /\ first \in Rows
        /\ \A i \in TreatmentIds : /\ first[i].of = treatment[i].of
                                   /\ treatment[i].of # keeper => first[i] = treatment[i]
                                   /\ first[i].at = "none" <=> treatment[i].at = "none"
                                   /\ first[i].at = "active" => treatment[i].at = "active"
    BY <2>1, ExpiredRows
  <2> HIDE DEF first
  <2>3. /\ rows \in Rows
        /\ \A i \in TreatmentIds : /\ rows[i].of = first[i].of
                                   /\ first[i].of # donor => rows[i] = first[i]
                                   /\ rows[i].at = "none" <=> first[i].at = "none"
                                   /\ rows[i].at = "active" => first[i].at = "active"
    BY <2>2, ExpiredRows
  <2> HIDE DEF rows
  <2>4. \A f \in TreatedFindings : ActiveIn(rows, f) \subseteq ActiveIn(treatment, f)
    BY <2>2, <2>3 DEF ActiveIn
  <2> QED
    BY <2>2, <2>3, <2>4
<1>3. \A f \in TreatedFindings : Exists(f) => Unrivalled(rows, f)
  BY <1>2 DEF Unrivalled, TreatmentInv, Consistent
<1> HIDE DEF rows
<1>4. ASSUME NEW i \in TreatmentIds
      PROVE  /\ moved[i] \in TreatmentRow
             /\ moved[i].of = IF rows[i].of = donor THEN keeper ELSE rows[i].of
             /\ moved[i].at = IF i \in both THEN "superseded" ELSE rows[i].at
             /\ moved[i].kind = rows[i].kind
  <2>1. rows[i] \in TreatmentRow
    BY <1>2 DEF Rows
  <2> HIDE DEF both
  <2>2. moved[i] = [rows[i] EXCEPT !.at = IF i \in both THEN "superseded" ELSE @,
                                   !.of = IF @ = donor THEN keeper ELSE @]
    OBVIOUS
  <2> QED
    BY <2>1, <2>2 DEF TreatmentRow
<1>5. moved \in Rows
  BY <1>4 DEF Rows
<1> HIDE DEF moved
<1>6. ActiveIn(moved, keeper) = (ActiveIn(rows, keeper) \cup ActiveIn(rows, donor)) \ both
  <2> HIDE DEF both
  <2>1. \A i \in TreatmentIds :
          (moved[i].at = "active" /\ moved[i].of = keeper)
             <=> (rows[i].at = "active" /\ rows[i].of \in {keeper, donor} /\ i \notin both)
    BY <1>1, <1>4
  <2> QED
    BY <2>1 DEF ActiveIn
<1>7. Unrivalled(moved, keeper)
  BY <1>1, <1>3, <1>6 DEF Unrivalled
<1>8. Projected(moved, keeper) \in Kinds \cup {"unaddressed"}
  BY <1>5, ProjectedTyped
<1>9. TreatmentTypeOK'
  BY <1>1, <1>5, <1>8 DEF TreatmentInv, TreatmentTypeOK, Rows
<1>10. /\ projection'[keeper] = Projected(moved, keeper) /\ projection'[donor] = "merged"
       /\ \A g \in TreatedFindings \ {keeper, donor} : projection'[g] = projection[g]
  BY <1>1 DEF TreatmentInv, TreatmentTypeOK
<1>11. /\ projection'[keeper] # "merged"
       /\ \A g \in TreatedFindings \ {keeper, donor} : projection'[g] # "merged" <=> Exists(g)
  BY <1>8, <1>10 DEF Exists, Kinds
<1>12. Supported'
  <2>1. ASSUME NEW i \in TreatmentIds, moved[i].at # "none"
        PROVE  projection'[moved[i].of] # "merged"
    <3>1. rows[i].of \in TreatedFindings
      BY <1>2 DEF Rows, TreatmentRow
    <3>2. treatment[i].at # "none"
      BY <1>2, <1>4, <2>1 DEF ActiveIn
    <3>3. Exists(rows[i].of)
      BY <1>2, <3>2 DEF TreatmentInv, Supported
    <3>4. CASE rows[i].of \in {keeper, donor}
      BY <1>4, <1>11, <3>4
    <3>5. CASE rows[i].of \notin {keeper, donor}
      BY <1>4, <1>11, <3>1, <3>3, <3>5
    <3> QED
      BY <3>4, <3>5
  <2>2. \A i \in TreatmentIds : treatment[i].at # "none" => moved[i].at # "none"
    BY <1>2, <1>4
  <2> QED
    BY <1>1, <2>1, <2>2 DEF TreatmentInv, Supported, Exists
<1>13. Consistent'
  <2>1. ASSUME NEW g \in TreatedFindings \ {keeper, donor}, Exists(g)
        PROVE  Unrivalled(moved, g) /\ projection'[g] = Projected(moved, g)
    <3>1. ActiveIn(moved, g) = ActiveIn(treatment, g) /\ Projected(moved, g) = Projected(treatment, g)
      <4>1. \A i \in TreatmentIds : rows[i].of = g => i \notin both
        BY <2>1 DEF ActiveIn
      <4> HIDE DEF both
      <4>2. \A i \in TreatmentIds :
              /\ (moved[i].at = "active" /\ moved[i].of = g) <=> (treatment[i].at = "active" /\ treatment[i].of = g)
              /\ moved[i].of = g => moved[i].kind = treatment[i].kind
        BY <1>2, <1>4, <2>1, <4>1
      <4> QED
        BY <4>2, SameProjection
    <3> QED
      BY <1>10, <2>1, <3>1 DEF TreatmentInv, Consistent, Unrivalled
  <2> QED
    BY <1>1, <1>7, <1>10, <1>11, <2>1 DEF Consistent, Exists, Unrivalled
<1> QED
  BY <1>9, <1>12, <1>13 DEF TreatmentInv

\* Every step keeps the invariant.
LEMMA StepKeepsInv == TreatmentInv /\ [NextTreatments]_treatmentVars => TreatmentInv'
<1> SUFFICES ASSUME TreatmentInv, [NextTreatments]_treatmentVars PROVE TreatmentInv'
  OBVIOUS
<1>1. CASE UNCHANGED treatmentVars
  BY <1>1 DEF treatmentVars, TreatmentInv, TreatmentTypeOK, Supported, Consistent, Exists
<1>2. CASE NextTreatments
  BY <1>2, TreatmentCreateStep, ApproveStep, ReviewStep, TreatmentRevokeStep, BecomesDueStep, CreateControlStep,
     RetireControlStep, ExpireDueStep, MergeStep DEF NextTreatments
<1> QED
  BY <1>1, <1>2

\* The inductive invariant of treatments (treatments.py).
THEOREM TreatmentInvHolds == TreatmentSpec => []TreatmentInv
BY InitHolds, StepKeepsInv, PTL DEF TreatmentSpec

\* The invariant implies the property the run checks.
LEMMA ActiveFollows == TreatmentInv => ActiveIsProjected
<1> SUFFICES ASSUME TreatmentInv, NEW f \in TreatedFindings, Exists(f)
             PROVE  Cardinality(ActiveIn(treatment, f)) <= 1 /\ projection[f] = Projected(treatment, f)
  BY DEF ActiveIsProjected
<1>1. Unrivalled(treatment, f) /\ projection[f] = Projected(treatment, f)
  BY DEF TreatmentInv, Consistent
<1>2. Cardinality(ActiveIn(treatment, f)) \in {0, 1}
  <2>1. CASE ActiveIn(treatment, f) = {}
    BY <2>1, FS_EmptySet
  <2>2. CASE ActiveIn(treatment, f) # {}
    <3>1. PICK i \in ActiveIn(treatment, f) : ActiveIn(treatment, f) = {i}
      BY <1>1, <2>2 DEF Unrivalled
    <3>2. Cardinality({i}) = 1
      BY FS_Singleton
    <3> QED
      BY <3>1, <3>2
  <2> QED
    BY <2>1, <2>2
<1> QED
  BY <1>1, <1>2

\* A finding's treatment_state is that of its one treatment in force, whatever
\* sequence of requests, expiries and merges led there.
THEOREM ActiveIsTheProjection == TreatmentSpec => []ActiveIsProjected
BY TreatmentInvHolds, ActiveFollows, PTL

\* Treatments, projections and the control are well typed.
THEOREM TreatmentTypeCorrect == TreatmentSpec => []TreatmentTypeOK
<1>1. TreatmentInv => TreatmentTypeOK
  BY DEF TreatmentInv
<1> QED
  BY <1>1, TreatmentInvHolds, PTL

HIDE TreatmentAssumption

-----------------------------------------------------------------------------
(* AlertOutbox: an alert counts its events, a delivery is tried a bounded number of times *)

USE OutboxAssumption

\* What the lock, the claim and the read before it leave a router with.
RouterRow == [at : {"idle", "claimed", "create", "coalesce"}, fact : Facts \cup {0}, holds : SUBSET Subjects,
              alert : Nat, count : Nat, window : BOOLEAN]
RouteRow == [result : {"none", "no_notification", "created", "coalesced"}, alert : Nat]
SenderRow == [alert : Nat, sending : BOOLEAN, tries : Nat]

RowsTyped ==
    /\ queue \in [Facts -> QueueRow]
    /\ \A f \in Facts : queue[f].at \in {"none", "pending"} => queue[f].attempts < MaxAttempts
    /\ route \in [Facts -> RouteRow]
    /\ router \in [Posts -> RouterRow] /\ sender \in [Posts -> SenderRow]
    /\ alerts \in Seq(AlertRow)
    /\ \A f \in Facts : route[f].alert \in 0 .. Len(alerts)
    /\ \A p \in Posts : sender[p].alert \in 0 .. Len(alerts) /\ (sender[p].sending => sender[p].alert # 0)

\* A claimed fact is pending, has no route, and no other router works on it.
ClaimsAreExclusive ==
    /\ \A f \in Facts : /\ queue[f].at = "processed" <=> route[f].result # "none"
                        /\ route[f].result = "none" => route[f].alert = 0
    /\ \A p \in Posts : router[p].at # "idle" => router[p].fact \in Facts /\ queue[router[p].fact].at = "pending"
    /\ \A p, q \in Posts : p # q /\ router[p].at # "idle" /\ router[q].at # "idle" => router[p].fact # router[q].fact

\* The advisory lock of a subject has one holder.
LocksAreExclusive ==
    /\ \A p \in Posts : router[p].at \in {"create", "coalesce"} => \E s \in Subjects : router[p].holds = {s}
    /\ \A p, q \in Posts : p # q => router[p].holds \cap router[q].holds = {}

OpenNow(i, s) == alerts[i].subject = s /\ alerts[i].open /\ alerts[i].recent

\* What a router read under its lock is still so when it commits.
ReadsAreCurrent ==
    \A p \in Posts :
        /\ router[p].at = "create" /\ router[p].window =>
              \A i \in DOMAIN alerts : \A s \in router[p].holds : ~OpenNow(i, s)
        /\ router[p].at = "coalesce" =>
              /\ router[p].alert \in DOMAIN alerts
              /\ alerts[router[p].alert].subject \in router[p].holds
              /\ router[p].count = alerts[router[p].alert].count
              /\ \A j \in DOMAIN alerts : \A s \in router[p].holds : OpenNow(j, s) =>
                    /\ router[p].alert <= j
                    /\ router[p].alert < j => ~alerts[j].window

RoutingInv == ClaimsAreExclusive /\ LocksAreExclusive /\ ReadsAreCurrent /\ AlertCountsItsEvents

\* The claims that have not been sent yet.
Claimers(i) == {p \in Posts : sender[p].alert = i /\ ~sender[p].sending}

\* Every send, made or to come, was counted as an attempt.
SendsAreCounted ==
    \A i \in DOMAIN alerts : alerts[i].delivery.sends + Cardinality(Claimers(i)) <= alerts[i].delivery.tries

OutboxInv == RowsTyped /\ RoutingInv /\ SendsAreCounted /\ SendsAreBounded

OutboxSpec == InitOutbox /\ [][NextOutbox]_outboxVars

\* A process at rest and an event not yet routed are well typed.
LEMMA IdleRows ==
    /\ IdleRouter \in RouterRow /\ IdleRouter.at = "idle" /\ IdleRouter.holds = {}
    /\ IdleSender \in SenderRow /\ IdleSender.alert = 0 /\ ~IdleSender.sending
    /\ Unrouted \in RouteRow /\ Unrouted.result = "none" /\ Unrouted.alert = 0
BY DEF IdleRouter, RouterRow, IdleSender, SenderRow, Unrouted, RouteRow

\* No event, no alert, every process at rest.
LEMMA OutboxInitHolds == InitOutbox => OutboxInv
<1> SUFFICES ASSUME InitOutbox PROVE OutboxInv
  OBVIOUS
<1> DEFINE q0 == [at |-> "none", attempts |-> 0]
<1>1. q0 \in QueueRow /\ q0.at = "none" /\ q0.attempts = 0
  BY DEF QueueRow
<1>2. /\ queue = [f \in Facts |-> q0] /\ route = [f \in Facts |-> Unrouted] /\ alerts = <<>>
      /\ router = [p \in Posts |-> IdleRouter] /\ sender = [p \in Posts |-> IdleSender]
  BY DEF InitOutbox
<1> HIDE DEF q0
<1>3. alerts \in Seq(AlertRow) /\ Len(alerts) = 0 /\ DOMAIN alerts = {}
  BY <1>2
<1>4. RowsTyped
  BY <1>1, <1>2, <1>3, IdleRows DEF RowsTyped
<1>5. ClaimsAreExclusive /\ LocksAreExclusive /\ ReadsAreCurrent
  BY <1>1, <1>2, <1>3, IdleRows DEF ClaimsAreExclusive, LocksAreExclusive, ReadsAreCurrent
<1>6. AlertCountsItsEvents /\ SendsAreCounted /\ SendsAreBounded
  BY <1>3, <1>5 DEF AlertCountsItsEvents, SendsAreCounted, SendsAreBounded, ClaimsAreExclusive
<1> QED
  BY <1>4, <1>5, <1>6 DEF OutboxInv, RoutingInv

\* What leaves the deliveries and the senders alone.
LEMMA DeliveriesStay ==
    ASSUME SendsAreCounted, SendsAreBounded, UNCHANGED sender, DOMAIN alerts' = DOMAIN alerts,
           \A i \in DOMAIN alerts : alerts'[i].delivery = alerts[i].delivery
    PROVE  SendsAreCounted' /\ SendsAreBounded'
<1>1. \A i : Claimers(i)' = Claimers(i)
  BY DEF Claimers
<1> QED
  BY <1>1 DEF SendsAreCounted, SendsAreBounded

\* What leaves the queue, the routes and the routers alone, and makes no alert
\* open or recent.
LEMMA RoutingStays ==
    ASSUME RoutingInv, UNCHANGED <<queue, route, router>>, DOMAIN alerts' = DOMAIN alerts,
           \A i \in DOMAIN alerts :
              /\ alerts'[i].subject = alerts[i].subject /\ alerts'[i].count = alerts[i].count
              /\ alerts'[i].window = alerts[i].window
              /\ alerts'[i].open => alerts[i].open
              /\ alerts'[i].recent => alerts[i].recent
    PROVE  RoutingInv'
<1>1. ClaimsAreExclusive' /\ LocksAreExclusive'
  BY DEF RoutingInv, ClaimsAreExclusive, LocksAreExclusive
<1>2. \A i \in DOMAIN alerts, s \in Subjects : OpenNow(i, s)' => OpenNow(i, s)
  BY DEF OpenNow
<1>3. ReadsAreCurrent'
  <2> SUFFICES ASSUME NEW p \in Posts
               PROVE  /\ router[p].at = "create" /\ router[p].window =>
                            \A i \in DOMAIN alerts : \A s \in router[p].holds : ~OpenNow(i, s)'
                      /\ router[p].at = "coalesce" =>
                            /\ router[p].alert \in DOMAIN alerts
                            /\ alerts'[router[p].alert].subject \in router[p].holds
                            /\ router[p].count = alerts'[router[p].alert].count
                            /\ \A j \in DOMAIN alerts : \A s \in router[p].holds : OpenNow(j, s)' =>
                                  /\ router[p].alert <= j
                                  /\ router[p].alert < j => ~alerts'[j].window
    BY DEF ReadsAreCurrent
  <2>1. \A i \in DOMAIN alerts, s \in router[p].holds : OpenNow(i, s)' => OpenNow(i, s)
    BY DEF OpenNow
  <2> QED
    BY <2>1 DEF RoutingInv, ReadsAreCurrent
<1>4. \A i : RoutedTo(i)' = RoutedTo(i)
  BY DEF RoutedTo
<1>5. AlertCountsItsEvents'
  BY <1>4 DEF RoutingInv, AlertCountsItsEvents
<1> QED
  BY <1>1, <1>3, <1>5 DEF RoutingInv

\* A step of one router that changes nothing else.
LEMMA RouterMoves ==
    ASSUME OutboxInv, NEW p \in Posts, NEW row \in RouterRow, router' = [router EXCEPT ![p] = row],
           UNCHANGED <<queue, route, alerts, sender>>,
           row.at # "idle" =>
              /\ row.fact \in Facts /\ queue[row.fact].at = "pending"
              /\ \A q \in Posts \ {p} : router[q].at # "idle" => router[q].fact # row.fact,
           row.at \in {"create", "coalesce"} => \E s \in Subjects : row.holds = {s},
           \A q \in Posts \ {p} : router[q].holds \cap row.holds = {},
           row.at = "create" /\ row.window => \A i \in DOMAIN alerts : \A s \in row.holds : ~OpenNow(i, s),
           row.at = "coalesce" =>
              /\ row.alert \in DOMAIN alerts /\ alerts[row.alert].subject \in row.holds
              /\ row.count = alerts[row.alert].count
              /\ \A j \in DOMAIN alerts : \A s \in row.holds : OpenNow(j, s) =>
                    row.alert <= j /\ (row.alert < j => ~alerts[j].window)
    PROVE  OutboxInv'
<1>1. router' \in [Posts -> RouterRow] /\ router'[p] = row /\ \A q \in Posts \ {p} : router'[q] = router[q]
  BY DEF OutboxInv, RowsTyped
<1>2. RowsTyped'
  BY <1>1 DEF OutboxInv, RowsTyped
<1>3. ClaimsAreExclusive'
  BY <1>1 DEF OutboxInv, RoutingInv, ClaimsAreExclusive
<1>4. LocksAreExclusive'
  <2>1. \A q \in Posts : router'[q].at \in {"create", "coalesce"} => \E s \in Subjects : router'[q].holds = {s}
    BY <1>1 DEF OutboxInv, RoutingInv, LocksAreExclusive
  <2>2. ASSUME NEW q \in Posts, NEW o \in Posts, q # o PROVE router'[q].holds \cap router'[o].holds = {}
    <3>1. CASE q = p
      BY <1>1, <2>2, <3>1
    <3>2. CASE o = p
      BY <1>1, <2>2, <3>2
    <3>3. CASE q # p /\ o # p
      BY <1>1, <2>2, <3>3 DEF OutboxInv, RoutingInv, LocksAreExclusive
    <3> QED
      BY <3>1, <3>2, <3>3
  <2> QED
    BY <2>1, <2>2 DEF LocksAreExclusive
<1>5. ReadsAreCurrent'
  <2>1. \A i, s : OpenNow(i, s)' = OpenNow(i, s)
    BY DEF OpenNow
  <2> SUFFICES ASSUME NEW q \in Posts
               PROVE  /\ router'[q].at = "create" /\ router'[q].window =>
                            \A i \in DOMAIN alerts : \A s \in router'[q].holds : ~OpenNow(i, s)
                      /\ router'[q].at = "coalesce" =>
                            /\ router'[q].alert \in DOMAIN alerts
                            /\ alerts[router'[q].alert].subject \in router'[q].holds
                            /\ router'[q].count = alerts[router'[q].alert].count
                            /\ \A j \in DOMAIN alerts : \A s \in router'[q].holds : OpenNow(j, s) =>
                                  /\ router'[q].alert <= j
                                  /\ router'[q].alert < j => ~alerts[j].window
    BY <2>1 DEF ReadsAreCurrent
  <2>2. CASE q = p
    BY <1>1, <2>2
  <2>3. CASE q # p
    BY <1>1, <2>3 DEF OutboxInv, RoutingInv, ReadsAreCurrent
  <2> QED
    BY <2>2, <2>3
<1>6. \A i : RoutedTo(i)' = RoutedTo(i)
  BY DEF RoutedTo
<1>7. AlertCountsItsEvents'
  BY <1>6 DEF OutboxInv, RoutingInv, AlertCountsItsEvents
<1>8. SendsAreCounted' /\ SendsAreBounded'
  BY DeliveriesStay DEF OutboxInv
<1> QED
  BY <1>2, <1>3, <1>4, <1>5, <1>7, <1>8 DEF OutboxInv, RoutingInv

\* An event enters the queue.
LEMMA EmitStep ==
    ASSUME OutboxInv, NEW f \in Facts, EmitEvent(f)
    PROVE  OutboxInv'
<1>1. /\ queue[f].at = "none" /\ queue' = [queue EXCEPT ![f].at = "pending"]
      /\ UNCHANGED <<route, alerts, router, sender>>
  BY DEF EmitEvent
<1>2. /\ queue \in [Facts -> QueueRow] /\ queue[f].attempts < MaxAttempts
  BY <1>1 DEF OutboxInv, RowsTyped
<1>3. /\ queue' \in [Facts -> QueueRow] /\ queue'[f].at = "pending" /\ queue'[f].attempts = queue[f].attempts
      /\ \A g \in Facts \ {f} : queue'[g] = queue[g]
  BY <1>1, <1>2 DEF QueueRow
<1>4. RowsTyped'
  BY <1>1, <1>2, <1>3 DEF OutboxInv, RowsTyped
<1>5. ClaimsAreExclusive'
  <2>1. \A g \in Facts : queue'[g].at = "processed" <=> queue[g].at = "processed"
    BY <1>1, <1>3
  <2>2. \A p \in Posts : router[p].at # "idle" => router[p].fact # f
    BY <1>1 DEF OutboxInv, RoutingInv, ClaimsAreExclusive
  <2> QED
    BY <1>1, <1>3, <2>1, <2>2 DEF OutboxInv, RoutingInv, ClaimsAreExclusive
<1>6. LocksAreExclusive' /\ ReadsAreCurrent'
  BY <1>1 DEF OutboxInv, RoutingInv, LocksAreExclusive, ReadsAreCurrent, OpenNow
<1>7. AlertCountsItsEvents'
  <2>1. \A i : RoutedTo(i)' = RoutedTo(i)
    BY <1>1 DEF RoutedTo
  <2> QED
    BY <1>1, <1>5, <2>1 DEF OutboxInv, RoutingInv, AlertCountsItsEvents, ClaimsAreExclusive
<1>8. SendsAreCounted' /\ SendsAreBounded'
  BY <1>1, DeliveriesStay DEF OutboxInv
<1> QED
  BY <1>4, <1>5, <1>6, <1>7, <1>8 DEF OutboxInv, RoutingInv

\* A process claims an event of the queue.
LEMMA ClaimQueueStep ==
    ASSUME OutboxInv, NEW p \in Posts, NEW f \in Facts, ClaimQueue(p, f)
    PROVE  OutboxInv'
<1> DEFINE row == [router[p] EXCEPT !.at = "claimed", !.fact = f]
<1>1. /\ router[p].at = "idle" /\ queue[f].at = "pending"
      /\ \A q \in Posts : router[q].at # "idle" => router[q].fact # f
      /\ router' = [router EXCEPT ![p] = row]
      /\ UNCHANGED <<queue, route, alerts, sender>>
  BY DEF ClaimQueue
<1>2. router[p] \in RouterRow
  BY DEF OutboxInv, RowsTyped
<1>3. row \in RouterRow /\ row.at = "claimed" /\ row.fact = f /\ row.holds = router[p].holds
  BY <1>2 DEF RouterRow
<1>4. \A q \in Posts \ {p} : router[q].holds \cap router[p].holds = {}
  BY DEF OutboxInv, RoutingInv, LocksAreExclusive
<1> HIDE DEF row
<1> QED
  BY <1>1, <1>3, <1>4, RouterMoves

\* A process that dies releases what it held.
LEMMA AbortStep ==
    ASSUME OutboxInv, NEW p \in Posts, RouteAborts(p)
    PROVE  OutboxInv'
<1>1. router' = [router EXCEPT ![p] = IdleRouter] /\ UNCHANGED <<queue, route, alerts, sender>>
  BY DEF RouteAborts, Ends
<1> QED
  BY <1>1, IdleRows, RouterMoves

\* _open_alert_for_dedupe under the advisory lock: the oldest alert, or none.
LEMMA RouteEventStep ==
    ASSUME OutboxInv, NEW p \in Posts, RouteEvent(p)
    PROVE  OutboxInv'
<1>1. PICK s \in Subjects, window \in BOOLEAN :
         /\ router[p].at = "claimed" /\ MayLock(p, s)
         /\ router' = [router EXCEPT ![p] =
               IF OpenAlerts(s, window) = {}
               THEN [router[p] EXCEPT !.at = "create", !.holds = {s}, !.window = window]
               ELSE [router[p] EXCEPT !.at = "coalesce", !.holds = {s},
                        !.alert = CHOOSE a \in OpenAlerts(s, window) : \A b \in OpenAlerts(s, window) : a <= b,
                        !.count = alerts[CHOOSE a \in OpenAlerts(s, window) :
                                             \A b \in OpenAlerts(s, window) : a <= b].count]]
         /\ UNCHANGED <<queue, route, alerts, sender>>
  BY DEF RouteEvent
<1>2. /\ router[p] \in RouterRow /\ alerts \in Seq(AlertRow)
      /\ router[p].fact \in Facts /\ queue[router[p].fact].at = "pending"
      /\ \A q \in Posts \ {p} : router[q].at # "idle" => router[q].fact # router[p].fact
  BY <1>1 DEF OutboxInv, RowsTyped, RoutingInv, ClaimsAreExclusive
<1>3. \A q \in Posts \ {p} : router[q].holds \cap {s} = {}
  BY <1>1 DEF MayLock
<1>u. UNCHANGED <<queue, route, alerts, sender>>
  BY <1>1
<1>4. CASE OpenAlerts(s, window) = {}
  <2> DEFINE row == [router[p] EXCEPT !.at = "create", !.holds = {s}, !.window = window]
  <2>1. router' = [router EXCEPT ![p] = row]
    BY <1>1, <1>4
  <2>2. row \in RouterRow /\ row.at = "create" /\ row.holds = {s} /\ row.window = window /\ row.fact = router[p].fact
    BY <1>2 DEF RouterRow
  <2>3. window => \A i \in DOMAIN alerts : ~OpenNow(i, s)
    BY <1>4 DEF OpenAlerts, OpenNow
  <2> HIDE DEF row
  <2>c. /\ row.fact \in Facts /\ queue[row.fact].at = "pending"
        /\ \A q \in Posts \ {p} : router[q].at # "idle" => router[q].fact # row.fact
    BY <1>2, <2>2
  <2>h. (\E z \in Subjects : row.holds = {z}) /\ \A q \in Posts \ {p} : router[q].holds \cap row.holds = {}
    BY <1>3, <2>2
  <2>w. row.window => \A i \in DOMAIN alerts : \A z \in row.holds : ~OpenNow(i, z)
    BY <2>2, <2>3
  <2>n. row.at # "coalesce"
    BY <2>2
  <2> QED
    BY <1>u, <2>1, <2>2, <2>c, <2>h, <2>w, <2>n, RouterMoves
<1>5. CASE OpenAlerts(s, window) # {}
  <2> DEFINE i == CHOOSE a \in OpenAlerts(s, window) : \A b \in OpenAlerts(s, window) : a <= b
  <2> DEFINE row == [router[p] EXCEPT !.at = "coalesce", !.holds = {s}, !.alert = i, !.count = alerts[i].count]
  <2>1. router' = [router EXCEPT ![p] = row]
    BY <1>1, <1>5
  <2>2. OpenAlerts(s, window) \in SUBSET Nat /\ DOMAIN alerts = 1 .. Len(alerts)
    BY <1>2 DEF OpenAlerts
  <2>3. i \in OpenAlerts(s, window) /\ \A b \in OpenAlerts(s, window) : i <= b
    BY <1>5, <2>2, Least
  <2> HIDE DEF i
  <2>4. /\ i \in DOMAIN alerts /\ i \in Nat /\ alerts[i] \in AlertRow
        /\ alerts[i].subject = s /\ alerts[i].open /\ alerts[i].recent /\ window
    BY <1>2, <2>2, <2>3 DEF OpenAlerts
  <2>5. row \in RouterRow /\ row.at = "coalesce" /\ row.holds = {s} /\ row.alert = i
        /\ row.count = alerts[i].count /\ row.fact = router[p].fact
    BY <1>2, <2>4 DEF RouterRow, AlertRow
  <2>6. \A j \in DOMAIN alerts : OpenNow(j, s) => j \in OpenAlerts(s, window)
    BY <2>4 DEF OpenAlerts, OpenNow
  <2>7. \A j \in DOMAIN alerts : OpenNow(j, s) => i <= j /\ (i < j => ~alerts[j].window)
    <3> SUFFICES ASSUME NEW j \in DOMAIN alerts, OpenNow(j, s), i < j PROVE ~alerts[j].window
      BY <2>3, <2>6
    <3> QED
      BY <2>4 DEF OutboxInv, RoutingInv, AlertCountsItsEvents, OpenNow
  <2> HIDE DEF row
  <2>c. /\ row.fact \in Facts /\ queue[row.fact].at = "pending"
        /\ \A q \in Posts \ {p} : router[q].at # "idle" => router[q].fact # row.fact
    BY <1>2, <2>5
  <2>h. (\E z \in Subjects : row.holds = {z}) /\ \A q \in Posts \ {p} : router[q].holds \cap row.holds = {}
    BY <1>3, <2>5
  <2>w. /\ row.alert \in DOMAIN alerts /\ alerts[row.alert].subject \in row.holds
        /\ row.count = alerts[row.alert].count
        /\ \A j \in DOMAIN alerts : \A z \in row.holds : OpenNow(j, z) =>
              row.alert <= j /\ (row.alert < j => ~alerts[j].window)
    BY <2>4, <2>5, <2>7
  <2>n. row.at # "create" /\ row \in RouterRow
    BY <2>5
  <2> QED
    BY <1>u, <2>1, <2>c, <2>h, <2>w, <2>n, RouterMoves
<1> QED
  BY <1>4, <1>5

\* A routing transaction that raises no alert and adds to none.
LEMMA RowEnds ==
    ASSUME OutboxInv, NEW p \in Posts, router[p].at # "idle", NEW qr \in QueueRow, NEW rt \in RouteRow,
           queue' = [queue EXCEPT ![router[p].fact] = qr], route' = [route EXCEPT ![router[p].fact] = rt],
           qr.at \in {"none", "pending"} => qr.attempts < MaxAttempts,
           qr.at = "processed" <=> rt.result # "none", rt.alert = 0,
           Ends(p), UNCHANGED <<alerts, sender>>
    PROVE  OutboxInv'
<1> DEFINE f == router[p].fact
<1>1. f \in Facts /\ queue[f].at = "pending" /\ route[f].alert = 0
  BY DEF OutboxInv, RoutingInv, ClaimsAreExclusive
<1>2. /\ queue' \in [Facts -> QueueRow] /\ queue'[f] = qr /\ \A g \in Facts \ {f} : queue'[g] = queue[g]
      /\ route' \in [Facts -> RouteRow] /\ route'[f] = rt /\ \A g \in Facts \ {f} : route'[g] = route[g]
  BY <1>1 DEF OutboxInv, RowsTyped
<1>3. /\ router' \in [Posts -> RouterRow] /\ router'[p].at = "idle" /\ router'[p].holds = {}
      /\ \A q \in Posts \ {p} : router'[q] = router[q]
  BY IdleRows DEF OutboxInv, RowsTyped, Ends
<1>4. \A q \in Posts \ {p} : router[q].at # "idle" => router[q].fact # f
  BY DEF OutboxInv, RoutingInv, ClaimsAreExclusive
<1> HIDE DEF f
<1>5. RowsTyped'
  <2>1. \A g \in Facts : route'[g].alert \in 0 .. Len(alerts)
    BY <1>2 DEF OutboxInv, RowsTyped
  <2>2. \A g \in Facts : queue'[g].at \in {"none", "pending"} => queue'[g].attempts < MaxAttempts
    BY <1>2 DEF OutboxInv, RowsTyped
  <2> QED
    BY <1>2, <1>3, <2>1, <2>2 DEF OutboxInv, RowsTyped
<1>6. ClaimsAreExclusive'
  <2>1. \A g \in Facts : (queue'[g].at = "processed" <=> route'[g].result # "none")
                         /\ (route'[g].result = "none" => route'[g].alert = 0)
    BY <1>2 DEF OutboxInv, RoutingInv, ClaimsAreExclusive
  <2>2. \A q \in Posts : router'[q].at # "idle" => q # p /\ router'[q] = router[q] /\ router[q].fact # f
    BY <1>3, <1>4
  <2>3. \A q \in Posts : router'[q].at # "idle" => router'[q].fact \in Facts /\ queue'[router'[q].fact].at = "pending"
    BY <1>2, <2>2 DEF OutboxInv, RoutingInv, ClaimsAreExclusive
  <2> QED
    BY <2>1, <2>2, <2>3 DEF OutboxInv, RoutingInv, ClaimsAreExclusive
<1>7. LocksAreExclusive'
  BY <1>3 DEF OutboxInv, RoutingInv, LocksAreExclusive
<1>8. ReadsAreCurrent'
  <2>1. \A i, s : OpenNow(i, s)' = OpenNow(i, s)
    BY DEF OpenNow
  <2> SUFFICES ASSUME NEW q \in Posts \ {p}
               PROVE  /\ router'[q].at = "create" /\ router'[q].window =>
                            \A i \in DOMAIN alerts : \A s \in router'[q].holds : ~OpenNow(i, s)
                      /\ router'[q].at = "coalesce" =>
                            /\ router'[q].alert \in DOMAIN alerts
                            /\ alerts[router'[q].alert].subject \in router'[q].holds
                            /\ router'[q].count = alerts[router'[q].alert].count
                            /\ \A j \in DOMAIN alerts : \A s \in router'[q].holds : OpenNow(j, s) =>
                                  /\ router'[q].alert <= j
                                  /\ router'[q].alert < j => ~alerts[j].window
    BY <1>3, <2>1 DEF ReadsAreCurrent
  <2> QED
    BY <1>3 DEF OutboxInv, RoutingInv, ReadsAreCurrent
<1>9. AlertCountsItsEvents'
  <2>1. \A i \in DOMAIN alerts : RoutedTo(i)' = RoutedTo(i)
    <3>1. \A i \in DOMAIN alerts : i # 0
      BY DEF OutboxInv, RowsTyped
    <3> QED
      BY <1>1, <1>2, <3>1 DEF RoutedTo, f
  <2> QED
    BY <1>6, <2>1 DEF OutboxInv, RoutingInv, AlertCountsItsEvents, ClaimsAreExclusive
<1>10. SendsAreCounted' /\ SendsAreBounded'
  BY DeliveriesStay DEF OutboxInv
<1> QED
  BY <1>5, <1>6, <1>7, <1>8, <1>9, <1>10 DEF OutboxInv, RoutingInv

\* The attempts of a claimed fact are not used up.
LEMMA ClaimedAttempts ==
    ASSUME OutboxInv, NEW p \in Posts, router[p].at # "idle"
    PROVE  /\ router[p].fact \in Facts /\ queue[router[p].fact] \in QueueRow
           /\ queue[router[p].fact].at = "pending" /\ route[router[p].fact] \in RouteRow
           /\ route[router[p].fact].result = "none" /\ route[router[p].fact].alert = 0
           /\ queue[router[p].fact].attempts + 1 \in 0 .. MaxAttempts
<1>1. router[p].fact \in Facts /\ queue[router[p].fact].at = "pending"
  BY DEF OutboxInv, RoutingInv, ClaimsAreExclusive
<1>2. queue[router[p].fact] \in QueueRow /\ queue[router[p].fact].attempts < MaxAttempts /\ route[router[p].fact] \in RouteRow
  BY <1>1 DEF OutboxInv, RowsTyped
<1>3. route[router[p].fact].result = "none" /\ route[router[p].fact].alert = 0
  BY <1>1 DEF OutboxInv, RoutingInv, ClaimsAreExclusive
<1> QED
  BY <1>1, <1>2, <1>3 DEF QueueRow

\* An event without an alert, or with an error, leaves the counts alone.
LEMMA RouteNothingStep ==
    ASSUME OutboxInv, NEW p \in Posts, RouteNothing(p) \/ RouteFails(p)
    PROVE  OutboxInv'
<1> DEFINE f == router[p].fact
<1>1. CASE RouteNothing(p)
  <2> DEFINE qr == [at |-> "processed", attempts |-> queue[f].attempts + 1]
  <2> DEFINE rt == [result |-> "no_notification", alert |-> 0]
  <2>1. /\ router[p].at # "idle" /\ Ends(p) /\ UNCHANGED <<alerts, sender>>
        /\ queue' = [queue EXCEPT ![f] = qr] /\ route' = [route EXCEPT ![f] = rt]
    BY <1>1 DEF RouteNothing, Processed
  <2>2. /\ qr \in QueueRow /\ qr.at = "processed" /\ rt \in RouteRow /\ rt.result # "none" /\ rt.alert = 0
    BY <2>1, ClaimedAttempts DEF QueueRow, RouteRow
  <2> HIDE DEF qr, rt
  <2> QED
    BY <2>1, <2>2, RowEnds
<1>2. CASE RouteFails(p)
  <2> DEFINE n == queue[f].attempts + 1
  <2> DEFINE qr == [at |-> AfterFailure(n), attempts |-> n]
  <2>1. /\ router[p].at # "idle" /\ Ends(p) /\ UNCHANGED <<route, alerts, sender>>
        /\ queue' = [queue EXCEPT ![f] = qr]
    BY <1>2 DEF RouteFails
  <2>2. /\ f \in Facts /\ n \in 0 .. MaxAttempts /\ route[f] \in RouteRow /\ route[f].result = "none" /\ route[f].alert = 0
    BY <2>1, ClaimedAttempts
  <2>3. route' = [route EXCEPT ![f] = route[f]]
    BY <2>1, <2>2 DEF OutboxInv, RowsTyped
  <2>4. qr \in QueueRow /\ qr.at # "processed" /\ (qr.at \in {"none", "pending"} => qr.attempts < MaxAttempts)
    BY <2>2 DEF QueueRow, AfterFailure
  <2> HIDE DEF qr, n
  <2> QED
    BY <2>1, <2>2, <2>3, <2>4, RowEnds
<1> QED
  BY <1>1, <1>2
\* The rows of the fact and of the router after either kind of commit, with
\* the alert k the fact is routed to.
LEMMA FactIsRouted ==
    ASSUME OutboxInv, NEW p \in Posts, router[p].at # "idle", NEW k \in Nat, k # 0,
           NEW rt \in RouteRow, rt.result # "none", rt.alert = k, route' = [route EXCEPT ![router[p].fact] = rt],
           Processed(router[p].fact), Ends(p), UNCHANGED sender,
           alerts' \in Seq(AlertRow), Len(alerts) <= Len(alerts'), k <= Len(alerts')
    PROVE  /\ RowsTyped' /\ ClaimsAreExclusive' /\ LocksAreExclusive'
           /\ router'[p].at = "idle" /\ \A q \in Posts \ {p} : router'[q] = router[q]
           /\ \A i \in Nat : i # 0 /\ i # k => RoutedTo(i)' = RoutedTo(i)
           /\ RoutedTo(k)' = RoutedTo(k) \cup {router[p].fact}
           /\ router[p].fact \in Facts /\ router[p].fact \notin RoutedTo(k)
<1> DEFINE f == router[p].fact
<1> DEFINE qr == [at |-> "processed", attempts |-> queue[f].attempts + 1]
<1>1. /\ f \in Facts /\ queue[f].at = "pending" /\ route[f].alert = 0 /\ queue[f].attempts + 1 \in 0 .. MaxAttempts
  BY ClaimedAttempts
<1>2. qr \in QueueRow /\ qr.at = "processed"
  BY <1>1 DEF QueueRow
<1>3. queue' = [queue EXCEPT ![f] = qr] /\ route' = [route EXCEPT ![f] = rt]
  BY DEF Processed
<1> HIDE DEF qr
<1>4. /\ queue' \in [Facts -> QueueRow] /\ queue'[f] = qr /\ \A g \in Facts \ {f} : queue'[g] = queue[g]
      /\ route' \in [Facts -> RouteRow] /\ route'[f] = rt /\ \A g \in Facts \ {f} : route'[g] = route[g]
  BY <1>1, <1>2, <1>3 DEF OutboxInv, RowsTyped
<1>5. /\ router' \in [Posts -> RouterRow] /\ router'[p].at = "idle" /\ router'[p].holds = {}
      /\ \A q \in Posts \ {p} : router'[q] = router[q]
  BY IdleRows DEF OutboxInv, RowsTyped, Ends
<1>6. \A q \in Posts \ {p} : router[q].at # "idle" => router[q].fact # f
  BY DEF OutboxInv, RoutingInv, ClaimsAreExclusive
<1> HIDE DEF f
<1>7. RowsTyped'
  <2>0. Len(alerts) \in Nat /\ Len(alerts') \in Nat
    BY DEF OutboxInv, RowsTyped
  <2>1. \A g \in Facts : route'[g].alert \in 0 .. Len(alerts')
    <3> SUFFICES ASSUME NEW g \in Facts PROVE route'[g].alert \in 0 .. Len(alerts')
      OBVIOUS
    <3>1. CASE g = f
      BY <1>2, <1>4, <2>0, <3>1
    <3>2. CASE g # f
      BY <1>4, <2>0, <3>2 DEF OutboxInv, RowsTyped
    <3> QED
      BY <3>1, <3>2
  <2>2. \A g \in Facts : queue'[g].at \in {"none", "pending"} => queue'[g].attempts < MaxAttempts
    BY <1>2, <1>4 DEF OutboxInv, RowsTyped
  <2>3. \A q \in Posts : sender'[q].alert \in 0 .. Len(alerts') /\ (sender'[q].sending => sender'[q].alert # 0)
    BY <2>0 DEF OutboxInv, RowsTyped
  <2>4. sender' \in [Posts -> SenderRow]
    BY DEF OutboxInv, RowsTyped
  <2> QED
    BY <1>4, <1>5, <2>1, <2>2, <2>3, <2>4 DEF RowsTyped
<1>8. ClaimsAreExclusive'
  <2>1. \A g \in Facts : (queue'[g].at = "processed" <=> route'[g].result # "none")
                         /\ (route'[g].result = "none" => route'[g].alert = 0)
    BY <1>2, <1>4 DEF OutboxInv, RoutingInv, ClaimsAreExclusive
  <2>2. \A q \in Posts : router'[q].at # "idle" => q # p /\ router'[q] = router[q] /\ router[q].fact # f
    BY <1>5, <1>6
  <2>3. \A q \in Posts : router'[q].at # "idle" => router'[q].fact \in Facts /\ queue'[router'[q].fact].at = "pending"
    BY <1>4, <2>2 DEF OutboxInv, RoutingInv, ClaimsAreExclusive
  <2> QED
    BY <2>1, <2>2, <2>3 DEF OutboxInv, RoutingInv, ClaimsAreExclusive
<1>9. LocksAreExclusive'
  BY <1>5 DEF OutboxInv, RoutingInv, LocksAreExclusive
<1>10. /\ \A i \in Nat : i # 0 /\ i # k => RoutedTo(i)' = RoutedTo(i)
       /\ RoutedTo(k)' = RoutedTo(k) \cup {f} /\ f \notin RoutedTo(k)
  BY <1>1, <1>2, <1>4 DEF RoutedTo
<1> QED
  BY <1>1, <1>5, <1>7, <1>8, <1>9, <1>10 DEF f

\* The new alert is the only live one of its subject, or has no window; no
\* other router reads its subject meanwhile.
LEMMA CommitCreatedStep ==
    ASSUME OutboxInv, NEW p \in Posts, CommitCreated(p)
    PROVE  OutboxInv'
<1> DEFINE r == router[p]
<1>1. PICK s \in Subjects : r.holds = {s}
  BY DEF CommitCreated, OutboxInv, RoutingInv, LocksAreExclusive
<1>2. /\ r.at = "create" /\ r \in RouterRow /\ alerts \in Seq(AlertRow) /\ Len(alerts) \in Nat
      /\ DOMAIN alerts = 1 .. Len(alerts)
  BY DEF CommitCreated, OutboxInv, RowsTyped
<1>k. PICK k \in Nat : k = Len(alerts) + 1 /\ k # 0
  BY <1>2
<1>3. PICK channel \in BOOLEAN : alerts' = Append(alerts,
          [subject |-> CHOOSE z \in r.holds : TRUE, open |-> TRUE, recent |-> TRUE,
           window |-> r.window, count |-> 1, delivery |-> Enqueued(channel)])
  BY DEF CommitCreated
<1> DEFINE a == [subject |-> s, open |-> TRUE, recent |-> TRUE, window |-> r.window, count |-> 1, delivery |-> Enqueued(channel)]
<1>4. alerts' = Append(alerts, a)
  BY <1>1, <1>3
<1>5. Enqueued(channel) \in DeliveryRow /\ Enqueued(channel).sends = 0 /\ Enqueued(channel).tries = 0
  BY DEF Enqueued, DeliveryRow
<1>6. /\ a \in AlertRow /\ a.subject = s /\ a.window = r.window /\ a.count = 1
      /\ a.delivery.sends = 0 /\ a.delivery.tries = 0
  BY <1>2, <1>5 DEF AlertRow, RouterRow
<1> HIDE DEF a
<1>7. /\ alerts' \in Seq(AlertRow) /\ Len(alerts') = k /\ DOMAIN alerts' = 1 .. k /\ alerts'[k] = a
      /\ \A i \in DOMAIN alerts : alerts'[i] = alerts[i]
  BY <1>2, <1>k, <1>4, <1>6, AppendProperties
<1> DEFINE rt == [result |-> "created", alert |-> k]
<1>8. /\ route' = [route EXCEPT ![r.fact] = rt]
      /\ Processed(r.fact) /\ Ends(p) /\ UNCHANGED sender
  BY <1>k DEF CommitCreated
<1>r. rt \in RouteRow /\ rt.result # "none" /\ rt.alert = k
  BY DEF RouteRow
<1> HIDE DEF rt
<1>9. /\ RowsTyped' /\ ClaimsAreExclusive' /\ LocksAreExclusive'
      /\ router'[p].at = "idle" /\ \A q \in Posts \ {p} : router'[q] = router[q]
      /\ \A i \in Nat : i # 0 /\ i # k => RoutedTo(i)' = RoutedTo(i)
      /\ RoutedTo(k)' = RoutedTo(k) \cup {r.fact}
      /\ r.fact \in Facts /\ r.fact \notin RoutedTo(k)
  <2>1. k <= Len(alerts') /\ Len(alerts) <= Len(alerts') /\ r.at # "idle"
    BY <1>2, <1>k, <1>7
  <2> QED
    BY <1>k, <1>7, <1>8, <1>r, <2>1, FactIsRouted
<1>10. \A i \in DOMAIN alerts' : i = k \/ (i \in DOMAIN alerts /\ i < k)
  BY <1>2, <1>k, <1>7
<1>11. \A i \in DOMAIN alerts : i \in Nat /\ i # 0 /\ i # k /\ i \in DOMAIN alerts'
  BY <1>2, <1>k, <1>7
<1>12. RoutedTo(k) = {}
  <2>1. \A f \in Facts : route[f].alert # k
    BY <1>2, <1>k DEF OutboxInv, RowsTyped
  <2> QED
    BY <2>1 DEF RoutedTo
<1>13. \A i \in DOMAIN alerts : \A z : OpenNow(i, z)' <=> OpenNow(i, z)
  BY <1>7 DEF OpenNow
<1>14. \A z : OpenNow(k, z)' => z = s
  BY <1>6, <1>7 DEF OpenNow
<1>15. ReadsAreCurrent'
  <2> SUFFICES ASSUME NEW q \in Posts \ {p}
               PROVE  /\ router[q].at = "create" /\ router[q].window =>
                            \A i \in DOMAIN alerts' : \A z \in router[q].holds : ~OpenNow(i, z)'
                      /\ router[q].at = "coalesce" =>
                            /\ router[q].alert \in DOMAIN alerts'
                            /\ alerts'[router[q].alert].subject \in router[q].holds
                            /\ router[q].count = alerts'[router[q].alert].count
                            /\ \A j \in DOMAIN alerts' : \A z \in router[q].holds : OpenNow(j, z)' =>
                                  /\ router[q].alert <= j
                                  /\ router[q].alert < j => ~alerts'[j].window
    BY <1>9 DEF ReadsAreCurrent
  <2>1. s \notin router[q].holds
    BY <1>1 DEF OutboxInv, RoutingInv, LocksAreExclusive
  <2>2. \A j \in DOMAIN alerts', z \in router[q].holds : OpenNow(j, z)' => j \in DOMAIN alerts /\ OpenNow(j, z)
    BY <1>10, <1>13, <1>14, <2>1
  <2> QED
    BY <1>7, <1>11, <2>2 DEF OutboxInv, RoutingInv, ReadsAreCurrent
<1>16. AlertCountsItsEvents'
  <2>1. \A i \in DOMAIN alerts' : alerts'[i].count = Cardinality(RoutedTo(i)')
    <3> SUFFICES ASSUME NEW i \in DOMAIN alerts' PROVE alerts'[i].count = Cardinality(RoutedTo(i)')
      OBVIOUS
    <3>1. CASE i = k
      <4>1. RoutedTo(k)' = {r.fact}
        BY <1>9, <1>12
      <4> QED
        BY <1>6, <1>7, <3>1, <4>1, FS_Singleton
    <3>2. CASE i \in DOMAIN alerts
      BY <1>7, <1>9, <1>11, <3>2 DEF OutboxInv, RoutingInv, AlertCountsItsEvents
    <3> QED
      BY <1>10, <3>1, <3>2
  <2>2. ASSUME NEW i \in DOMAIN alerts', NEW j \in DOMAIN alerts', i < j, alerts'[i].subject = alerts'[j].subject,
               alerts'[i].open, alerts'[j].open, alerts'[i].recent, alerts'[j].recent
        PROVE  ~alerts'[j].window
    <3>1. CASE j = k
      <4>1. i \in DOMAIN alerts /\ OpenNow(i, s)
        BY <1>2, <1>k, <1>6, <1>7, <1>10, <2>2, <3>1 DEF OpenNow
      <4>2. ~r.window
        BY <1>1, <1>2, <4>1 DEF OutboxInv, RoutingInv, ReadsAreCurrent
      <4> QED
        BY <1>6, <1>7, <3>1, <4>2
    <3>2. CASE j \in DOMAIN alerts /\ j < k
      <4>1. i \in DOMAIN alerts
        BY <1>2, <1>k, <1>10, <2>2, <3>2
      <4> QED
        BY <1>7, <2>2, <3>2, <4>1 DEF OutboxInv, RoutingInv, AlertCountsItsEvents
    <3> QED
      BY <1>10, <3>1, <3>2
  <2> QED
    BY <1>9, <2>1, <2>2 DEF AlertCountsItsEvents, ClaimsAreExclusive
<1>17. SendsAreCounted' /\ SendsAreBounded'
  <2>1. \A i : Claimers(i)' = Claimers(i)
    BY <1>8 DEF Claimers
  <2>2. Claimers(k) = {}
    BY <1>2, <1>k DEF Claimers, OutboxInv, RowsTyped
  <2> SUFFICES ASSUME NEW i \in DOMAIN alerts'
               PROVE  /\ alerts'[i].delivery.sends + Cardinality(Claimers(i)) <= alerts'[i].delivery.tries
                      /\ alerts'[i].delivery.sends <= MaxAttempts
    BY <2>1 DEF SendsAreCounted, SendsAreBounded
  <2>3. CASE i = k
    <3>1. Cardinality(Claimers(i)) = 0
      BY <2>2, <2>3, FS_EmptySet
    <3>2. alerts'[i].delivery.sends = 0 /\ alerts'[i].delivery.tries = 0
      BY <1>6, <1>7, <2>3
    <3> QED
      BY <3>1, <3>2
  <2>4. CASE i \in DOMAIN alerts
    BY <1>7, <2>4 DEF OutboxInv, SendsAreCounted, SendsAreBounded
  <2> QED
    BY <1>10, <2>3, <2>4
<1> QED
  BY <1>9, <1>15, <1>16, <1>17 DEF OutboxInv, RoutingInv

\* The alert a router adds to is of the subject it locked: its count is as
\* read, and it is the oldest live alert of the subject if it is live.
LEMMA CommitCoalescedStep ==
    ASSUME OutboxInv, NEW p \in Posts, CommitCoalesced(p)
    PROVE  OutboxInv'
<1> DEFINE r == router[p]
<1>1. PICK s \in Subjects : r.holds = {s}
  BY DEF CommitCoalesced, OutboxInv, RoutingInv, LocksAreExclusive
<1>2. /\ r.at = "coalesce" /\ r \in RouterRow /\ alerts \in Seq(AlertRow) /\ Len(alerts) \in Nat
      /\ DOMAIN alerts = 1 .. Len(alerts)
  BY DEF CommitCoalesced, OutboxInv, RowsTyped
<1>k. PICK k \in Nat : k = r.alert
  BY <1>2 DEF RouterRow
<1>3. /\ k \in DOMAIN alerts /\ alerts[k].subject = s /\ r.count = alerts[k].count
      /\ \A j \in DOMAIN alerts : OpenNow(j, s) => k <= j /\ (k < j => ~alerts[j].window)
  BY <1>1, <1>2, <1>k DEF OutboxInv, RoutingInv, ReadsAreCurrent
<1>4. k \in Nat /\ k # 0 /\ alerts[k] \in AlertRow
  BY <1>2, <1>3
<1>5. alerts' = [alerts EXCEPT ![k].count = r.count + 1, ![k].recent = TRUE]
  BY <1>k DEF CommitCoalesced
<1> DEFINE n == r.count + 1
<1> DEFINE a == [alerts[k] EXCEPT !.count = n, !.recent = TRUE]
<1>6. alerts' = [alerts EXCEPT ![k] = a]
  BY <1>2, <1>3, <1>5
<1>7. /\ a \in AlertRow /\ a.subject = s /\ a.open = alerts[k].open /\ a.window = alerts[k].window
      /\ a.count = alerts[k].count + 1 /\ a.delivery = alerts[k].delivery
  <2>1. n \in Nat /\ n = alerts[k].count + 1
    BY <1>3, <1>4 DEF AlertRow
  <2> HIDE DEF n
  <2> QED
    BY <1>3, <1>4, <2>1 DEF AlertRow
<1> HIDE DEF a, n
<1>8. /\ alerts' \in Seq(AlertRow) /\ Len(alerts') = Len(alerts) /\ DOMAIN alerts' = DOMAIN alerts /\ alerts'[k] = a
      /\ \A i \in DOMAIN alerts \ {k} : alerts'[i] = alerts[i]
  BY <1>2, <1>3, <1>6, <1>7
<1> DEFINE rt == [result |-> "coalesced", alert |-> k]
<1>9. /\ route' = [route EXCEPT ![r.fact] = rt]
      /\ Processed(r.fact) /\ Ends(p) /\ UNCHANGED sender
  BY <1>k DEF CommitCoalesced
<1>r. rt \in RouteRow /\ rt.result # "none" /\ rt.alert = k
  BY DEF RouteRow
<1> HIDE DEF rt
<1>10. /\ RowsTyped' /\ ClaimsAreExclusive' /\ LocksAreExclusive'
       /\ router'[p].at = "idle" /\ \A q \in Posts \ {p} : router'[q] = router[q]
       /\ \A i \in Nat : i # 0 /\ i # k => RoutedTo(i)' = RoutedTo(i)
       /\ RoutedTo(k)' = RoutedTo(k) \cup {r.fact}
       /\ r.fact \in Facts /\ r.fact \notin RoutedTo(k)
  <2>1. k <= Len(alerts') /\ Len(alerts) <= Len(alerts') /\ r.at # "idle"
    BY <1>2, <1>3, <1>8
  <2> QED
    BY <1>4, <1>8, <1>9, <1>r, <2>1, FactIsRouted
<1>11. \A i \in DOMAIN alerts \ {k} : \A z : OpenNow(i, z)' <=> OpenNow(i, z)
  BY <1>8 DEF OpenNow
<1>12. \A z : OpenNow(k, z)' => z = s
  BY <1>7, <1>8 DEF OpenNow
<1>13. ReadsAreCurrent'
  <2> SUFFICES ASSUME NEW q \in Posts \ {p}
               PROVE  /\ router[q].at = "create" /\ router[q].window =>
                            \A i \in DOMAIN alerts : \A z \in router[q].holds : ~OpenNow(i, z)'
                      /\ router[q].at = "coalesce" =>
                            /\ router[q].alert \in DOMAIN alerts
                            /\ alerts'[router[q].alert].subject \in router[q].holds
                            /\ router[q].count = alerts'[router[q].alert].count
                            /\ \A j \in DOMAIN alerts : \A z \in router[q].holds : OpenNow(j, z)' =>
                                  /\ router[q].alert <= j
                                  /\ router[q].alert < j => ~alerts'[j].window
    BY <1>8, <1>10 DEF ReadsAreCurrent
  <2>1. s \notin router[q].holds
    BY <1>1 DEF OutboxInv, RoutingInv, LocksAreExclusive
  <2>2. \A j \in DOMAIN alerts, z \in router[q].holds : OpenNow(j, z)' => j # k /\ OpenNow(j, z)
    BY <1>11, <1>12, <2>1
  <2>3. CASE router[q].at = "coalesce"
    <3>1. /\ router[q].alert \in DOMAIN alerts /\ alerts[router[q].alert].subject \in router[q].holds
          /\ router[q].count = alerts[router[q].alert].count
      BY <2>3 DEF OutboxInv, RoutingInv, ReadsAreCurrent
    <3>2. alerts'[router[q].alert] = alerts[router[q].alert]
      BY <1>3, <1>8, <2>1, <3>1
    <3> QED
      BY <1>8, <2>2, <2>3, <3>1, <3>2 DEF OutboxInv, RoutingInv, ReadsAreCurrent
  <2>4. CASE router[q].at # "coalesce"
    BY <2>2, <2>4 DEF OutboxInv, RoutingInv, ReadsAreCurrent
  <2> QED
    BY <2>3, <2>4
<1>14. AlertCountsItsEvents'
  <2>1. \A i \in DOMAIN alerts : alerts'[i].count = Cardinality(RoutedTo(i)')
    <3> SUFFICES ASSUME NEW i \in DOMAIN alerts PROVE alerts'[i].count = Cardinality(RoutedTo(i)')
      OBVIOUS
    <3>1. CASE i = k
      <4>1. IsFiniteSet(RoutedTo(k))
        BY FS_Subset DEF RoutedTo
      <4>2. Cardinality(RoutedTo(k) \cup {r.fact}) = Cardinality(RoutedTo(k)) + 1
        BY <1>10, <4>1, FS_AddElement
      <4>3. alerts[k].count = Cardinality(RoutedTo(k))
        BY <1>3 DEF OutboxInv, RoutingInv, AlertCountsItsEvents
      <4> QED
        BY <1>7, <1>8, <1>10, <3>1, <4>2, <4>3
    <3>2. CASE i # k
      <4>1. i \in Nat /\ i # 0 /\ i # k
        BY <1>2, <3>2
      <4> QED
        BY <1>8, <1>10, <3>2, <4>1 DEF OutboxInv, RoutingInv, AlertCountsItsEvents
    <3> QED
      BY <3>1, <3>2
  <2>2. ASSUME NEW i \in DOMAIN alerts, NEW j \in DOMAIN alerts, i < j, alerts'[i].subject = alerts'[j].subject,
               alerts'[i].open, alerts'[j].open, alerts'[i].recent, alerts'[j].recent
        PROVE  ~alerts'[j].window
    <3>1. CASE i = k
      <4>1. alerts'[j] = alerts[j] /\ OpenNow(j, s)
        BY <1>2, <1>3, <1>7, <1>8, <2>2, <3>1 DEF OpenNow
      <4> QED
        BY <1>3, <2>2, <3>1, <4>1
    <3>2. CASE j = k
      <4>1. i # k /\ alerts'[i] = alerts[i] /\ OpenNow(i, s)
        BY <1>2, <1>3, <1>7, <1>8, <2>2, <3>2 DEF OpenNow
      <4>2. k <= i
        BY <1>3, <4>1
      <4> QED
        BY <1>2, <1>3, <2>2, <3>2, <4>2
    <3>3. CASE i # k /\ j # k
      BY <1>8, <2>2, <3>3 DEF OutboxInv, RoutingInv, AlertCountsItsEvents
    <3> QED
      BY <3>1, <3>2, <3>3
  <2> QED
    BY <1>8, <1>10, <2>1, <2>2 DEF AlertCountsItsEvents, ClaimsAreExclusive
<1>15. SendsAreCounted' /\ SendsAreBounded'
  <2>1. \A i \in DOMAIN alerts : alerts'[i].delivery = alerts[i].delivery
    BY <1>3, <1>7, <1>8
  <2> QED
    BY <1>8, <1>9, <2>1, DeliveriesStay DEF OutboxInv
<1> QED
  BY <1>10, <1>13, <1>14, <1>15 DEF OutboxInv, RoutingInv
\* ack_alert, and the end of a suppression window.
LEMMA AlertEndsStep ==
    ASSUME OutboxInv, NEW i \in DOMAIN alerts, AckAlert(i) \/ WindowEnds(i)
    PROVE  OutboxInv'
<1>1. PICK a \in AlertRow :
         /\ alerts' = [alerts EXCEPT ![i] = a]
         /\ a.subject = alerts[i].subject /\ a.count = alerts[i].count /\ a.window = alerts[i].window
         /\ a.delivery = alerts[i].delivery
         /\ a.open => alerts[i].open
         /\ a.recent => alerts[i].recent
  <2>0. alerts[i] \in AlertRow
    BY DEF OutboxInv, RowsTyped
  <2>1. CASE AckAlert(i)
    <3> DEFINE a == [alerts[i] EXCEPT !.open = FALSE]
    <3>1. alerts' = [alerts EXCEPT ![i] = a]
      BY <2>1 DEF AckAlert
    <3>2. /\ a \in AlertRow /\ a.subject = alerts[i].subject /\ a.count = alerts[i].count
          /\ a.window = alerts[i].window /\ a.delivery = alerts[i].delivery /\ ~a.open /\ a.recent = alerts[i].recent
      BY <2>0 DEF AlertRow
    <3> HIDE DEF a
    <3> QED
      BY <3>1, <3>2
  <2>2. CASE WindowEnds(i)
    <3> DEFINE a == [alerts[i] EXCEPT !.recent = FALSE]
    <3>1. alerts' = [alerts EXCEPT ![i] = a]
      BY <2>2 DEF WindowEnds
    <3>2. /\ a \in AlertRow /\ a.subject = alerts[i].subject /\ a.count = alerts[i].count
          /\ a.window = alerts[i].window /\ a.delivery = alerts[i].delivery /\ ~a.recent /\ a.open = alerts[i].open
      BY <2>0 DEF AlertRow
    <3> HIDE DEF a
    <3> QED
      BY <3>1, <3>2
  <2> QED
    BY <2>1, <2>2
<1>2. UNCHANGED <<queue, route, router, sender>>
  BY DEF AckAlert, WindowEnds
<1>3. alerts \in Seq(AlertRow)
  BY DEF OutboxInv, RowsTyped
<1>4. /\ alerts' \in Seq(AlertRow) /\ Len(alerts') = Len(alerts) /\ DOMAIN alerts' = DOMAIN alerts
      /\ alerts'[i] = a /\ \A j \in DOMAIN alerts \ {i} : alerts'[j] = alerts[j]
  BY <1>1, <1>3
<1>5. RowsTyped'
  BY <1>2, <1>4 DEF OutboxInv, RowsTyped
<1>6. RoutingInv'
  <2>1. \A j \in DOMAIN alerts :
              /\ alerts'[j].subject = alerts[j].subject /\ alerts'[j].count = alerts[j].count
              /\ alerts'[j].window = alerts[j].window
              /\ alerts'[j].open => alerts[j].open
              /\ alerts'[j].recent => alerts[j].recent
    BY <1>1, <1>4
  <2> QED
    BY <1>2, <1>4, <2>1, RoutingStays DEF OutboxInv
<1>7. SendsAreCounted' /\ SendsAreBounded'
  <2>1. \A j \in DOMAIN alerts : alerts'[j].delivery = alerts[j].delivery
    BY <1>1, <1>4
  <2> QED
    BY <1>2, <1>4, <2>1, DeliveriesStay DEF OutboxInv
<1> QED
  BY <1>5, <1>6, <1>7 DEF OutboxInv

\* A step of a sender on the delivery d of alert i.
LEMMA DeliveryMoves ==
    ASSUME OutboxInv, NEW p \in Posts, NEW i \in DOMAIN alerts, NEW d \in DeliveryRow, NEW row \in SenderRow,
           alerts' = [alerts EXCEPT ![i].delivery = d], sender' = [sender EXCEPT ![p] = row],
           UNCHANGED <<queue, route, router>>,
           row.alert \in {0, i}, row.sending => row.alert # 0,
           sender[p].alert \in {0, i},
           d.sends <= MaxAttempts,
           d.sends + Cardinality((Claimers(i) \ {p}) \cup {q \in {p} : row.alert = i /\ ~row.sending}) <= d.tries
    PROVE  OutboxInv'
<1> DEFINE a == [alerts[i] EXCEPT !.delivery = d]
<1>0. alerts \in Seq(AlertRow) /\ i \in 1 .. Len(alerts) /\ alerts[i] \in AlertRow /\ Len(alerts) \in Nat
  BY DEF OutboxInv, RowsTyped
<1>1. /\ a \in AlertRow /\ a.delivery = d /\ a.subject = alerts[i].subject /\ a.count = alerts[i].count
      /\ a.window = alerts[i].window /\ a.open = alerts[i].open /\ a.recent = alerts[i].recent
  BY <1>0 DEF AlertRow
<1>2. alerts' = [alerts EXCEPT ![i] = a]
  OBVIOUS
<1> HIDE DEF a
<1>3. /\ alerts' \in Seq(AlertRow) /\ Len(alerts') = Len(alerts) /\ DOMAIN alerts' = DOMAIN alerts
      /\ alerts'[i] = a /\ \A j \in DOMAIN alerts \ {i} : alerts'[j] = alerts[j]
  BY <1>0, <1>1, <1>2
<1>4. /\ sender' \in [Posts -> SenderRow] /\ sender'[p] = row /\ \A q \in Posts \ {p} : sender'[q] = sender[q]
  BY DEF OutboxInv, RowsTyped
<1>5. RowsTyped'
  <2>1. \A q \in Posts : sender'[q].alert \in 0 .. Len(alerts') /\ (sender'[q].sending => sender'[q].alert # 0)
    BY <1>0, <1>3, <1>4 DEF OutboxInv, RowsTyped
  <2> QED
    BY <1>3, <1>4, <2>1 DEF OutboxInv, RowsTyped
<1>6. RoutingInv'
  <2>1. \A j \in DOMAIN alerts :
              /\ alerts'[j].subject = alerts[j].subject /\ alerts'[j].count = alerts[j].count
              /\ alerts'[j].window = alerts[j].window
              /\ alerts'[j].open => alerts[j].open
              /\ alerts'[j].recent => alerts[j].recent
    BY <1>1, <1>3
  <2> QED
    BY <1>3, <2>1, RoutingStays DEF OutboxInv
<1>7. \A j \in DOMAIN alerts \ {i} : Claimers(j)' = Claimers(j)
  <2>1. \A j \in DOMAIN alerts \ {i} : j # 0
    BY <1>0
  <2> QED
    BY <1>4, <2>1 DEF Claimers
<1>8. Claimers(i)' = (Claimers(i) \ {p}) \cup {q \in {p} : row.alert = i /\ ~row.sending}
  BY <1>4 DEF Claimers
<1>9. SendsAreCounted' /\ SendsAreBounded'
  <2> SUFFICES ASSUME NEW j \in DOMAIN alerts
               PROVE  /\ alerts'[j].delivery.sends + Cardinality(Claimers(j)') <= alerts'[j].delivery.tries
                      /\ alerts'[j].delivery.sends <= MaxAttempts
    BY <1>3 DEF SendsAreCounted, SendsAreBounded
  <2>1. CASE j = i
    <3>1. alerts'[j].delivery = d
      BY <1>1, <1>3, <2>1
    <3>2. Claimers(j)' = (Claimers(i) \ {p}) \cup {q \in {p} : row.alert = i /\ ~row.sending}
      BY <1>8, <2>1
    <3> QED
      BY <3>1, <3>2
  <2>2. CASE j # i
    BY <1>3, <1>7, <2>2 DEF OutboxInv, SendsAreCounted, SendsAreBounded
  <2> QED
    BY <2>1, <2>2
<1> QED
  BY <1>5, <1>6, <1>9 DEF OutboxInv

\* What is known of a delivery and its claims.
LEMMA DeliveryFacts ==
    ASSUME OutboxInv, NEW i \in DOMAIN alerts
    PROVE  /\ alerts[i].delivery \in DeliveryRow /\ i # 0
           /\ alerts[i].delivery.sends \in Nat /\ alerts[i].delivery.tries \in Nat
           /\ alerts[i].delivery.sends <= MaxAttempts
           /\ IsFiniteSet(Claimers(i)) /\ Cardinality(Claimers(i)) \in Nat
           /\ alerts[i].delivery.sends + Cardinality(Claimers(i)) <= alerts[i].delivery.tries
<1>1. alerts[i] \in AlertRow /\ i # 0
  BY DEF OutboxInv, RowsTyped
<1>2. alerts[i].delivery \in DeliveryRow
  BY <1>1 DEF AlertRow
<1>3. IsFiniteSet(Claimers(i)) /\ Cardinality(Claimers(i)) \in Nat
  BY FS_Subset, FS_CardinalityType DEF Claimers
<1> QED
  BY <1>1, <1>2, <1>3 DEF OutboxInv, SendsAreCounted, SendsAreBounded, DeliveryRow

\* _claim_deliveries counts the attempt before anything is sent.
LEMMA ClaimDeliveryStep ==
    ASSUME OutboxInv, NEW p \in Posts, NEW i \in DOMAIN alerts, ClaimDelivery(p, i)
    PROVE  OutboxInv'
<1> DEFINE row == [alert |-> i, sending |-> FALSE, tries |-> 0]
<1> DEFINE d == Claimed(alerts[i].delivery)
<1>1. /\ sender[p].alert = 0 /\ alerts' = [alerts EXCEPT ![i].delivery = d]
      /\ sender' = [sender EXCEPT ![p] = row] /\ UNCHANGED <<queue, route, router>>
  BY DEF ClaimDelivery
<1>2. i \in Nat /\ i # 0
  BY DEF OutboxInv, RowsTyped
<1>3. row \in SenderRow /\ row.alert = i /\ ~row.sending
  BY <1>2 DEF SenderRow
<1>4. /\ d \in DeliveryRow /\ d.sends = alerts[i].delivery.sends /\ d.tries = alerts[i].delivery.tries + 1
  <2> DEFINE old == alerts[i].delivery
  <2>1. old \in DeliveryRow /\ d = Claimed(old)
    BY DeliveryFacts
  <2> HIDE DEF old, d
  <2> DEFINE n == old.tries + 1
  <2>2. d = [old EXCEPT !.at = "processing", !.tries = n] /\ n \in Nat
    BY <2>1 DEF Claimed, DeliveryRow
  <2> HIDE DEF n
  <2>a. d \in DeliveryRow /\ d.sends = old.sends /\ d.tries = n
    BY <2>1, <2>2 DEF DeliveryRow
  <2>3. d \in DeliveryRow /\ d.sends = old.sends /\ d.tries = old.tries + 1
    BY <2>a DEF n
  <2> QED
    BY <2>3 DEF old
<1> HIDE DEF row, d
<1>5. p \notin Claimers(i)
  BY <1>1, <1>2 DEF Claimers
<1>6. (Claimers(i) \ {p}) \cup {q \in {p} : row.alert = i /\ ~row.sending} = Claimers(i) \cup {p}
  BY <1>3, <1>5
<1>7. Cardinality(Claimers(i) \cup {p}) = Cardinality(Claimers(i)) + 1
  BY <1>5, DeliveryFacts, FS_AddElement
<1>8. d.sends + (Cardinality(Claimers(i)) + 1) <= d.tries /\ d.sends <= MaxAttempts
  BY <1>4, DeliveryFacts
<1> QED
  BY <1>1, <1>2, <1>3, <1>4, <1>6, <1>7, <1>8, DeliveryMoves

\* A claim that is given up or used is gone.
LEMMA ClaimIsUsed ==
    ASSUME OutboxInv, NEW p \in Posts, NEW i \in DOMAIN alerts, sender[p].alert = i, NEW row,
           ~(row.alert = i /\ ~row.sending)
    PROVE  /\ (Claimers(i) \ {p}) \cup {q \in {p} : row.alert = i /\ ~row.sending} = Claimers(i) \ {p}
           /\ Cardinality(Claimers(i) \ {p}) \in Nat
           /\ Cardinality(Claimers(i) \ {p}) =
                 IF sender[p].sending THEN Cardinality(Claimers(i)) ELSE Cardinality(Claimers(i)) - 1
<1>1. (Claimers(i) \ {p}) \cup {q \in {p} : row.alert = i /\ ~row.sending} = Claimers(i) \ {p}
  OBVIOUS
<1>2. IsFiniteSet(Claimers(i)) /\ Cardinality(Claimers(i)) \in Nat
  BY DeliveryFacts
<1>3. CASE sender[p].sending
  <2>1. Claimers(i) \ {p} = Claimers(i)
    BY <1>3 DEF Claimers
  <2> QED
    BY <1>1, <1>2, <1>3, <2>1
<1>4. CASE ~sender[p].sending
  <2>1. p \in Claimers(i)
    BY <1>4 DEF Claimers
  <2>2. IsFiniteSet(Claimers(i) \ {p}) /\ Cardinality(Claimers(i) \ {p}) = Cardinality(Claimers(i)) - 1
    BY <1>2, <2>1, FS_RemoveElement
  <2> QED
    BY <1>1, <1>4, <2>2, FS_CardinalityType
<1> QED
  BY <1>3, <1>4

\* A delivery is tried, ends or dies.
LEMMA SendSteps ==
    ASSUME OutboxInv, NEW p \in Posts, Send(p) \/ SendEnds(p) \/ SenderDies(p)
    PROVE  OutboxInv'
<1>1. PICK i \in Nat : i = sender[p].alert
  BY DEF OutboxInv, RowsTyped, SenderRow
<1>2. i \in DOMAIN alerts /\ i # 0 /\ sender[p] \in SenderRow /\ sender[p].tries \in Nat
  BY <1>1 DEF Send, SendEnds, SenderDies, OutboxInv, RowsTyped, SenderRow
<1> DEFINE d == alerts[i].delivery
<1>3. /\ d \in DeliveryRow /\ d.sends \in Nat /\ d.tries \in Nat /\ d.sends <= MaxAttempts
      /\ Cardinality(Claimers(i)) \in Nat /\ d.sends + Cardinality(Claimers(i)) <= d.tries
  BY <1>2, DeliveryFacts
<1>4. ~(IdleSender.alert = i /\ ~IdleSender.sending) /\ IdleSender \in SenderRow
      /\ IdleSender.alert \in {0, i} /\ (IdleSender.sending => IdleSender.alert # 0) /\ sender[p].alert \in {0, i}
  BY <1>1, <1>2, IdleRows
<1>5. /\ (Claimers(i) \ {p}) \cup {q \in {p} : IdleSender.alert = i /\ ~IdleSender.sending} = Claimers(i) \ {p}
      /\ Cardinality(Claimers(i) \ {p}) \in Nat
      /\ Cardinality(Claimers(i) \ {p}) =
            IF sender[p].sending THEN Cardinality(Claimers(i)) ELSE Cardinality(Claimers(i)) - 1
  BY <1>1, <1>2, <1>4, ClaimIsUsed
<1>6. ASSUME NEW e \in DeliveryRow, e.sends = d.sends, e.tries = d.tries,
             alerts' = [alerts EXCEPT ![i].delivery = e], sender' = [sender EXCEPT ![p] = IdleSender],
             UNCHANGED <<queue, route, router>>
      PROVE  OutboxInv'
  <2>1. e.sends <= MaxAttempts /\ e.sends + Cardinality(Claimers(i) \ {p}) <= e.tries
    BY <1>3, <1>5, <1>6
  <2> HIDE DEF d
  <2> QED
    BY <1>2, <1>4, <1>5, <1>6, <2>1, DeliveryMoves
<1>7. ASSUME NEW outcome, NEW tries
      PROVE  Finished(d, outcome, tries) \in DeliveryRow /\ Finished(d, outcome, tries).sends = d.sends
             /\ Finished(d, outcome, tries).tries = d.tries
  <2> HIDE DEF d
  <2> QED
    BY <1>3 DEF Finished, DeliveryRow
<1>8. CASE Send(p)
  <2>1. CASE d.tries > MaxAttempts
    <3>1. /\ alerts' = [alerts EXCEPT ![i].delivery = Finished(d, "permanent", d.tries)]
          /\ sender' = [sender EXCEPT ![p] = IdleSender] /\ UNCHANGED <<queue, route, router>>
      BY <1>1, <1>8, <2>1 DEF Send
    <3> QED
      BY <1>6, <1>7, <3>1
  <2>2. CASE d.tries <= MaxAttempts
    <3> DEFINE row == [sender[p] EXCEPT !.sending = TRUE, !.tries = d.tries]
    <3> DEFINE e == [d EXCEPT !.sends = d.sends + 1]
    <3>1. /\ alerts' = [alerts EXCEPT ![i].delivery.sends = d.sends + 1] /\ sender' = [sender EXCEPT ![p] = row]
          /\ UNCHANGED <<queue, route, router>> /\ ~sender[p].sending
      <4>1. ~(d.tries > MaxAttempts)
        BY <1>3, <2>2
      <4> QED
        BY <1>1, <1>8, <4>1 DEF Send
    <3>2. alerts' = [alerts EXCEPT ![i].delivery = e]
      BY <3>1
    <3>3. row \in SenderRow /\ row.alert = i /\ row.sending
      BY <1>1, <1>2, <1>3 DEF SenderRow
    <3>4. e \in DeliveryRow /\ e.sends = d.sends + 1 /\ e.tries = d.tries
      BY <1>3 DEF DeliveryRow
    <3> HIDE DEF row, e
    <3>5. /\ (Claimers(i) \ {p}) \cup {q \in {p} : row.alert = i /\ ~row.sending} = Claimers(i) \ {p}
          /\ Cardinality(Claimers(i) \ {p}) = Cardinality(Claimers(i)) - 1
          /\ Cardinality(Claimers(i) \ {p}) \in Nat
      BY <1>1, <1>2, <1>5, <3>1, <3>3
    <3>6. e.sends <= MaxAttempts /\ e.sends + Cardinality(Claimers(i) \ {p}) <= e.tries
      BY <1>3, <2>2, <3>4, <3>5
    <3> HIDE DEF d
    <3> QED
      BY <1>2, <1>4, <3>1, <3>2, <3>3, <3>4, <3>5, <3>6, DeliveryMoves
  <2> QED
    BY <1>3, <2>1, <2>2
<1>9. CASE SendEnds(p)
  <2>1. PICK outcome \in Outcomes : alerts' = [alerts EXCEPT ![i].delivery = Finished(d, outcome, sender[p].tries)]
    BY <1>1, <1>9 DEF SendEnds
  <2>2. sender' = [sender EXCEPT ![p] = IdleSender] /\ UNCHANGED <<queue, route, router>>
    BY <1>9 DEF SendEnds
  <2> QED
    BY <1>6, <1>7, <2>1, <2>2
<1>10. CASE SenderDies(p)
  <2>1. sender' = [sender EXCEPT ![p] = IdleSender] /\ UNCHANGED <<queue, route, router, alerts>>
    BY <1>10 DEF SenderDies
  <2>2. alerts' = [alerts EXCEPT ![i].delivery = d]
    <3>1. alerts \in Seq(AlertRow) /\ alerts[i] \in AlertRow
      BY <1>2 DEF OutboxInv, RowsTyped
    <3>2. [alerts[i] EXCEPT !.delivery = d] = alerts[i]
      BY <3>1 DEF AlertRow
    <3> QED
      BY <2>1, <3>1, <3>2
  <2> QED
    BY <1>3, <1>6, <2>1, <2>2
<1> QED
  BY <1>8, <1>9, <1>10

\* Every step keeps the invariant.
LEMMA OutboxStepKeepsInv == OutboxInv /\ [NextOutbox]_outboxVars => OutboxInv'
<1> SUFFICES ASSUME OutboxInv, [NextOutbox]_outboxVars PROVE OutboxInv'
  OBVIOUS
<1>1. CASE \E f \in Facts : EmitEvent(f) \/ \E p \in Posts : ClaimQueue(p, f)
  BY <1>1, EmitStep, ClaimQueueStep
<1>2. CASE \E p \in Posts : \/ RouteEvent(p) \/ RouteNothing(p) \/ CommitCreated(p) \/ CommitCoalesced(p)
                            \/ RouteFails(p) \/ RouteAborts(p) \/ Send(p) \/ SendEnds(p) \/ SenderDies(p)
  BY <1>2, RouteEventStep, RouteNothingStep, CommitCreatedStep, CommitCoalescedStep, AbortStep, SendSteps
<1>3. CASE \E i \in DOMAIN alerts : AckAlert(i) \/ WindowEnds(i) \/ \E p \in Posts : ClaimDelivery(p, i)
  BY <1>3, AlertEndsStep, ClaimDeliveryStep
<1>4. CASE UNCHANGED outboxVars
  <2>1. UNCHANGED queue /\ UNCHANGED route /\ UNCHANGED alerts /\ UNCHANGED router /\ UNCHANGED sender
    BY <1>4 DEF outboxVars
  <2>2. RoutingInv'
    BY <2>1, RoutingStays DEF OutboxInv
  <2>3. SendsAreCounted' /\ SendsAreBounded'
    BY <2>1, DeliveriesStay DEF OutboxInv
  <2> QED
    BY <2>1, <2>2, <2>3 DEF OutboxInv, RowsTyped
<1> QED
  BY <1>1, <1>2, <1>3, <1>4 DEF NextOutbox

-----------------------------------------------------------------------------
\* The invariant of the outbox: claims and locks are exclusive, what is read
\* under a lock is current at the commit, and claims are counted.
THEOREM OutboxInvHolds == OutboxSpec => []OutboxInv
<1> QED
  BY OutboxInitHolds, OutboxStepKeepsInv, PTL DEF OutboxSpec

\* Type correctness of AlertOutbox.
THEOREM OutboxTypeCorrect == OutboxSpec => []OutboxTypeOK
<1>1. OutboxInv => OutboxTypeOK
  BY DEF OutboxInv, RowsTyped, OutboxTypeOK, RouterRow
<1> QED
  BY OutboxInvHolds, <1>1, PTL

\* An alert counts exactly the events routed to it, for any number of routers,
\* facts and subjects.
THEOREM AlertsCountTheirEvents == OutboxSpec => []AlertCountsItsEvents
<1>1. OutboxInv => AlertCountsItsEvents
  BY DEF OutboxInv, RoutingInv
<1> QED
  BY OutboxInvHolds, <1>1, PTL

\* A notification is sent at most MAX_DELIVERY_ATTEMPTS times, by any number of
\* senders.
THEOREM SendsStayBounded == OutboxSpec => []SendsAreBounded
<1>1. OutboxInv => SendsAreBounded
  BY DEF OutboxInv
<1> QED
  BY OutboxInvHolds, <1>1, PTL

HIDE OutboxAssumption

-----------------------------------------------------------------------------
(* Policies: the strongest policy wins and what it decides is settled *)

USE PolicyAssumption

\* What the type invariant needs: no more rules than staff may create.
PolicyInv == PolicyTypeOK /\ Len(rules) <= RuleCount

\* Rules are ordered strictly and totally by scope, priority and age.
LEMMA RuleOrder ==
    ASSUME NEW x \in RuleBody, NEW y \in RuleBody, NEW z \in RuleBody,
           NEW i \in Nat, NEW j \in Nat, NEW k \in Nat
    PROVE  /\ Exceeds(x, i, y, j) /\ Exceeds(y, j, z, k) => Exceeds(x, i, z, k)
           /\ i # j => Exceeds(x, i, y, j) \/ Exceeds(y, j, x, i)
           /\ ~(Exceeds(x, i, y, j) /\ Exceeds(y, j, x, i))
<1>1. \A b \in RuleBody : b.scope \in Int /\ b.priority \in Int
  <2>1. Scopes \subseteq Int /\ Priorities \subseteq Int
    BY PolicyAssumption
  <2> QED BY <2>1 DEF RuleBody
<1>2. x.scope \in Int /\ x.priority \in Int /\ y.scope \in Int /\ y.priority \in Int
      /\ z.scope \in Int /\ z.priority \in Int
  BY <1>1
<1> QED BY <1>2 DEF Exceeds

\* The winner w of the first k rules for an asset: the strongest that matches.
Strongest(w, k, a, c) ==
    /\ w \in 0 .. k
    /\ w = 0 => \A j \in 1 .. k : ~MatchesRule(rules[j], a, c)
    /\ w # 0 => /\ MatchesRule(rules[w], a, c)
                /\ \A j \in 1 .. k : MatchesRule(rules[j], a, c) /\ j # w =>
                                         Exceeds(rules[w].body, w, rules[j].body, j)

\* One turn of the loop of evaluate.
LEMMA LoopTurn ==
    ASSUME PolicyTypeOK, NEW a, NEW c, NEW k \in 1 .. Len(rules), NEW w, Strongest(w, k - 1, a, c)
    PROVE  Strongest(IF MatchesRule(rules[k], a, c) /\ Replaces(rules, k, w) THEN k ELSE w, k, a, c)
<1>0. \A j \in 1 .. Len(rules) : rules[j].body \in RuleBody
  <2>1. \A j \in 1 .. Len(rules) : rules[j] \in RuleRow
    BY ElementOfSeq DEF PolicyTypeOK
  <2> QED BY <2>1 DEF RuleRow
<1>1. Len(rules) \in Nat /\ k \in Nat /\ w \in 0 .. k - 1
  BY DEF PolicyTypeOK, Strongest
<1>2. CASE ~MatchesRule(rules[k], a, c)
  BY <1>1, <1>2 DEF Strongest
<1>3. CASE MatchesRule(rules[k], a, c) /\ w = 0
  BY <1>1, <1>3 DEF Strongest, Replaces
<1>4. CASE MatchesRule(rules[k], a, c) /\ w # 0 /\ Replaces(rules, k, w)
  <2>1. Exceeds(rules[k].body, k, rules[w].body, w)
    BY <1>4 DEF Replaces
  <2>2. w \in 1 .. Len(rules) /\ MatchesRule(rules[w], a, c)
    BY <1>1, <1>4 DEF Strongest
  <2>3. ASSUME NEW j \in 1 .. k, MatchesRule(rules[j], a, c), j # k
        PROVE  Exceeds(rules[k].body, k, rules[j].body, j)
    <3>1. CASE j = w
      BY <2>1, <3>1
    <3>2. CASE j # w
      <4>1. j \in 1 .. k - 1 /\ j \in 1 .. Len(rules)
        BY <1>1, <2>3
      <4>2. Exceeds(rules[w].body, w, rules[j].body, j)
        BY <1>4, <2>3, <3>2, <4>1 DEF Strongest
      <4>3. rules[k].body \in RuleBody /\ rules[w].body \in RuleBody /\ rules[j].body \in RuleBody
            /\ k \in Nat /\ w \in Nat /\ j \in Nat
        BY <1>0, <1>1, <2>2, <4>1
      <4> QED BY <2>1, <4>2, <4>3, RuleOrder
    <3> QED BY <3>1, <3>2
  <2>4. Strongest(k, k, a, c)
    BY <1>1, <1>4, <2>3 DEF Strongest
  <2> QED BY <1>4, <2>4
<1>5. CASE MatchesRule(rules[k], a, c) /\ w # 0 /\ ~Replaces(rules, k, w)
  <2>1. ~Exceeds(rules[k].body, k, rules[w].body, w)
    BY <1>5 DEF Replaces
  <2>2. w \in 1 .. Len(rules) /\ w # k
    BY <1>1, <1>5
  <2>3. rules[k].body \in RuleBody /\ rules[w].body \in RuleBody /\ k \in Nat /\ w \in Nat
    BY <1>0, <1>1, <2>2
  <2>4. Exceeds(rules[w].body, w, rules[k].body, k)
    BY <2>1, <2>2, <2>3, RuleOrder
  <2>5. Strongest(w, k, a, c)
    BY <1>1, <1>5, <2>4 DEF Strongest
  <2> QED BY <1>5, <2>5
<1> QED BY <1>2, <1>3, <1>4, <1>5

\* The loop of evaluate, from its first rule to its last.
LEMMA LoopIsStrongest == ASSUME PolicyTypeOK, NEW a, NEW c PROVE Strongest(Evaluate(rules, a, c), Len(rules), a, c)
<1> DEFINE Turn(i, w) == IF MatchesRule(rules[i], a, c) /\ Replaces(rules, i, w) THEN i ELSE w
           IsLoop(f, k) == f = [i \in 0 .. k |-> IF i = 0 THEN 0 ELSE Turn(i, f[i - 1])]
           W == CHOOSE f : IsLoop(f, Len(rules))
           E == {k \in Nat : \E f : IsLoop(f, k)}
           P == {k \in Nat : k <= Len(rules) => Strongest(W[k], k, a, c)}
<1>0. Len(rules) \in Nat
  BY DEF PolicyTypeOK
<1>1. Evaluate(rules, a, c) = W[Len(rules)]
  BY DEF Evaluate
<1>2. IsLoop(W, Len(rules))
  <2> HIDE DEF Turn
  <2>1. 0 \in E
    <3>1. IsLoop([i \in 0 .. 0 |-> 0], 0)
      OBVIOUS
    <3> QED BY <3>1
  <2>2. \A k \in Nat : k \in E => k + 1 \in E
    <3> SUFFICES ASSUME NEW k \in Nat, k \in E PROVE k + 1 \in E
      OBVIOUS
    <3>0. PICK f : IsLoop(f, k)
      OBVIOUS
    <3> DEFINE g == [i \in 0 .. k + 1 |-> IF i = k + 1 THEN Turn(k + 1, f[k]) ELSE f[i]]
    <3>1. \A i \in 0 .. k : g[i] = f[i]
      OBVIOUS
    <3>2. \A i \in 0 .. k + 1 : g[i] = IF i = 0 THEN 0 ELSE Turn(i, g[i - 1])
      <4> TAKE i \in 0 .. k + 1
      <4>1. CASE i = k + 1
        <5>1. g[i] = Turn(k + 1, f[k]) /\ g[i - 1] = f[k] /\ i # 0
          BY <4>1, <3>1
        <5> QED BY <5>1, <4>1
      <4>2. CASE i # k + 1
        <5>1. i \in 0 .. k /\ (i # 0 => i - 1 \in 0 .. k)
          BY <4>2
        <5>2. f[i] = IF i = 0 THEN 0 ELSE Turn(i, f[i - 1])
          BY <5>1, <3>0
        <5> HIDE DEF g
        <5> QED BY <5>1, <5>2, <3>1
      <4> QED BY <4>1, <4>2
    <3>3. g = [i \in 0 .. k + 1 |-> g[i]]
      OBVIOUS
    <3> HIDE DEF g
    <3>4. IsLoop(g, k + 1)
      BY <3>2, <3>3
    <3> HIDE DEF IsLoop
    <3>5. k + 1 \in Nat /\ \E h : IsLoop(h, k + 1)
      BY <3>4
    <3> QED BY <3>5
  <2>3. Len(rules) \in E
    <3> HIDE DEF E
    <3>1. Nat \subseteq E
      BY <2>1, <2>2, SetInduction
    <3> QED BY <3>1, <1>0
  <2> QED BY <2>3
<1>3. W[0] = 0 /\ \A i \in 1 .. Len(rules) : W[i] = Turn(i, W[i - 1])
  <2> HIDE DEF W, Turn
  <2> QED BY <1>0, <1>2
<1> HIDE DEF W
<1>4. 0 \in P
  BY <1>3 DEF Strongest
<1>5. \A k \in Nat : k \in P => k + 1 \in P
  <2> SUFFICES ASSUME NEW k \in Nat, k \in P, k + 1 <= Len(rules) PROVE Strongest(W[k + 1], k + 1, a, c)
    OBVIOUS
  <2>1. Strongest(W[k], (k + 1) - 1, a, c)
    BY <1>0
  <2>2. k + 1 \in 1 .. Len(rules) /\ (k + 1) - 1 = k
    BY <1>0
  <2>3. W[k + 1] = Turn(k + 1, W[k])
    BY <1>3, <2>2
  <2> QED BY <2>1, <2>2, <2>3, LoopTurn
<1>6. Len(rules) \in P
  <2> HIDE DEF P
  <2>1. Nat \subseteq P
    BY <1>4, <1>5, SetInduction
  <2> QED BY <2>1, <1>0
<1> QED BY <1>0, <1>1, <1>6

\* No two rules are both the strongest.
LEMMA StrongestIsUnique ==
    ASSUME PolicyTypeOK, NEW a, NEW c, NEW v, NEW w,
           Strongest(v, Len(rules), a, c), Strongest(w, Len(rules), a, c)
    PROVE  v = w
<1>0. \A j \in 1 .. Len(rules) : rules[j].body \in RuleBody /\ j \in Nat
  <2>1. \A j \in 1 .. Len(rules) : rules[j] \in RuleRow
    BY ElementOfSeq DEF PolicyTypeOK
  <2> QED BY <2>1 DEF RuleRow
<1>1. SUFFICES ASSUME v # w PROVE FALSE
  OBVIOUS
<1>2. Len(rules) \in Nat
  BY DEF PolicyTypeOK
<1>3. v # 0 /\ w # 0 /\ v \in 1 .. Len(rules) /\ w \in 1 .. Len(rules)
  BY <1>1, <1>2 DEF Strongest
<1>4. Exceeds(rules[v].body, v, rules[w].body, w) /\ Exceeds(rules[w].body, w, rules[v].body, v)
  BY <1>1, <1>3 DEF Strongest
<1> QED BY <1>0, <1>3, <1>4, RuleOrder

\* Handling an asset keeps its row typed, and all that rules and localities read.
LEMMA HandledKeeps ==
    ASSUME PolicyTypeOK, NEW a \in AssetRow, NEW c
    PROVE  /\ Handled(rules, a, c) \in AssetRow /\ Handled(rules, a, c).tag = a.tag
           /\ Handled(rules, a, c).site = a.site /\ Handled(rules, a, c).seen = a.seen
<1> DEFINE w == Evaluate(rules, a, c)
<1>1. Strongest(w, Len(rules), a, c)
  BY LoopIsStrongest
<1>2. Len(rules) \in Nat
  BY DEF PolicyTypeOK
<1> HIDE DEF w
<1>3. CASE w = 0
  BY <1>3 DEF Handled, w
<1>4. CASE w # 0
  <2>1. w \in 1 .. Len(rules)
    BY <1>1, <1>2, <1>4 DEF Strongest
  <2>2. rules[w] \in RuleRow
    BY <2>1, ElementOfSeq DEF PolicyTypeOK
  <2>3. rules[w].body.action \in Dispositions
    BY <2>2 DEF RuleRow, RuleBody, Dispositions
  <2>4. Handled(rules, a, c) = [a EXCEPT !.disposition = rules[w].body.action]
    BY <1>4 DEF Handled, w
  <2> QED BY <2>3, <2>4 DEF AssetRow
<1> QED BY <1>3, <1>4

\* Applying the same rules in the same locality again changes nothing.
LEMMA HandledOnce ==
    ASSUME PolicyTypeOK, NEW a \in AssetRow, NEW c
    PROVE  Handled(rules, Handled(rules, a, c), c) = Handled(rules, a, c)
<1> DEFINE once == Handled(rules, a, c)
           w == Evaluate(rules, a, c)
           v == Evaluate(rules, once, c)
<1>1. once \in AssetRow /\ once.tag = a.tag
  BY HandledKeeps
<1>2. Strongest(w, Len(rules), a, c) /\ Strongest(v, Len(rules), once, c)
  BY LoopIsStrongest
<1>3. once = IF w = 0 THEN a ELSE [a EXCEPT !.disposition = rules[w].body.action]
  BY DEF Handled
<1>4. Handled(rules, once, c) = IF v = 0 THEN once ELSE [once EXCEPT !.disposition = rules[v].body.action]
  BY DEF Handled
<1> HIDE DEF once, w, v
<1>5. \A j \in 1 .. Len(rules) : MatchesRule(rules[j], once, c) <=> MatchesRule(rules[j], a, c)
  BY <1>1 DEF MatchesRule
<1>6. Strongest(v, Len(rules), a, c)
  <2>1. Len(rules) \in Nat
    BY DEF PolicyTypeOK
  <2> QED BY <1>2, <1>5, <2>1 DEF Strongest
<1>7. v = w
  BY <1>2, <1>6, StrongestIsUnique
<1>8. Handled(rules, once, c) = once
  BY <1>1, <1>3, <1>4, <1>7 DEF AssetRow
<1> QED BY <1>8 DEF once

\* A report leaves the asset seen where it was, with the site that it had, or
\* with that of the report.
LEMMA ReportedKeeps ==
    ASSUME PolicyTypeOK, NEW a \in AssetRow, NEW p \in Origins
    PROVE  /\ SeenAt(a, p) \in AssetRow
           /\ Reported(rules, a, p) \in AssetRow /\ Reported(rules, a, p).seen = p
           /\ Reported(rules, a, p).site = IF a.site = "none" THEN p ELSE a.site
<1>1. SeenAt(a, p) \in AssetRow /\ SeenAt(a, p).seen = p
      /\ SeenAt(a, p).site = IF a.site = "none" THEN p ELSE a.site
  BY DEF SeenAt, AssetRow
<1> QED BY <1>1, HandledKeeps DEF Reported

\* A change raises the revision of a rule, and leaves its row typed.
LEMMA NextRevision ==
    ASSUME NEW row \in RuleRow
    PROVE  [row EXCEPT !.revision = row.revision + 1] \in RuleRow /\ row.revision + 1 \in Nat \ {0}
<1>1. row.revision \in Nat \ {0}
  BY DEF RuleRow
<1>2. row.revision + 1 \in Nat \ {0}
  BY <1>1
<1>3. ASSUME NEW n \in Nat \ {0} PROVE [row EXCEPT !.revision = n] \in RuleRow
  BY DEF RuleRow
<1> QED BY <1>2, <1>3

\* The rows keep their types under every request.
LEMMA PolicySteps == PolicyInv /\ [NextPolicies]_policyVars => PolicyInv'
<1> SUFFICES ASSUME PolicyInv, [NextPolicies]_policyVars PROVE PolicyInv'
  OBVIOUS
<1> USE DEF PolicyInv, PolicyTypeOK
<1>0. rules \in Seq(RuleRow) /\ Len(rules) \in Nat /\ DOMAIN rules = 1 .. Len(rules) /\ RuleCount \in Nat
  OBVIOUS
<1>1. ASSUME NEW b \in RuleBody, CreatePolicy(b) PROVE PolicyInv'
  <2> DEFINE row == [body |-> b, enabled |-> TRUE, archived |-> FALSE, revision |-> 1]
  <2>1. row \in RuleRow
    BY DEF RuleRow
  <2> HIDE DEF row
  <2>2. rules' = Append(rules, row) /\ Len(rules) < RuleCount /\ UNCHANGED <<asset, resolver>>
        /\ revisions' = revisions \cup {<<Len(rules) + 1, 1>>}
    BY <1>1 DEF CreatePolicy, row
  <2>3. rules' \in Seq(RuleRow) /\ Len(rules') = Len(rules) + 1
    BY <2>1, <2>2, AppendProperties
  <2> QED BY <2>2, <2>3, <1>0
<1>2. ASSUME NEW i \in DOMAIN rules, NEW row \in RuleRow, Changes(i, row) PROVE PolicyInv'
  <2> DEFINE new == [row EXCEPT !.revision = row.revision + 1]
  <2>1. new \in RuleRow /\ row.revision + 1 \in Nat \ {0}
    BY NextRevision
  <2> HIDE DEF new
  <2>2. rules' = [rules EXCEPT ![i] = new] /\ UNCHANGED <<asset, resolver>>
        /\ revisions' = revisions \cup {<<i, row.revision + 1>>}
    BY <1>2 DEF Changes, new
  <2>3. rules' \in Seq(RuleRow) /\ Len(rules') = Len(rules)
    BY <2>1, <2>2, <1>0, ExceptSeq
  <2>4. i \in 1 .. RuleCount
    BY <1>0
  <2> QED BY <2>1, <2>2, <2>3, <2>4
<1>3. ASSUME NEW i \in DOMAIN rules PROVE rules[i] \in RuleRow
  BY <1>0, ElementOfSeq
<1>4. ASSUME NEW i \in DOMAIN rules, SetPolicyEnabled(i) PROVE PolicyInv'
  <2>1. [rules[i] EXCEPT !.enabled = ~@] \in RuleRow
    BY <1>3 DEF RuleRow
  <2> QED BY <2>1, <1>2, <1>4 DEF SetPolicyEnabled
<1>5. ASSUME NEW i \in DOMAIN rules, ArchivePolicy(i) PROVE PolicyInv'
  <2>1. [rules[i] EXCEPT !.archived = TRUE, !.enabled = FALSE] \in RuleRow
    BY <1>3 DEF RuleRow
  <2> QED BY <2>1, <1>2, <1>5 DEF ArchivePolicy
<1>6. ASSUME NEW i \in DOMAIN rules, NEW b \in RuleBody, UpdatePolicy(i, b) PROVE PolicyInv'
  <2>1. [rules[i] EXCEPT !.body = b] \in RuleRow
    BY <1>3 DEF RuleRow
  <2> QED BY <2>1, <1>2, <1>6 DEF UpdatePolicy
<1>7. ASSUME asset' \in AssetRow, UNCHANGED <<rules, revisions, resolver>> PROVE PolicyInv'
  BY <1>7
<1>8. /\ \A d \in Dispositions : SetDisposition(d) => PolicyInv'
      /\ \A p \in PolicySites : MoveAsset(p) => PolicyInv'
      /\ \A p \in Origins : HandleReport(p) => PolicyInv'
      /\ ChangeTag \/ LoadRules \/ Reconcile => PolicyInv'
  <2>1. Passed(rules, asset) \in AssetRow
    BY HandledKeeps DEF Passed
  <2>2. asset \in AssetRow /\ \A d \in Dispositions : [asset EXCEPT !.disposition = d] \in AssetRow
    BY DEF AssetRow
  <2>3. Passed(rules, asset).disposition \in Dispositions
    BY <2>1 DEF AssetRow
  <2>4. ASSUME NEW d \in Dispositions, SetDisposition(d) PROVE PolicyInv'
    BY <1>7, <2>2, <2>4 DEF SetDisposition
  <2>5. ASSUME NEW p \in PolicySites, MoveAsset(p) PROVE PolicyInv'
    <3>1. [asset EXCEPT !.site = p] \in AssetRow
      BY DEF AssetRow, Origins
    <3>2. asset' \in AssetRow
      BY <2>5, <3>1, HandledKeeps DEF MoveAsset
    <3> QED BY <1>7, <2>5, <3>2 DEF MoveAsset
  <2>6. ASSUME NEW p \in Origins, HandleReport(p) PROVE PolicyInv'
    <3>1. asset' \in AssetRow
      BY <2>2, <2>6, ReportedKeeps DEF HandleReport
    <3> QED BY <1>7, <2>6, <3>1 DEF HandleReport
  <2>7. CASE ChangeTag
    <3>1. Handled(rules, asset, OwnLocality(asset)) \in AssetRow
      BY <2>2, HandledKeeps
    <3>2. asset' \in AssetRow
      BY <2>7, <3>1 DEF ChangeTag, AssetRow
    <3> QED BY <1>7, <2>7, <3>2 DEF ChangeTag
  <2>8. CASE LoadRules
    BY <2>3, <2>8 DEF LoadRules
  <2>9. CASE Reconcile
    <3>1. asset' \in AssetRow
      BY <2>2, <2>9 DEF Reconcile
    <3> QED BY <2>9, <3>1 DEF Reconcile
  <2> QED BY <2>4, <2>5, <2>6, <2>7, <2>8, <2>9
<1>9. CASE UNCHANGED policyVars
  BY <1>9 DEF policyVars
<1> QED BY <1>1, <1>4, <1>5, <1>6, <1>7, <1>8, <1>9 DEF NextPolicies

\* The rows are well typed in every reachable state.
LEMMA PolicyInvHolds == InitPolicies /\ [][NextPolicies]_policyVars => []PolicyInv
<1>1. InitPolicies => PolicyInv
  BY PolicyAssumption DEF InitPolicies, PolicyInv, PolicyTypeOK, AssetRow, Dispositions
<1> QED BY <1>1, PolicySteps, PTL

\* Type correctness of rules, asset, events and reconcile job.
THEOREM PolicyTypeCorrect == InitPolicies /\ [][NextPolicies]_policyVars => []PolicyTypeOK
<1>1. PolicyInv => PolicyTypeOK
  BY DEF PolicyInv
<1> QED BY <1>1, PolicyInvHolds, PTL

\* The loop of evaluate picks the strongest rule in force that matches, in every
\* locality the asset may be handled in.
THEOREM WinnersAreStrongest == InitPolicies /\ [][NextPolicies]_policyVars => []WinnerIsStrongest
<1>1. PolicyTypeOK => WinnerIsStrongest
  <2> SUFFICES ASSUME PolicyTypeOK, NEW c \in Localities(asset)
               PROVE  LET matching == {i \in DOMAIN rules : MatchesRule(rules[i], asset, c)}
                          winner == Evaluate(rules, asset, c)
                      IN IF matching = {} THEN winner = 0
                         ELSE winner \in matching
                              /\ \A j \in matching \ {winner} :
                                    Exceeds(rules[winner].body, winner, rules[j].body, j)
    BY DEF WinnerIsStrongest
  <2> DEFINE w == Evaluate(rules, asset, c)
  <2>1. Strongest(w, Len(rules), asset, c)
    BY LoopIsStrongest
  <2>2. DOMAIN rules = 1 .. Len(rules) /\ Len(rules) \in Nat
    BY DEF PolicyTypeOK
  <2> HIDE DEF w
  <2>3. LET matching == {i \in DOMAIN rules : MatchesRule(rules[i], asset, c)}
        IN IF matching = {} THEN w = 0
           ELSE w \in matching /\ \A j \in matching \ {w} : Exceeds(rules[w].body, w, rules[j].body, j)
    BY <2>1, <2>2 DEF Strongest
  <2> QED BY <2>3 DEF w
<1> QED BY <1>1, PolicyTypeCorrect, PTL

\* Handling settles in each locality, and a report from the asset's own site
\* agrees with the reconcile passes after it.
THEOREM HandlingIsSettled == InitPolicies /\ [][NextPolicies]_policyVars => []HandlingSettles
<1>1. PolicyTypeOK => HandlingSettles
  <2> SUFFICES ASSUME PolicyTypeOK PROVE HandlingSettles
    OBVIOUS
  <2>1. asset \in AssetRow
    BY DEF PolicyTypeOK
  <2>2. ASSUME NEW p \in Origins
        PROVE  /\ Reported(rules, Reported(rules, asset, p), p) = Reported(rules, asset, p)
               /\ Reported(rules, asset, p).site = p =>
                    Passed(rules, Reported(rules, asset, p)) = Reported(rules, asset, p)
    <3> DEFINE once == Reported(rules, asset, p)
    <3>1. /\ SeenAt(asset, p) \in AssetRow /\ once \in AssetRow /\ once.seen = p
          /\ once.site = IF asset.site = "none" THEN p ELSE asset.site
      BY <2>1, ReportedKeeps
    <3>2. Handled(rules, once, ReportLocality(p)) = once
      BY <3>1, HandledOnce DEF Reported
    <3> HIDE DEF once
    <3>3. SeenAt(once, p) = once
      BY <3>1 DEF AssetRow, SeenAt
    <3>4. Reported(rules, once, p) = once
      BY <3>2, <3>3 DEF Reported
    <3>5. once.site = p => Passed(rules, once) = once
      BY <3>1, <3>2 DEF Passed, OwnLocality
    <3> QED BY <3>4, <3>5 DEF once
  <2>3. LET once == Passed(rules, asset) IN Passed(rules, once) = once
    <3> DEFINE once == Passed(rules, asset)
               c == OwnLocality(asset)
    <3>1. once = Handled(rules, asset, c) /\ Handled(rules, once, c) = once
      BY <2>1, HandledOnce DEF Passed
    <3>2. once.site = asset.site /\ once.seen = asset.seen
      BY <2>1, HandledKeeps DEF Passed
    <3>3. OwnLocality(once) = c
      BY <3>2 DEF OwnLocality
    <3> HIDE DEF c, once
    <3>4. Passed(rules, once) = once
      BY <3>1, <3>3 DEF Passed
    <3> QED BY <3>4 DEF once
  <2> QED BY <2>2, <2>3 DEF HandlingSettles
<1> QED BY <1>1, PolicyTypeCorrect, PTL

HIDE PolicyAssumption

-----------------------------------------------------------------------------
(* Compliance: a merge of two findings keeps every mapping *)

\* The unique index of the active mappings.
MappingIsUnique ==
    \A i, j \in ReferenceIds :
        /\ reference[i].at = "live" /\ reference[j].at = "live"
        /\ reference[i].control = reference[j].control /\ reference[i].subject = reference[j].subject
        => i = j

\* What a merge has read still says of the rows: a mapping it moves is the
\* donor's until it commits, and a key of the keeper is mapped or was unmapped.
MergeReads ==
    merging.at = "read" =>
        /\ merging.keeper # merging.donor
        /\ \A i \in merging.refs : reference[i].at \in {"live", "removed"} /\ reference[i].subject = merging.donor
        /\ \A c \in merging.keys :
              c \in merging.unmapped \/ \E i \in LiveOn(merging.keeper) : reference[i].control = c

ComplianceInv == ComplianceTypeOK /\ MappingIsUnique /\ MergeReads

\* A row of a new mapping is the first that is free.
LEMMA FreeRow ==
    ASSUME NEW free \in SUBSET ReferenceIds, free # {}
    PROVE  (CHOOSE i \in free : \A j \in free : i <= j) \in free
<1>1. free \in SUBSET Nat
  BY ComplianceAssumption
<1>2. \E i \in free : \A j \in free : i <= j
  BY <1>1, Least
<1> QED BY <1>2

\* What a merge is, once it has read.
LEMMA MergeShape ==
    ASSUME ComplianceTypeOK, merging # NoMerge
    PROVE  /\ merging.at = "read" /\ merging.keeper \in MappedFindings /\ merging.donor \in MappedFindings
           /\ merging.refs \subseteq ReferenceIds /\ merging.keys \subseteq Controls
           /\ merging.unmapped \subseteq Controls
           /\ merging \in [at : {"read"}, keeper : MappedFindings, donor : MappedFindings,
                           refs : SUBSET ReferenceIds, keys : SUBSET Controls, unmapped : SUBSET Controls]
BY DEF ComplianceTypeOK

\* The rows that a committed merge leaves.
LEMMA ReassignedRow ==
    ASSUME ComplianceTypeOK, NEW i \in ReferenceIds
    PROVE  /\ i \in merging.refs /\ reference[i].control \in merging.keys =>
                  Reassigned[i] = [reference[i] EXCEPT !.at = "deleted"]
           /\ i \in merging.refs /\ reference[i].control \notin merging.keys =>
                  Reassigned[i] = [reference[i] EXCEPT !.subject = merging.keeper]
           /\ i \notin merging.refs /\ reference[i].subject = merging.donor /\ reference[i].at # "none" =>
                  Reassigned[i] = [reference[i] EXCEPT !.at = "deleted"]
           /\ i \notin merging.refs /\ ~(reference[i].subject = merging.donor /\ reference[i].at # "none") =>
                  Reassigned[i] = reference[i]
BY DEF Reassigned

\* A row that is live after the merge either stayed or moved to the keeper.
LEMMA LiveAfterMerge ==
    ASSUME ComplianceInv, merging.at = "read", NEW i \in ReferenceIds, Reassigned[i].at = "live"
    PROVE  /\ reference[i].at = "live" /\ Reassigned[i].control = reference[i].control
           /\ \/ /\ i \notin merging.refs /\ Reassigned[i].subject = reference[i].subject
                 /\ reference[i].subject # merging.donor
              \/ /\ i \in merging.refs /\ reference[i].control \notin merging.keys
                 /\ Reassigned[i].subject = merging.keeper /\ reference[i].subject = merging.donor
<1>1. reference[i] \in Reference
  BY DEF ComplianceInv, ComplianceTypeOK
<1>2. /\ [reference[i] EXCEPT !.at = "deleted"].at = "deleted"
      /\ [reference[i] EXCEPT !.subject = merging.keeper].at = reference[i].at
      /\ [reference[i] EXCEPT !.subject = merging.keeper].control = reference[i].control
      /\ [reference[i] EXCEPT !.subject = merging.keeper].subject = merging.keeper
  BY <1>1 DEF Reference
<1>3. i \in merging.refs => reference[i].subject = merging.donor
  BY DEF ComplianceInv, MergeReads
<1>4. CASE i \in merging.refs
  <2>1. reference[i].control \notin merging.keys
    BY <1>2, <1>4, ReassignedRow DEF ComplianceInv
  <2> QED BY <1>2, <1>3, <1>4, <2>1, ReassignedRow DEF ComplianceInv
<1>5. CASE i \notin merging.refs
  <2>1. ~(reference[i].subject = merging.donor /\ reference[i].at # "none")
    BY <1>2, <1>5, ReassignedRow DEF ComplianceInv
  <2>2. Reassigned[i] = reference[i]
    BY <1>5, <2>1, ReassignedRow DEF ComplianceInv
  <2> QED BY <1>5, <2>1, <2>2
<1> QED BY <1>4, <1>5

\* What a request on a mapping writes keeps its type.
LEMMA ReferenceWrites ==
    ASSUME ComplianceTypeOK, NEW i \in ReferenceIds
    PROVE  /\ [reference EXCEPT ![i].at = "removed"] \in [ReferenceIds -> Reference]
           /\ [reference[i] EXCEPT !.at = "deleted"] \in Reference
           /\ \A f \in MappedFindings : [reference[i] EXCEPT !.subject = f] \in Reference
BY DEF ComplianceTypeOK, Reference

\* Two mappings that a committed merge leaves live are not the same.
LEMMA MergeKeepsUnique ==
    ASSUME ComplianceInv, merging.at = "read", ~MoveCollides,
           NEW i \in ReferenceIds, NEW j \in ReferenceIds,
           Reassigned[i].at = "live", Reassigned[j].at = "live",
           Reassigned[i].control = Reassigned[j].control, Reassigned[i].subject = Reassigned[j].subject
    PROVE  i = j
<1> DEFINE Stays(k) == k \notin merging.refs /\ Reassigned[k].subject = reference[k].subject
                       /\ reference[k].subject # merging.donor
           Moves(k) == k \in merging.refs /\ reference[k].control \notin merging.keys
                       /\ Reassigned[k].subject = merging.keeper /\ reference[k].subject = merging.donor
<1>1. reference[i].at = "live" /\ reference[j].at = "live" /\ reference[i].control = reference[j].control
      /\ (Stays(i) \/ Moves(i)) /\ (Stays(j) \/ Moves(j))
  BY LiveAfterMerge
<1>2. \A k, m \in ReferenceIds : Moves(k) /\ Stays(m) /\ reference[k].at = "live" /\ reference[m].at = "live"
         /\ reference[k].control = reference[m].control /\ Reassigned[m].subject = merging.keeper => FALSE
  BY DEF MoveCollides, LiveOn, LiveIn
<1>3. CASE Stays(i) /\ Stays(j)
  BY <1>1, <1>3 DEF ComplianceInv, MappingIsUnique
<1>4. CASE Moves(i) /\ Moves(j)
  BY <1>1, <1>4 DEF ComplianceInv, MappingIsUnique
<1>5. CASE Moves(i) /\ Stays(j)
  BY <1>1, <1>2, <1>5
<1>6. CASE Stays(i) /\ Moves(j)
  BY <1>1, <1>2, <1>6
<1> QED BY <1>1, <1>3, <1>4, <1>5, <1>6

\* Every request, and every step of a merge, keeps the invariant.
LEMMA ComplianceSteps == ComplianceInv /\ [NextCompliance]_complianceVars => ComplianceInv'
<1> SUFFICES ASSUME ComplianceInv, [NextCompliance]_complianceVars PROVE ComplianceInv'
  OBVIOUS
<1>0. ComplianceTypeOK /\ MappingIsUnique /\ MergeReads
  BY DEF ComplianceInv
<1>1. ASSUME UNCHANGED <<reference, merging>>, ComplianceTypeOK' PROVE ComplianceInv'
  <2>1. MappingIsUnique'
    BY <1>0, <1>1 DEF MappingIsUnique
  <2>2. MergeReads'
    BY <1>0, <1>1 DEF MergeReads, LiveOn, LiveIn
  <2> QED BY <1>1, <2>1, <2>2 DEF ComplianceInv
<1>2. CASE CreateFramework \/ ArchiveFramework
  BY <1>0, <1>1, <1>2 DEF CreateFramework, ArchiveFramework, ComplianceTypeOK, Status
<1>3. CASE ImportBuiltinFramework
  <2>1. ComplianceTypeOK'
    BY <1>0, <1>3 DEF ImportBuiltinFramework, ComplianceTypeOK, Status
  <2> QED BY <2>1, <1>1, <1>3 DEF ImportBuiltinFramework
<1>4. ASSUME NEW c \in Controls, CreateComplianceControl(c) \/ ArchiveComplianceControl(c)
      PROVE  ComplianceInv'
  <2>1. ComplianceTypeOK'
    BY <1>0, <1>4 DEF CreateComplianceControl, ArchiveComplianceControl, ComplianceTypeOK, Status
  <2> QED BY <2>1, <1>1, <1>4 DEF CreateComplianceControl, ArchiveComplianceControl
<1>5. ASSUME NEW c \in Controls, NEW f \in MappedFindings, CheckMapping(c, f) PROVE ComplianceInv'
  <2>1. mapper' \in [at : {"checked"}, control : Controls, subject : MappedFindings]
    BY <1>5 DEF CheckMapping
  <2>2. ComplianceTypeOK'
    BY <1>0, <1>5, <2>1 DEF CheckMapping, ComplianceTypeOK
  <2> QED BY <2>2, <1>1, <1>5 DEF CheckMapping
<1>6. CASE AddReference
  <2> DEFINE free == {i \in ReferenceIds : reference[i].at = "none"}
             n == CHOOSE i \in free : \A j \in free : i <= j
             row == [at |-> "live", control |-> mapper.control, subject |-> mapper.subject]
             fits == mapper.subject \in subjects
                     /\ \A i \in LiveOn(mapper.subject) : reference[i].control # mapper.control
  <2>1. reference' = (IF fits THEN [reference EXCEPT ![n] = row] ELSE reference)
        /\ mapper.at = "checked" /\ free # {} /\ mapper' = NoMapper
        /\ UNCHANGED <<framework, compliance, subjects, merging>>
    BY <1>6 DEF AddReference
  <2>2. n \in ReferenceIds /\ reference[n].at = "none"
    <3>1. n \in free
      BY <2>1, FreeRow
    <3> QED BY <3>1
  <2>3. row \in Reference
    <3>1. mapper.control \in Controls /\ mapper.subject \in MappedFindings
      BY <1>0, <2>1 DEF ComplianceTypeOK, NoMapper
    <3> QED BY <3>1 DEF Reference
  <2>4. row.at = "live" /\ row.control = mapper.control /\ row.subject = mapper.subject
    OBVIOUS
  <2> HIDE DEF n, row
  <2>5. ComplianceTypeOK'
    BY <1>0, <2>1, <2>2, <2>3 DEF ComplianceTypeOK
  <2>6. CASE ~fits
    <3>1. UNCHANGED <<reference, merging>>
      BY <2>1, <2>6
    <3> QED BY <3>1, <2>5, <1>1
  <2>7. CASE fits
    <3>1. reference' = [reference EXCEPT ![n] = row] /\ merging' = merging
      BY <2>1, <2>7
    <3>2. \A i \in ReferenceIds : reference'[i] = IF i = n THEN row ELSE reference[i]
      BY <1>0, <2>2, <3>1 DEF ComplianceTypeOK
    <3>3. \A i \in ReferenceIds : reference[i].at = "live" /\ reference[i].subject = mapper.subject =>
             reference[i].control # mapper.control
      BY <2>7 DEF LiveOn, LiveIn
    <3>4. MappingIsUnique'
      BY <1>0, <2>4, <3>2, <3>3 DEF MappingIsUnique
    <3>5. ASSUME merging.at = "read" PROVE MergeReads'
      <4>0. merging # NoMerge
        BY <3>5 DEF NoMerge
      <4>1. n \notin merging.refs /\ merging.refs \subseteq ReferenceIds
        BY <1>0, <2>2, <3>5, <4>0, MergeShape DEF MergeReads
      <4>2. \A i \in LiveOn(merging.keeper) : i \in LiveOn(merging.keeper)' /\ reference'[i] = reference[i]
        BY <2>2, <3>1, <3>2 DEF LiveOn, LiveIn
      <4>3. \A i \in merging.refs : reference'[i] = reference[i]
        BY <3>2, <4>1
      <4> QED BY <1>0, <3>1, <3>5, <4>2, <4>3 DEF MergeReads
    <3>6. merging.at # "read" => MergeReads'
      BY <3>1 DEF MergeReads
    <3> QED BY <2>5, <3>4, <3>5, <3>6 DEF ComplianceInv
  <2> QED BY <2>6, <2>7
<1>7. ASSUME NEW i \in ReferenceIds, RemoveReference(i) PROVE ComplianceInv'
  <2>1. reference' = [reference EXCEPT ![i].at = "removed"] /\ reference[i].at = "live"
    BY <1>7 DEF RemoveReference
  <2>2. \A j \in ReferenceIds :
           /\ j # i => reference'[j] = reference[j]
           /\ reference'[j].control = reference[j].control /\ reference'[j].subject = reference[j].subject
           /\ reference'[j].at = IF j = i THEN "removed" ELSE reference[j].at
    BY <1>0, <2>1 DEF ComplianceTypeOK, Reference
  <2>3. reference[i].control \in Controls
    BY <1>0 DEF ComplianceTypeOK, Reference
  <2>4. CASE merging = NoMerge
    <3>1. merging' = NoMerge
      BY <1>7, <2>4 DEF RemoveReference
    <3>2. ComplianceTypeOK'
      BY <1>0, <1>7, <2>1, <3>1, ReferenceWrites DEF RemoveReference, ComplianceTypeOK
    <3>3. MappingIsUnique'
      BY <1>0, <2>2 DEF MappingIsUnique
    <3>4. MergeReads'
      BY <3>1 DEF MergeReads, NoMerge
    <3> QED BY <3>2, <3>3, <3>4 DEF ComplianceInv
  <2>5. CASE merging # NoMerge
    <3>1. merging' = [merging EXCEPT !.unmapped = @ \cup {reference[i].control}]
      BY <1>7, <2>5 DEF RemoveReference
    <3>2. merging' \in [at : {"read"}, keeper : MappedFindings, donor : MappedFindings,
                        refs : SUBSET ReferenceIds, keys : SUBSET Controls, unmapped : SUBSET Controls]
      BY <1>0, <2>3, <2>5, <3>1, MergeShape
    <3>3. merging'.keeper = merging.keeper /\ merging'.donor = merging.donor /\ merging'.refs = merging.refs
          /\ merging'.keys = merging.keys /\ merging'.unmapped = merging.unmapped \cup {reference[i].control}
          /\ merging.at = "read" /\ merging.refs \subseteq ReferenceIds
      BY <1>0, <2>5, <3>1, MergeShape
    <3>4. ComplianceTypeOK'
      <4>1. UNCHANGED <<framework, compliance, subjects, mapper>>
        BY <1>7 DEF RemoveReference
      <4>2. reference' \in [ReferenceIds -> Reference]
        BY <1>0, <2>1, ReferenceWrites
      <4> QED BY <1>0, <3>2, <4>1, <4>2 DEF ComplianceTypeOK
    <3>5. MappingIsUnique'
      BY <1>0, <2>2 DEF MappingIsUnique
    <3>6. \A j \in merging.refs : reference'[j].at \in {"live", "removed"} /\ reference'[j].subject = merging.donor
      BY <1>0, <2>2, <3>3 DEF MergeReads
    <3>7. ASSUME NEW c \in merging.keys
          PROVE  c \in merging'.unmapped \/ \E j \in LiveOn(merging.keeper)' : reference'[j].control = c
      <4>1. CASE c \in merging.unmapped
        BY <3>3, <4>1
      <4>2. CASE \E j \in LiveOn(merging.keeper) : reference[j].control = c
        <5>1. PICK j \in LiveOn(merging.keeper) : reference[j].control = c
          BY <4>2
        <5>2. j = i => c \in merging'.unmapped
          BY <3>3, <5>1
        <5>3. j # i => j \in LiveOn(merging.keeper)' /\ reference'[j].control = c
          BY <2>2, <3>3, <5>1 DEF LiveOn, LiveIn
        <5> QED BY <5>2, <5>3
      <4> QED BY <1>0, <3>3, <4>1, <4>2 DEF MergeReads
    <3>8. MergeReads'
      BY <1>0, <3>3, <3>6, <3>7 DEF MergeReads, LiveOn, LiveIn
    <3> QED BY <3>4, <3>5, <3>8 DEF ComplianceInv
  <2> QED BY <2>4, <2>5
<1>8. ASSUME NEW keeper \in MappedFindings, NEW donor \in MappedFindings, ReassignReads(keeper, donor)
      PROVE  ComplianceInv'
  <2>1. merging' = [at |-> "read", keeper |-> keeper, donor |-> donor, refs |-> LiveOn(donor),
                    keys |-> KeeperKeys(keeper), unmapped |-> {}]
        /\ keeper # donor /\ UNCHANGED <<framework, compliance, reference, subjects, mapper>>
    BY <1>8 DEF ReassignReads
  <2>2. LiveOn(donor) \in SUBSET ReferenceIds /\ KeeperKeys(keeper) \in SUBSET Controls
    BY <1>0 DEF LiveOn, LiveIn, KeeperKeys, ComplianceTypeOK, Reference
  <2>3. ComplianceTypeOK'
    BY <1>0, <2>1, <2>2 DEF ComplianceTypeOK
  <2>4. MappingIsUnique'
    BY <1>0, <2>1 DEF MappingIsUnique
  <2>5. MergeReads'
    BY <2>1 DEF MergeReads, LiveOn, LiveIn, KeeperKeys
  <2> QED BY <2>3, <2>4, <2>5 DEF ComplianceInv
<1>9. CASE MergeCommits
  <2>1. reference' = Reassigned /\ merging' = NoMerge /\ merging.at = "read" /\ ~MoveCollides
        /\ subjects' = subjects \ {merging.donor} /\ UNCHANGED <<framework, compliance, mapper>>
    BY <1>9 DEF MergeCommits
  <2>2. merging # NoMerge
    BY <2>1 DEF NoMerge
  <2>3. Reassigned \in [ReferenceIds -> Reference]
    <3>1. \A i \in ReferenceIds : Reassigned[i] \in Reference
      <4> TAKE i \in ReferenceIds
      <4>1. reference[i] \in Reference
        BY <1>0 DEF ComplianceTypeOK
      <4>2. merging.keeper \in MappedFindings
        BY <1>0, <2>2, MergeShape
      <4>3. /\ [reference[i] EXCEPT !.at = "deleted"] \in Reference
            /\ [reference[i] EXCEPT !.subject = merging.keeper] \in Reference
        BY <1>0, <4>2, ReferenceWrites
      <4>4. Reassigned[i] \in {reference[i], [reference[i] EXCEPT !.at = "deleted"],
                              [reference[i] EXCEPT !.subject = merging.keeper]}
        BY <1>0, ReassignedRow
      <4> QED BY <4>1, <4>3, <4>4
    <3> QED BY <3>1 DEF Reassigned
  <2>4. ComplianceTypeOK'
    BY <1>0, <2>1, <2>3 DEF ComplianceTypeOK
  <2>5. MappingIsUnique'
    BY <2>1, MergeKeepsUnique DEF MappingIsUnique
  <2>6. MergeReads'
    BY <2>1 DEF MergeReads, NoMerge
  <2> QED BY <2>4, <2>5, <2>6 DEF ComplianceInv
<1>10. CASE MergeRollsBack
  <2>1. merging' = NoMerge /\ UNCHANGED <<framework, compliance, reference, subjects, mapper>>
    BY <1>10 DEF MergeRollsBack
  <2>2. ComplianceTypeOK' /\ MappingIsUnique'
    BY <1>0, <2>1 DEF ComplianceTypeOK, MappingIsUnique
  <2>3. MergeReads'
    BY <2>1 DEF MergeReads, NoMerge
  <2> QED BY <2>2, <2>3 DEF ComplianceInv
<1>11. CASE UNCHANGED complianceVars
  BY <1>0, <1>1, <1>11 DEF complianceVars, ComplianceTypeOK
<1> QED BY <1>2, <1>3, <1>4, <1>5, <1>6, <1>7, <1>8, <1>9, <1>10, <1>11 DEF NextCompliance

\* A committed merge leaves every kept control mapped once.
LEMMA CommitKeepsMappings ==
    ASSUME ComplianceInv, MergeCommits,
           NEW k \in LiveOn(merging.keeper) \cup (LiveOn(merging.donor) \cap merging.refs),
           reference[k].control \notin merging.unmapped
    PROVE  Cardinality({i \in LiveIn(reference', merging.keeper) : reference'[i].control = reference[k].control}) = 1
<1> DEFINE c == reference[k].control
           kept == {i \in LiveIn(reference', merging.keeper) : reference'[i].control = c}
<1>0. ComplianceTypeOK /\ MappingIsUnique /\ MergeReads
  BY DEF ComplianceInv
<1>1. reference' = Reassigned /\ merging.at = "read" /\ ~MoveCollides
  BY DEF MergeCommits
<1>2. merging.keeper # merging.donor
  BY <1>0, <1>1 DEF MergeReads
<1>3. \A i, j \in kept : i = j
  BY <1>1, MergeKeepsUnique DEF LiveIn
<1>4. ASSUME NEW i \in LiveOn(merging.keeper), reference[i].control = c PROVE i \in kept
  <2>1. i \in ReferenceIds /\ reference[i].at = "live" /\ reference[i].subject = merging.keeper
    BY DEF LiveOn, LiveIn
  <2>2. i \notin merging.refs
    BY <1>0, <1>1, <1>2, <2>1 DEF MergeReads
  <2>3. Reassigned[i] = reference[i]
    BY <1>0, <1>2, <2>1, <2>2, ReassignedRow
  <2> QED BY <1>1, <1>4, <2>1, <2>3 DEF LiveIn
<1>5. kept # {}
  <2>1. CASE k \in LiveOn(merging.keeper)
    BY <1>4, <2>1
  <2>2. CASE c \in merging.keys
    <3>1. PICK i \in LiveOn(merging.keeper) : reference[i].control = c
      BY <1>0, <1>1, <2>2 DEF MergeReads
    <3> QED BY <1>4, <3>1
  <2>3. CASE k \in LiveOn(merging.donor) \cap merging.refs /\ c \notin merging.keys
    <3>1. k \in ReferenceIds /\ reference[k].at = "live" /\ reference[k] \in Reference
      BY <1>0, <2>3 DEF LiveOn, LiveIn, ComplianceTypeOK
    <3>2. Reassigned[k] = [reference[k] EXCEPT !.subject = merging.keeper]
      BY <1>0, <2>3, <3>1, ReassignedRow
    <3>3. Reassigned[k].at = "live" /\ Reassigned[k].subject = merging.keeper /\ Reassigned[k].control = c
      BY <3>1, <3>2 DEF Reference
    <3> QED BY <1>1, <3>1, <3>3 DEF LiveIn
  <2> QED BY <2>1, <2>2, <2>3
<1>6. PICK i : kept = {i}
  <2>1. PICK i \in kept : TRUE
    BY <1>5
  <2>2. kept = {i}
    BY <1>3, <2>1
  <2> QED BY <2>2
<1> HIDE DEF kept
<1>7. Cardinality(kept) = 1
  BY <1>6, FS_Singleton
<1> QED BY <1>7 DEF kept

\* The invariant holds in every reachable state.
LEMMA ComplianceInvHolds == InitCompliance /\ [][NextCompliance]_complianceVars => []ComplianceInv
<1>1. InitCompliance => ComplianceInv
  <2> SUFFICES ASSUME InitCompliance PROVE ComplianceInv
    OBVIOUS
  <2>1. (CHOOSE c \in Controls : TRUE) \in Controls /\ (CHOOSE f \in MappedFindings : TRUE) \in MappedFindings
    BY ComplianceAssumption DEF Controls
  <2>2. ComplianceTypeOK
    BY <2>1 DEF InitCompliance, ComplianceTypeOK, Status, Reference
  <2> QED BY <2>2 DEF ComplianceInv, InitCompliance, MappingIsUnique, MergeReads, NoMerge
<1> QED BY <1>1, ComplianceSteps, PTL

\* Type correctness of frameworks, controls, mappings and merges.
THEOREM ComplianceTypeCorrect == InitCompliance /\ [][NextCompliance]_complianceVars => []ComplianceTypeOK
<1>1. ComplianceInv => ComplianceTypeOK
  BY DEF ComplianceInv
<1> QED BY <1>1, ComplianceInvHolds, PTL

\* A merge of two findings loses no mapping and doubles none, whatever is
\* mapped or unmapped between its reads and its commit.
THEOREM MergesKeepMappings == InitCompliance /\ [][NextCompliance]_complianceVars => MappingsSurviveMerge
<1> DEFINE Kept == subjects' # subjects =>
               LET kept == LiveOn(merging.keeper) \cup (LiveOn(merging.donor) \cap merging.refs) IN
               \A c \in {reference[i].control : i \in kept} \ merging.unmapped :
                  Cardinality({i \in LiveIn(reference', merging.keeper) : reference'[i].control = c}) = 1
<1>1. ComplianceInv /\ [NextCompliance]_complianceVars => [Kept]_complianceVars
  <2> SUFFICES ASSUME ComplianceInv, NextCompliance, subjects' # subjects
               PROVE  Kept
    OBVIOUS
  <2>1. MergeCommits
    BY DEF NextCompliance, CreateFramework, ArchiveFramework, ImportBuiltinFramework,
           CreateComplianceControl, ArchiveComplianceControl, CheckMapping, AddReference,
           RemoveReference, ReassignReads, MergeRollsBack
  <2> QED BY <2>1, CommitKeepsMappings
<1> QED BY <1>1, ComplianceInvHolds, PTL DEF MappingsSurviveMerge
=============================================================================
