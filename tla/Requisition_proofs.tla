------------------------ MODULE Requisition_proofs ------------------------
(***************************************************************************)
(* The approval workflow of Requisition, for every number of sessions,     *)
(* users, requisitions, lines and materials.  The first part holds however *)
(* the requests interleave; the second is about requests that do not       *)
(* overlap, which is where the header total and the approver's page can be *)
(* relied on.                                                              *)
(***************************************************************************)
EXTENDS Requisition, Sums_proofs

-----------------------------------------------------------------------------
(* The inductive invariant *)

\* A decision is one on a requisition that exists.
RecordsOK == \A i \in 1..Len(approvals) : approvals[i].pr \in 1..Len(prs)

IInv == TypeOK /\ RecordsOK /\ ApprovalIsFinal

\* What LegalTransitions says of a step.
LegalStep == \A r \in 1..Len(prs) : prs'[r].status # prs[r].status =>
                 <<prs[r].status, prs'[r].status>> \in Transitions

\* The fields of a requisition.
LEMMA PrFields ==
  ASSUME NEW d \in Pr
  PROVE  /\ d.applicant \in Users /\ d.status \in PrStatus /\ d.version \in Nat
         /\ d.total \in Nat /\ d.items \in Seq(Item)
  BY DEF Pr

\* What an open session sees.
LEMMA SeenType ==
  ASSUME TypeOK, NEW s \in Sessions, NEW r, Sees(s, r)
  PROVE  /\ snap[s].prs[r] \in Pr
         /\ snap[s].prs[r].version \in Nat
         /\ snap[s].prs[r].items \in Seq(Item)
<1>1. snap[s] \in Snapshot
  BY DEF TypeOK, Sees, IsOpen
<1>2. snap[s].prs \in Seq(Pr)
  BY <1>1 DEF Snapshot
<1>3. snap[s].prs[r] \in Pr
  BY <1>2 DEF Sees
<1> QED
  BY <1>3, PrFields

LEMMA CommitType ==
  ASSUME TypeOK, NEW s \in Sessions, Commit(s)
  PROVE  snap' \in [Sessions -> Snapshot \cup {NoSnapshot}]
  BY DEF TypeOK, Commit

\* The total of typed items is an amount.
LEMMA TotalType ==
  ASSUME NEW items \in Seq(Item)
  PROVE  Total(items) \in Nat
<1> DEFINE f == [i \in 1..Len(items) |-> items[i].amount]
<1>1. Len(items) \in Nat /\ \A i \in 1..Len(items) : items[i] \in Item
  OBVIOUS
<1>2. \A i \in 1..Len(items) : f[i] \in Nat
  BY <1>1 DEF Item
<1> HIDE DEF f
<1>3. SumUpTo(f, Len(items)) \in Nat
  BY <1>1, <1>2, SumNat
<1> QED
  BY <1>3 DEF Total, f

-----------------------------------------------------------------------------
(* What the handlers do to a requisition *)

\* One requisition is replaced, along a legal transition, by a handler that
\* writes no decision.
LEMMA MovePr ==
  ASSUME IInv, NEW s \in Sessions, Commit(s), UNCHANGED <<disabled, page>>,
         NEW r \in 1..Len(prs), NEW d \in Pr, prs' = [prs EXCEPT ![r] = d],
         approvals' = approvals,
         d.status \notin {"APPROVED", "REJECTED"},
         \/ d.status = prs[r].status
         \/ <<prs[r].status, d.status>> \in Transitions
  PROVE  IInv' /\ LegalStep
<1>1. prs \in Seq(Pr) /\ approvals \in Seq(ApprovalRecord)
  BY DEF IInv, TypeOK
<1>2. /\ prs' \in Seq(Pr) /\ Len(prs') = Len(prs) /\ prs'[r] = d
      /\ \A i \in 1..Len(prs) : i # r => prs'[i] = prs[i]
  BY <1>1, UpdatedSeq
<1>3. TypeOK'
  BY <1>2, CommitType DEF IInv, TypeOK
<1>4. RecordsOK'
  BY <1>2 DEF IInv, RecordsOK
<1>5. ApprovalIsFinal'
  <2>1. prs[r].status \in {"APPROVED", "CANCELLED"} => d.status = "CANCELLED"
    BY DEF Transitions
  <2> QED
    BY <1>1, <1>2, <2>1 DEF IInv, RecordsOK, ApprovalIsFinal
<1>6. LegalStep
  BY <1>2 DEF LegalStep
<1> QED
  BY <1>3, <1>4, <1>5, <1>6 DEF IInv

\* A pending requisition is decided.
LEMMA DecidePr ==
  ASSUME IInv, NEW s \in Sessions, Commit(s), UNCHANGED <<disabled, page>>,
         NEW r \in 1..Len(prs), NEW d \in Pr, prs' = [prs EXCEPT ![r] = d],
         NEW a \in ApprovalRecord, approvals' = Append(approvals, a),
         a.pr = r, prs[r].status = "PENDING",
         \/ a.action = "APPROVE" /\ d.status = "APPROVED"
         \/ a.action = "REJECT" /\ d.status = "REJECTED"
  PROVE  IInv' /\ LegalStep
<1>1. prs \in Seq(Pr) /\ approvals \in Seq(ApprovalRecord)
  BY DEF IInv, TypeOK
<1>2. /\ prs' \in Seq(Pr) /\ Len(prs') = Len(prs) /\ prs'[r] = d
      /\ \A i \in 1..Len(prs) : i # r => prs'[i] = prs[i]
  BY <1>1, UpdatedSeq
<1> DEFINE n == Len(approvals)
<1>3. /\ approvals' \in Seq(ApprovalRecord) /\ Len(approvals') = n + 1
      /\ n \in Nat /\ approvals'[n + 1] = a
      /\ \A i \in 1..n : approvals'[i] = approvals[i]
  BY <1>1, AppendedSeq
<1> HIDE DEF n
<1>4. TypeOK'
  BY <1>2, <1>3, CommitType DEF IInv, TypeOK
<1>5. RecordsOK'
  BY <1>2, <1>3 DEF IInv, RecordsOK, n
<1>6. \A i \in 1..n : approvals[i].action = "APPROVE" => approvals[i].pr # r
  BY DEF IInv, ApprovalIsFinal, n
<1>7. ApprovalIsFinal'
  <2>1. ASSUME NEW i \in 1..Len(approvals'), approvals'[i].action = "APPROVE"
        PROVE  /\ prs'[approvals'[i].pr].status \in {"APPROVED", "CANCELLED"}
               /\ \A j \in 1..Len(approvals') :
                     approvals'[j].pr = approvals'[i].pr => j <= i
    <3>1. CASE i = n + 1
      BY <1>2, <1>3, <2>1, <3>1
    <3>2. CASE i \in 1..n
      <4>1. approvals[i].pr # r /\ approvals[i].pr \in 1..Len(prs)
        BY <1>3, <1>6, <2>1, <3>2 DEF IInv, RecordsOK, n
      <4> QED
        BY <1>2, <1>3, <2>1, <3>2, <4>1 DEF IInv, ApprovalIsFinal, n
    <3> QED
      BY <1>3, <3>1, <3>2
  <2>2. ASSUME NEW q \in 1..Len(prs')
        PROVE  /\ prs'[q].status = "APPROVED" =>
                    \E i \in 1..Len(approvals') :
                        approvals'[i].pr = q /\ approvals'[i].action = "APPROVE"
               /\ prs'[q].status = "REJECTED" =>
                    \E i \in 1..Len(approvals') :
                        approvals'[i].pr = q /\ approvals'[i].action = "REJECT"
    <3>1. CASE q = r
      BY <1>2, <1>3, <3>1
    <3>2. CASE q # r
      BY <1>2, <1>3, <3>2 DEF IInv, ApprovalIsFinal, n
    <3> QED
      BY <3>1, <3>2
  <2> QED
    BY <2>1, <2>2 DEF ApprovalIsFinal
<1>8. LegalStep
  BY <1>2 DEF LegalStep, Transitions
<1> QED
  BY <1>4, <1>5, <1>7, <1>8 DEF IInv

\* The items of a request.
LEMMA ItemsType ==
  ASSUME NEW ids \in SUBSET Nat, NEW lines \in Requests(ids)
  PROVE  /\ lines \in Seq(Line(ids))
         /\ \A i \in 1..Len(lines) : \A id \in Nat : ItemFor(id, lines[i]) \in Item
<1>1. PICK n \in 1..MaxLines : lines \in [1..n -> Line(ids)]
  BY DEF Requests
<1>2. n \in Nat
  BY RequisitionAssumption
<1>3. lines \in Seq(Line(ids)) /\ Len(lines) = n
  BY <1>1, <1>2
<1>4. ASSUME NEW l \in Line(ids), NEW id \in Nat PROVE ItemFor(id, l) \in Item
  <2>1. /\ l.material \in Materials /\ l.quantity \in 1..MaxQuantity
        /\ l.price \in Prices
    BY DEF Line
  <2>0. l.quantity \in Nat /\ l.price \in Nat
    <3>1. 1..MaxQuantity \subseteq Nat /\ Prices \subseteq Nat
      BY RequisitionAssumption
    <3> QED
      BY <2>1, <3>1
  <2>2. LineAmount(l.quantity, l.price) \in Nat
    BY <2>0, CostType
  <2> QED
    BY <2>0, <2>1, <2>2 DEF ItemFor, Item
<1> QED
  BY <1>1, <1>3, <1>4

\* The ids of the items of a requisition are numbers.
LEMMA IdsType ==
  ASSUME NEW rows \in Seq(Item)
  PROVE  \A j \in 1..Len(rows) : rows[j].id \in Nat
<1>1. \A j \in 1..Len(rows) : rows[j] \in Item
  OBVIOUS
<1> QED
  BY <1>1 DEF Item

\* The id of a new row is a number: the rows of a document have a largest id.
LEMMA FreshIdType ==
  ASSUME NEW rows \in Seq(Item), NEW i \in Nat
  PROVE  FreshId(rows, i) \in Nat
<1>1. NatIds(rows)
  BY IdsType DEF NatIds
<1>2. PICK top \in Nat : FreshId(rows, i) = i + top
  BY <1>1, FreshIdIs
<1> QED
  BY <1>2

\* A requisition with some fields replaced.
LEMMA MovedPr ==
  ASSUME NEW d \in Pr, NEW st \in PrStatus, NEW v \in Nat
  PROVE  [d EXCEPT !.status = st, !.version = v] \in Pr
  BY DEF Pr

LEMMA TotalledPr ==
  ASSUME NEW d \in Pr, NEW st \in PrStatus, NEW t \in Nat, NEW v \in Nat
  PROVE  [d EXCEPT !.status = st, !.total = t, !.version = v] \in Pr
  BY DEF Pr

LEMMA EditedPr ==
  ASSUME NEW d \in Pr, NEW items \in Seq(Item), NEW t \in Nat, NEW v \in Nat
  PROVE  [d EXCEPT !.items = items, !.total = t, !.version = v] \in Pr
  BY DEF Pr

\* The version that a handler writes.
LEMMA NextVersionType ==
  ASSUME TypeOK, NEW s \in Sessions, NEW r, Sees(s, r)
  PROVE  NextVersion(s, r) \in Nat
  BY SeenType DEF NextVersion

-----------------------------------------------------------------------------
(* One lemma per handler *)

LEMMA UpdatePrKeeps ==
  ASSUME IInv, NEW s \in Sessions, NEW u \in Users, NEW r \in 1..Len(prs),
         NEW lines \in Requests({0} \cup IdsOf(prs[r].items)),
         UpdatePr(s, u, r, lines)
  PROVE  IInv' /\ LegalStep
<1> DEFINE old   == snap[s].prs[r].items
           items == SyncedItems(old, lines)
           d     == [prs[r] EXCEPT !.items = items,
                                   !.total = RecomputedTotal(old, items),
                                   !.version = NextVersion(s, r)]
           ids   == {0} \cup IdsOf(prs[r].items)
<1>1. TypeOK /\ Sees(s, r) /\ prs \in Seq(Pr) /\ prs[r] \in Pr
  BY DEF IInv, TypeOK, UpdatePr
<1>2. old \in Seq(Item) /\ NextVersion(s, r) \in Nat
  BY <1>1, SeenType, NextVersionType
<1>3. items \in Seq(Item)
  <2>1. ids \in SUBSET Nat
    <3>1. prs[r].items \in Seq(Item)
      BY <1>1, PrFields
    <3>2. \A i \in 1..Len(prs[r].items) : prs[r].items[i].id \in Nat
      BY <3>1, IdsType
    <3> QED
      BY <3>2 DEF IdsOf
  <2> HIDE DEF ids
  <2>2. lines \in Requests(ids)
    BY DEF ids
  <2>3. /\ lines \in Seq(Line(ids))
        /\ \A i \in 1..Len(lines) : \A id \in Nat : ItemFor(id, lines[i]) \in Item
    BY <2>1, <2>2, ItemsType
  <2>4. \A i \in 1..Len(lines) : lines[i].id \in Nat
    <3>1. \A i \in 1..Len(lines) : lines[i] \in Line(ids)
      BY <2>3
    <3> QED
      BY <2>1, <3>1 DEF Line
  <2>5. \A i \in 1..Len(lines) : FreshId(old, i) \in Nat
    <3>1. \A i \in 1..Len(lines) : i \in Nat
      BY <2>3
    <3> HIDE DEF old
    <3> QED
      BY <1>2, <3>1, FreshIdType
  <2>6. \A i \in 1..Len(lines) : items[i] \in Item
    BY <2>3, <2>4, <2>5 DEF SyncedItems
  <2>7. items = [i \in 1..Len(lines) |-> items[i]] /\ Len(lines) \in Nat
    BY <2>3 DEF SyncedItems
  <2> HIDE DEF items
  <2> QED
    BY <2>6, <2>7
<1> HIDE DEF items, old
<1>4. RecomputedTotal(old, items) \in Nat
  BY <1>3, TotalType DEF RecomputedTotal
<1>5. d \in Pr
  BY <1>1, <1>2, <1>3, <1>4, EditedPr
<1>6. /\ Commit(s) /\ UNCHANGED <<disabled, page>> /\ approvals' = approvals
      /\ prs[r].status = "DRAFT"
      /\ prs' = [prs EXCEPT ![r] = d]
  BY DEF UpdatePr, items, old
<1>7. d.status = "DRAFT"
  BY <1>1, <1>6 DEF Pr
<1> HIDE DEF d
<1> QED
  BY <1>5, <1>6, <1>7, MovePr

LEMMA SubmitPrKeeps ==
  ASSUME IInv, NEW s \in Sessions, NEW u \in Users, NEW r \in 1..Len(prs),
         SubmitPr(s, u, r)
  PROVE  IInv' /\ LegalStep
<1> DEFINE old == snap[s].prs[r].items
           d == [prs[r] EXCEPT !.status  = "PENDING",
                             !.total   = RecomputedTotal(old, old),
                             !.version = NextVersion(s, r)]
<1>1. TypeOK /\ Sees(s, r) /\ prs \in Seq(Pr) /\ prs[r] \in Pr
  BY DEF IInv, TypeOK, SubmitPr
<1>2. NextVersion(s, r) \in Nat /\ RecomputedTotal(old, old) \in Nat
  BY <1>1, NextVersionType, SeenType, TotalType DEF RecomputedTotal
<1>3. d \in Pr
  <2>1. "PENDING" \in PrStatus
    BY DEF PrStatus
  <2> QED
    BY <1>1, <1>2, <2>1, TotalledPr
<1>4. /\ Commit(s) /\ UNCHANGED <<disabled, page>> /\ approvals' = approvals
      /\ prs[r].status \in {"DRAFT"}
      /\ prs' = [prs EXCEPT ![r] = d]
  BY DEF SubmitPr, SubmitOK
<1>5. d.status = "PENDING"
  BY <1>1 DEF Pr
<1> HIDE DEF d
<1> QED
  BY <1>3, <1>4, <1>5, MovePr DEF Transitions

LEMMA CancelPrKeeps ==
  ASSUME IInv, NEW s \in Sessions, NEW u \in Users, NEW r \in 1..Len(prs),
         CancelPr(s, u, r)
  PROVE  IInv' /\ LegalStep
<1> DEFINE d == [prs[r] EXCEPT !.status  = "CANCELLED",
                             !.version = NextVersion(s, r)]
<1>1. TypeOK /\ Sees(s, r) /\ prs \in Seq(Pr) /\ prs[r] \in Pr
  BY DEF IInv, TypeOK, CancelPr
<1>2. NextVersion(s, r) \in Nat
  BY <1>1, NextVersionType
<1>3. d \in Pr
  <2>1. "CANCELLED" \in PrStatus
    BY DEF PrStatus
  <2> QED
    BY <1>1, <1>2, <2>1, MovedPr
<1>4. /\ Commit(s) /\ UNCHANGED <<disabled, page>> /\ approvals' = approvals
      /\ prs[r].status \in {"DRAFT", "APPROVED"}
      /\ prs' = [prs EXCEPT ![r] = d]
  BY DEF CancelPr
<1>5. d.status = "CANCELLED"
  BY <1>1 DEF Pr
<1> HIDE DEF d
<1> QED
  BY <1>3, <1>4, <1>5, MovePr DEF Transitions

LEMMA RevisePrKeeps ==
  ASSUME IInv, NEW s \in Sessions, NEW u \in Users, NEW r \in 1..Len(prs),
         RevisePr(s, u, r)
  PROVE  IInv' /\ LegalStep
<1> DEFINE d == [prs[r] EXCEPT !.status  = "DRAFT",
                             !.version = NextVersion(s, r)]
<1>1. TypeOK /\ Sees(s, r) /\ prs \in Seq(Pr) /\ prs[r] \in Pr
  BY DEF IInv, TypeOK, RevisePr
<1>2. NextVersion(s, r) \in Nat
  BY <1>1, NextVersionType
<1>3. d \in Pr
  <2>1. "DRAFT" \in PrStatus
    BY DEF PrStatus
  <2> QED
    BY <1>1, <1>2, <2>1, MovedPr
<1>4. /\ Commit(s) /\ UNCHANGED <<disabled, page>> /\ approvals' = approvals
      /\ prs[r].status \in {"REJECTED"}
      /\ prs' = [prs EXCEPT ![r] = d]
  BY DEF RevisePr
<1>5. d.status = "DRAFT"
  BY <1>1 DEF Pr
<1> HIDE DEF d
<1> QED
  BY <1>3, <1>4, <1>5, MovePr DEF Transitions

LEMMA ApprovePrKeeps ==
  ASSUME IInv, NEW s \in Sessions, NEW u \in Users, NEW r \in 1..Len(prs),
         ApprovePr(s, u, r)
  PROVE  IInv' /\ LegalStep
<1> DEFINE old == snap[s].prs[r].items
           d == [prs[r] EXCEPT !.status  = "APPROVED",
                             !.total   = RecomputedTotal(old, old),
                             !.version = NextVersion(s, r)]
           a == [pr |-> r, action |-> "APPROVE", approver |-> u]
<1>1. TypeOK /\ Sees(s, r) /\ prs \in Seq(Pr) /\ prs[r] \in Pr
  BY DEF IInv, TypeOK, ApprovePr
<1>2. NextVersion(s, r) \in Nat /\ RecomputedTotal(old, old) \in Nat
  BY <1>1, NextVersionType, SeenType, TotalType DEF RecomputedTotal
<1>3. d \in Pr
  <2>1. "APPROVED" \in PrStatus
    BY DEF PrStatus
  <2> QED
    BY <1>1, <1>2, <2>1, TotalledPr
<1>4. /\ Commit(s) /\ UNCHANGED <<disabled, page>>
      /\ prs[r].status = "PENDING"
      /\ prs' = [prs EXCEPT ![r] = d] /\ approvals' = Append(approvals, a)
  BY DEF ApprovePr, DecideOK
<1>5. d.status = "APPROVED"
  BY <1>1 DEF Pr
<1>6. a \in ApprovalRecord /\ a.pr = r /\ a.action = "APPROVE"
  BY <1>1 DEF ApprovalRecord
<1> HIDE DEF d, a
<1> QED
  BY <1>3, <1>4, <1>5, <1>6, DecidePr

LEMMA RejectPrKeeps ==
  ASSUME IInv, NEW s \in Sessions, NEW u \in Users, NEW r \in 1..Len(prs),
         RejectPr(s, u, r)
  PROVE  IInv' /\ LegalStep
<1> DEFINE d == [prs[r] EXCEPT !.status  = "REJECTED",
                             !.version = NextVersion(s, r)]
           a == [pr |-> r, action |-> "REJECT", approver |-> u]
<1>1. TypeOK /\ Sees(s, r) /\ prs \in Seq(Pr) /\ prs[r] \in Pr
  BY DEF IInv, TypeOK, RejectPr
<1>2. NextVersion(s, r) \in Nat
  BY <1>1, NextVersionType
<1>3. d \in Pr
  <2>1. "REJECTED" \in PrStatus
    BY DEF PrStatus
  <2> QED
    BY <1>1, <1>2, <2>1, MovedPr
<1>4. /\ Commit(s) /\ UNCHANGED <<disabled, page>>
      /\ prs[r].status = "PENDING"
      /\ prs' = [prs EXCEPT ![r] = d] /\ approvals' = Append(approvals, a)
  BY DEF RejectPr, DecideOK
<1>5. d.status = "REJECTED"
  BY <1>1 DEF Pr
<1>6. a \in ApprovalRecord /\ a.pr = r /\ a.action = "REJECT"
  BY <1>1 DEF ApprovalRecord
<1> HIDE DEF d, a
<1> QED
  BY <1>3, <1>4, <1>5, <1>6, DecidePr

LEMMA CreatePrKeeps ==
  ASSUME IInv, NEW s \in Sessions, NEW u \in Users, NEW lines \in Requests({0}),
         CreatePr(s, u, lines)
  PROVE  IInv' /\ LegalStep
<1> DEFINE items == [i \in 1..Len(lines) |-> ItemFor(i, lines[i])]
           d == [applicant |-> u, status |-> "DRAFT", version |-> 1,
                 total |-> Total(items), items |-> items]
<1>1. /\ lines \in Seq(Line({0}))
      /\ \A i \in 1..Len(lines) : \A id \in Nat : ItemFor(id, lines[i]) \in Item
  BY ItemsType
<1>2. items \in Seq(Item)
  BY <1>1
<1>3. prs' = Append(prs, d) /\ Commit(s) /\ UNCHANGED <<approvals, disabled, page>>
  BY DEF CreatePr
<1> HIDE DEF items
<1>4. Total(items) \in Nat
  BY <1>2, TotalType
<1>5. d \in Pr /\ d.status = "DRAFT"
  BY <1>2, <1>4 DEF Pr, PrStatus
<1> HIDE DEF d
<1>6. prs \in Seq(Pr) /\ approvals \in Seq(ApprovalRecord) /\ Len(prs) \in Nat
  BY DEF IInv, TypeOK
<1>7. /\ prs' \in Seq(Pr) /\ Len(prs') = Len(prs) + 1 /\ prs'[Len(prs) + 1] = d
      /\ \A i \in 1..Len(prs) : prs'[i] = prs[i]
  BY <1>3, <1>5, <1>6, AppendedSeq
<1>8. TypeOK'
  BY <1>3, <1>7, CommitType DEF IInv, TypeOK
<1>9. RecordsOK'
  BY <1>3, <1>6, <1>7 DEF IInv, RecordsOK
<1>10. ApprovalIsFinal'
  BY <1>3, <1>5, <1>6, <1>7 DEF IInv, RecordsOK, ApprovalIsFinal
<1>11. LegalStep
  BY <1>7 DEF LegalStep
<1> QED
  BY <1>8, <1>9, <1>10, <1>11 DEF IInv

\* The steps that leave the requisitions and the decisions alone.
LEMMA OtherKeeps ==
  ASSUME IInv, TypeOK', UNCHANGED <<prs, approvals>>
  PROVE  IInv' /\ LegalStep
  BY DEF IInv, RecordsOK, ApprovalIsFinal, LegalStep

LEMMA InitIInv == Init => IInv
<1> SUFFICES ASSUME Init PROVE IInv
  OBVIOUS
<1>1. prs = << >> /\ approvals = << >> /\ Len(prs) = 0 /\ Len(approvals) = 0
  BY DEF Init
<1>2. TypeOK
  BY DEF Init, TypeOK
<1>3. RecordsOK /\ ApprovalIsFinal
  BY <1>1 DEF RecordsOK, ApprovalIsFinal
<1> QED
  BY <1>2, <1>3 DEF IInv

LEMMA NextIInv == IInv /\ [Next]_vars => IInv' /\ LegalStep
<1> SUFFICES ASSUME IInv, [Next]_vars PROVE IInv' /\ LegalStep
  OBVIOUS
<1> USE DEF IInv
<1>1. CASE UNCHANGED vars
  <2>1. TypeOK'
    BY <1>1 DEF vars, TypeOK
  <2> QED
    BY <1>1, <2>1, OtherKeeps DEF vars
<1>2. ASSUME NEW s \in Sessions, Begin(s) PROVE IInv' /\ LegalStep
  <2>1. View \in Snapshot
    BY DEF View, Snapshot, TypeOK
  <2>2. TypeOK'
    BY <1>2, <2>1 DEF Begin, TypeOK
  <2> QED
    BY <1>2, <2>2, OtherKeeps DEF Begin
<1>3. ASSUME NEW s \in Sessions, Rollback(s) PROVE IInv' /\ LegalStep
  <2>1. TypeOK'
    BY <1>3, CommitType DEF Rollback, TypeOK
  <2> QED
    BY <1>3, <2>1, OtherKeeps DEF Rollback
<1>4. ASSUME NEW s \in Sessions, NEW d \in Retirable, ToggleMasterData(s, d)
      PROVE  IInv' /\ LegalStep
  <2>1. disabled' \in SUBSET (Materials \cup {Department})
    BY <1>4, RequisitionAssumption DEF ToggleMasterData, TypeOK
  <2>2. TypeOK'
    BY <1>4, <2>1, CommitType DEF ToggleMasterData, TypeOK
  <2> QED
    BY <1>4, <2>2, OtherKeeps DEF ToggleMasterData
<1>5. ASSUME NEW s \in Sessions, NEW r \in 1..Len(prs), OpenPage(s, r)
      PROVE  IInv' /\ LegalStep
  <2>1. snap[s].prs[r] \in Pr
    BY <1>5, SeenType DEF OpenPage
  <2>2. page' \in [pr : Nat, doc : Pr]
    BY <1>5, <2>1 DEF OpenPage, TypeOK
  <2>3. TypeOK'
    BY <1>5, <2>2, CommitType DEF OpenPage, TypeOK
  <2> QED
    BY <1>5, <2>3, OtherKeeps DEF OpenPage
<1> QED
  BY <1>1, <1>2, <1>3, <1>4, <1>5, CreatePrKeeps, UpdatePrKeeps, SubmitPrKeeps,
     CancelPrKeeps, RevisePrKeeps, ApprovePrKeeps, RejectPrKeeps DEF Next

LEMMA Invariance == Spec => []IInv
<1>1. Init => IInv
  BY InitIInv
<1>2. IInv /\ [Next]_vars => IInv'
  BY NextIInv
<1> QED
  BY <1>1, <1>2, PTL DEF Spec

\* The approval history agrees with the requisitions in every interleaving: an
\* approval is the last decision on its requisition and is never taken back
\* (approve_pr, reject_pr and revise_pr, by their conditional UPDATEs).
THEOREM ApprovalsAreFinal == Spec => []ApprovalIsFinal
<1>1. IInv => ApprovalIsFinal
  BY DEF IInv
<1> QED
  BY <1>1, Invariance, PTL

\* No race moves a requisition off the transitions of _TRANSITIONS.
THEOREM StatusMovesLegally == Spec => LegalTransitions
<1>1. IInv /\ [Next]_vars => [LegalStep]_vars
  BY NextIInv
<1>2. [LegalStep]_vars => [\A r \in 1..Len(prs) : prs'[r].status # prs[r].status =>
          <<prs[r].status, prs'[r].status>> \in Transitions]_vars
  BY DEF LegalStep
<1> QED
  BY <1>1, <1>2, Invariance, PTL DEF Spec, LegalTransitions

-----------------------------------------------------------------------------
(* Requests that do not overlap *)

\* There is one session at most, so a request starts when the one before it
\* has ended.
Serial == \A s, t \in Sessions : s = t

\* What the open session has loaded is what is stored.
Fresh == \A s \in Sessions : IsOpen(s) => snap[s] = View

\* A page with the current version shows the current requisition.
PageOK == page # NoPage =>
    /\ page.pr \in 1..Len(prs)
    /\ page.doc.version <= prs[page.pr].version
    /\ page.doc.version = prs[page.pr].version => page.doc = prs[page.pr]

SInv == IInv /\ Fresh /\ TotalIsSum /\ PageOK

\* What ApprovedAsRead says of a step.
ReadStep == \A r \in 1..Len(prs) :
    prs[r].status # "APPROVED" /\ prs'[r].status = "APPROVED" =>
        /\ page # NoPage /\ page.pr = r
        /\ page.doc.items = prs'[r].items

\* A request that ends leaves nothing open.
LEMMA CommitFresh ==
  ASSUME Serial, TypeOK, NEW s \in Sessions, Commit(s)
  PROVE  Fresh'
  BY DEF Serial, TypeOK, Commit, Fresh, IsOpen

\* The open session sees the stored requisition and gives it the next version.
LEMMA SeesCurrent ==
  ASSUME Fresh, NEW s \in Sessions, NEW r, Sees(s, r)
  PROVE  /\ snap[s].prs = prs /\ snap[s].disabled = disabled
         /\ NextVersion(s, r) = prs[r].version + 1
<1>1. snap[s] = View
  BY DEF Fresh, Sees
<1> QED
  BY <1>1 DEF View, NextVersion

\* A handler replaces a requisition by one whose total is right.
LEMMA ReplacePr ==
  ASSUME Serial, SInv, IInv', NEW s \in Sessions, Commit(s),
         NEW r \in 1..Len(prs), NEW d \in Pr, prs' = [prs EXCEPT ![r] = d],
         page' = page, d.total = Total(d.items),
         d.version = prs[r].version + 1,
         d.status = "APPROVED" => /\ page # NoPage /\ page.pr = r
                                  /\ page.doc.items = d.items
  PROVE  SInv' /\ ReadStep
<1>1. prs \in Seq(Pr) /\ TypeOK
  BY DEF SInv, IInv, TypeOK
<1>2. /\ Len(prs') = Len(prs) /\ prs'[r] = d
      /\ \A i \in 1..Len(prs) : i # r => prs'[i] = prs[i]
  BY <1>1, UpdatedSeq
<1>3. Fresh'
  BY <1>1, CommitFresh
<1>4. TotalIsSum'
  BY <1>2 DEF SInv, TotalIsSum
<1>5. PageOK'
  <2>1. CASE page = NoPage
    BY <2>1 DEF PageOK
  <2>2. CASE page # NoPage /\ page.pr = r
    <3>1. page.doc \in Pr /\ prs[r] \in Pr
      BY <1>1, <2>2 DEF TypeOK
    <3>2. page.doc.version \in Nat /\ prs[r].version \in Nat
      BY <3>1, PrFields
    <3>3. page.doc.version <= prs[r].version
      BY <2>2 DEF SInv, PageOK
    <3>4. page.doc.version < d.version
      BY <3>2, <3>3
    <3> QED
      BY <1>2, <2>2, <3>2, <3>4 DEF PageOK
  <2>3. CASE page # NoPage /\ page.pr # r
    BY <1>2, <2>3 DEF SInv, PageOK
  <2> QED
    BY <2>1, <2>2, <2>3
<1>6. ReadStep
  BY <1>2 DEF ReadStep
<1> QED
  BY <1>3, <1>4, <1>5, <1>6 DEF SInv

LEMMA SubmitPrSerial ==
  ASSUME Serial, SInv, NEW s \in Sessions, NEW u \in Users,
         NEW r \in 1..Len(prs), SubmitPr(s, u, r)
  PROVE  SInv' /\ ReadStep
<1> DEFINE old == snap[s].prs[r].items
           d == [prs[r] EXCEPT !.status  = "PENDING",
                             !.total   = RecomputedTotal(old, old),
                             !.version = NextVersion(s, r)]
<1>1. TypeOK /\ IInv /\ Fresh /\ Sees(s, r) /\ prs \in Seq(Pr) /\ prs[r] \in Pr
  BY DEF SInv, IInv, TypeOK, SubmitPr
<1>2. /\ snap[s].prs = prs /\ NextVersion(s, r) = prs[r].version + 1
      /\ prs[r].total = Total(prs[r].items)
  BY <1>1, SeesCurrent DEF SInv, TotalIsSum
<1>3. d \in Pr
  <2>1. "PENDING" \in PrStatus
    BY DEF PrStatus
  <2>2. NextVersion(s, r) \in Nat /\ RecomputedTotal(old, old) \in Nat
    BY <1>1, NextVersionType, SeenType, TotalType DEF RecomputedTotal
  <2> QED
    BY <1>1, <2>1, <2>2, TotalledPr
<1>4. Commit(s) /\ page' = page /\ prs' = [prs EXCEPT ![r] = d]
  BY DEF SubmitPr
<1>5. /\ d.status = "PENDING" /\ d.version = NextVersion(s, r)
      /\ d.items = prs[r].items /\ d.total = RecomputedTotal(old, old)
  BY <1>1 DEF Pr
<1>6. d.total = Total(d.items)
  BY <1>2, <1>5 DEF RecomputedTotal
<1>7. IInv'
  BY <1>1, SubmitPrKeeps
<1> HIDE DEF d
<1> QED
  BY <1>2, <1>3, <1>4, <1>5, <1>6, <1>7, ReplacePr

LEMMA CancelPrSerial ==
  ASSUME Serial, SInv, NEW s \in Sessions, NEW u \in Users,
         NEW r \in 1..Len(prs), CancelPr(s, u, r)
  PROVE  SInv' /\ ReadStep
<1> DEFINE d == [prs[r] EXCEPT !.status  = "CANCELLED",
                             !.version = NextVersion(s, r)]
<1>1. TypeOK /\ IInv /\ Fresh /\ Sees(s, r) /\ prs \in Seq(Pr) /\ prs[r] \in Pr
  BY DEF SInv, IInv, TypeOK, CancelPr
<1>2. /\ snap[s].prs = prs /\ NextVersion(s, r) = prs[r].version + 1
      /\ prs[r].total = Total(prs[r].items)
  BY <1>1, SeesCurrent DEF SInv, TotalIsSum
<1>3. d \in Pr
  <2>1. "CANCELLED" \in PrStatus
    BY DEF PrStatus
  <2>2. NextVersion(s, r) \in Nat
    BY <1>1, NextVersionType
  <2> QED
    BY <1>1, <2>1, <2>2, MovedPr
<1>4. Commit(s) /\ page' = page /\ prs' = [prs EXCEPT ![r] = d]
  BY DEF CancelPr
<1>5. /\ d.status = "CANCELLED" /\ d.version = NextVersion(s, r)
      /\ d.items = prs[r].items /\ d.total = prs[r].total
  BY <1>1 DEF Pr
<1>6. d.total = Total(d.items)
  BY <1>2, <1>5
<1>7. IInv'
  BY <1>1, CancelPrKeeps
<1> HIDE DEF d
<1> QED
  BY <1>2, <1>3, <1>4, <1>5, <1>6, <1>7, ReplacePr

LEMMA RevisePrSerial ==
  ASSUME Serial, SInv, NEW s \in Sessions, NEW u \in Users,
         NEW r \in 1..Len(prs), RevisePr(s, u, r)
  PROVE  SInv' /\ ReadStep
<1> DEFINE d == [prs[r] EXCEPT !.status  = "DRAFT",
                             !.version = NextVersion(s, r)]
<1>1. TypeOK /\ IInv /\ Fresh /\ Sees(s, r) /\ prs \in Seq(Pr) /\ prs[r] \in Pr
  BY DEF SInv, IInv, TypeOK, RevisePr
<1>2. /\ snap[s].prs = prs /\ NextVersion(s, r) = prs[r].version + 1
      /\ prs[r].total = Total(prs[r].items)
  BY <1>1, SeesCurrent DEF SInv, TotalIsSum
<1>3. d \in Pr
  <2>1. "DRAFT" \in PrStatus
    BY DEF PrStatus
  <2>2. NextVersion(s, r) \in Nat
    BY <1>1, NextVersionType
  <2> QED
    BY <1>1, <2>1, <2>2, MovedPr
<1>4. Commit(s) /\ page' = page /\ prs' = [prs EXCEPT ![r] = d]
  BY DEF RevisePr
<1>5. /\ d.status = "DRAFT" /\ d.version = NextVersion(s, r)
      /\ d.items = prs[r].items /\ d.total = prs[r].total
  BY <1>1 DEF Pr
<1>6. d.total = Total(d.items)
  BY <1>2, <1>5
<1>7. IInv'
  BY <1>1, RevisePrKeeps
<1> HIDE DEF d
<1> QED
  BY <1>2, <1>3, <1>4, <1>5, <1>6, <1>7, ReplacePr

LEMMA ApprovePrSerial ==
  ASSUME Serial, SInv, NEW s \in Sessions, NEW u \in Users,
         NEW r \in 1..Len(prs), ApprovePr(s, u, r)
  PROVE  SInv' /\ ReadStep
<1> DEFINE old == snap[s].prs[r].items
           d == [prs[r] EXCEPT !.status  = "APPROVED",
                             !.total   = RecomputedTotal(old, old),
                             !.version = NextVersion(s, r)]
<1>1. TypeOK /\ IInv /\ Fresh /\ Sees(s, r) /\ prs \in Seq(Pr) /\ prs[r] \in Pr
  BY DEF SInv, IInv, TypeOK, ApprovePr
<1>2. /\ snap[s].prs = prs /\ NextVersion(s, r) = prs[r].version + 1
      /\ prs[r].total = Total(prs[r].items)
  BY <1>1, SeesCurrent DEF SInv, TotalIsSum
<1>3. d \in Pr
  <2>1. "APPROVED" \in PrStatus
    BY DEF PrStatus
  <2>2. NextVersion(s, r) \in Nat /\ RecomputedTotal(old, old) \in Nat
    BY <1>1, NextVersionType, SeenType, TotalType DEF RecomputedTotal
  <2> QED
    BY <1>1, <2>1, <2>2, TotalledPr
<1>4. Commit(s) /\ page' = page /\ prs' = [prs EXCEPT ![r] = d]
  BY DEF ApprovePr
<1>5. /\ d.status = "APPROVED" /\ d.version = NextVersion(s, r)
      /\ d.items = prs[r].items /\ d.total = RecomputedTotal(old, old)
  BY <1>1 DEF Pr
<1>6. d.total = Total(d.items)
  BY <1>2, <1>5 DEF RecomputedTotal
<1>7. IInv'
  BY <1>1, ApprovePrKeeps
<1>8. page # NoPage /\ page.pr = r /\ page.doc.items = prs[r].items
  BY <1>2 DEF ApprovePr, VersionOK, SInv, PageOK
<1> HIDE DEF d
<1> QED
  BY <1>2, <1>3, <1>4, <1>5, <1>6, <1>7, <1>8, ReplacePr

LEMMA RejectPrSerial ==
  ASSUME Serial, SInv, NEW s \in Sessions, NEW u \in Users,
         NEW r \in 1..Len(prs), RejectPr(s, u, r)
  PROVE  SInv' /\ ReadStep
<1> DEFINE d == [prs[r] EXCEPT !.status  = "REJECTED",
                             !.version = NextVersion(s, r)]
<1>1. TypeOK /\ IInv /\ Fresh /\ Sees(s, r) /\ prs \in Seq(Pr) /\ prs[r] \in Pr
  BY DEF SInv, IInv, TypeOK, RejectPr
<1>2. /\ snap[s].prs = prs /\ NextVersion(s, r) = prs[r].version + 1
      /\ prs[r].total = Total(prs[r].items)
  BY <1>1, SeesCurrent DEF SInv, TotalIsSum
<1>3. d \in Pr
  <2>1. "REJECTED" \in PrStatus
    BY DEF PrStatus
  <2>2. NextVersion(s, r) \in Nat
    BY <1>1, NextVersionType
  <2> QED
    BY <1>1, <2>1, <2>2, MovedPr
<1>4. Commit(s) /\ page' = page /\ prs' = [prs EXCEPT ![r] = d]
  BY DEF RejectPr
<1>5. /\ d.status = "REJECTED" /\ d.version = NextVersion(s, r)
      /\ d.items = prs[r].items /\ d.total = prs[r].total
  BY <1>1 DEF Pr
<1>6. d.total = Total(d.items)
  BY <1>2, <1>5
<1>7. IInv'
  BY <1>1, RejectPrKeeps
<1> HIDE DEF d
<1> QED
  BY <1>2, <1>3, <1>4, <1>5, <1>6, <1>7, ReplacePr

LEMMA UpdatePrSerial ==
  ASSUME Serial, SInv, NEW s \in Sessions, NEW u \in Users,
         NEW r \in 1..Len(prs),
         NEW lines \in Requests({0} \cup IdsOf(prs[r].items)),
         UpdatePr(s, u, r, lines)
  PROVE  SInv' /\ ReadStep
<1> DEFINE items == SyncedItems(snap[s].prs[r].items, lines)
           total == RecomputedTotal(snap[s].prs[r].items, items)
           d     == [prs[r] EXCEPT !.items = items, !.total = total,
                                   !.version = NextVersion(s, r)]
<1>1. TypeOK /\ IInv /\ Fresh /\ Sees(s, r) /\ prs \in Seq(Pr) /\ prs[r] \in Pr
  BY DEF SInv, IInv, TypeOK, UpdatePr
<1>2. NextVersion(s, r) = prs[r].version + 1
  BY <1>1, SeesCurrent
<1>3. IInv'
  BY <1>1, UpdatePrKeeps
<1>4. /\ Commit(s) /\ page' = page /\ prs' = [prs EXCEPT ![r] = d]
      /\ prs[r].status = "DRAFT"
  BY DEF UpdatePr
<1>5. /\ d.status = prs[r].status /\ d.version = NextVersion(s, r)
      /\ d.items = items /\ d.total = total
  <2> HIDE DEF items, total
  <2> QED
    BY <1>1 DEF Pr
<1>6. total = Total(items)
  BY DEF RecomputedTotal
<1> HIDE DEF items, total, d
<1>7. d \in Pr
  <2>1. prs' \in Seq(Pr) /\ prs'[r] = d /\ Len(prs') = Len(prs)
    BY <1>1, <1>3, <1>4 DEF IInv, TypeOK
  <2> QED
    BY <2>1
<1> QED
  BY <1>2, <1>3, <1>4, <1>5, <1>6, <1>7, ReplacePr

LEMMA CreatePrSerial ==
  ASSUME Serial, SInv, NEW s \in Sessions, NEW u \in Users,
         NEW lines \in Requests({0}), CreatePr(s, u, lines)
  PROVE  SInv' /\ ReadStep
<1> DEFINE items == [i \in 1..Len(lines) |-> ItemFor(i, lines[i])]
           d == [applicant |-> u, status |-> "DRAFT", version |-> 1,
                 total |-> Total(items), items |-> items]
<1>1. TypeOK /\ IInv /\ prs \in Seq(Pr)
  BY DEF SInv, IInv, TypeOK
<1>2. prs' = Append(prs, d) /\ Commit(s) /\ page' = page
  BY DEF CreatePr
<1>3. IInv' /\ Fresh'
  BY <1>1, <1>2, CreatePrKeeps, CommitFresh
<1>4. d.total = Total(d.items)
  OBVIOUS
<1> HIDE DEF d
<1>5. /\ Len(prs') = Len(prs) + 1 /\ prs'[Len(prs) + 1] = d /\ Len(prs) \in Nat
      /\ \A i \in 1..Len(prs) : prs'[i] = prs[i]
  BY <1>1, <1>2
<1>6. TotalIsSum'
  BY <1>4, <1>5 DEF SInv, TotalIsSum
<1>7. PageOK'
  BY <1>2, <1>5 DEF SInv, PageOK
<1>8. ReadStep
  BY <1>5 DEF ReadStep
<1> QED
  BY <1>3, <1>6, <1>7, <1>8 DEF SInv

LEMMA OpenPageSerial ==
  ASSUME Serial, SInv, NEW s \in Sessions, NEW r \in 1..Len(prs), OpenPage(s, r)
  PROVE  SInv' /\ ReadStep
<1>1. TypeOK /\ IInv /\ Fresh /\ Sees(s, r) /\ prs \in Seq(Pr) /\ prs[r] \in Pr
  BY DEF SInv, IInv, TypeOK, OpenPage
<1>2. IInv'
  BY <1>1, NextIInv DEF Next
<1>3. Fresh'
  BY <1>1, CommitFresh DEF OpenPage
<1>4. page' = [pr |-> r, doc |-> prs[r]] /\ prs' = prs
  BY <1>1, SeesCurrent DEF OpenPage
<1>5. prs[r].version \in Nat
  BY <1>1, PrFields
<1>6. page'.pr = r /\ page'.doc = prs[r]
  BY <1>4
<1>7. PageOK'
  BY <1>4, <1>5, <1>6 DEF PageOK
<1>8. TotalIsSum'
  BY <1>4 DEF SInv, TotalIsSum
<1>9. ReadStep
  BY <1>4 DEF ReadStep
<1> QED
  BY <1>2, <1>3, <1>7, <1>8, <1>9 DEF SInv

\* The steps that leave the requisitions and the page alone.
LEMMA OtherSerial ==
  ASSUME SInv, IInv', Fresh', UNCHANGED <<prs, page>>
  PROVE  SInv' /\ ReadStep
  BY DEF SInv, TotalIsSum, PageOK, ReadStep

LEMMA NextSInv ==
  ASSUME Serial PROVE SInv /\ [Next]_vars => SInv' /\ ReadStep
<1> SUFFICES ASSUME SInv, [Next]_vars PROVE SInv' /\ ReadStep
  OBVIOUS
<1>1. IInv' /\ IInv /\ TypeOK
  BY NextIInv DEF SInv, IInv
<1>2. CASE UNCHANGED vars
  <2>1. Fresh'
    BY <1>2 DEF SInv, Fresh, IsOpen, View, vars
  <2> QED
    BY <1>1, <1>2, <2>1, OtherSerial DEF vars
<1>3. ASSUME NEW s \in Sessions, Begin(s) PROVE SInv' /\ ReadStep
  <2>1. Fresh'
    BY <1>1, <1>3 DEF Begin, Serial, Fresh, TypeOK, View, IsOpen
  <2> QED
    BY <1>1, <1>3, <2>1, OtherSerial DEF Begin
<1>4. ASSUME NEW s \in Sessions, Rollback(s) PROVE SInv' /\ ReadStep
  <2>1. Fresh'
    BY <1>1, <1>4, CommitFresh DEF Rollback
  <2> QED
    BY <1>1, <1>4, <2>1, OtherSerial DEF Rollback
<1>5. ASSUME NEW s \in Sessions, NEW d \in Retirable, ToggleMasterData(s, d)
      PROVE  SInv' /\ ReadStep
  <2>1. Fresh'
    BY <1>1, <1>5, CommitFresh DEF ToggleMasterData
  <2> QED
    BY <1>1, <1>5, <2>1, OtherSerial DEF ToggleMasterData
<1> QED
  BY <1>2, <1>3, <1>4, <1>5, CreatePrSerial, UpdatePrSerial, SubmitPrSerial,
     CancelPrSerial, RevisePrSerial, ApprovePrSerial, RejectPrSerial,
     OpenPageSerial DEF Next

LEMMA SerialInvariance == ASSUME Serial PROVE Spec => []SInv
<1>1. Init => SInv
  <2> SUFFICES ASSUME Init PROVE SInv
    OBVIOUS
  <2>1. Len(prs) = 0 /\ page = NoPage
    BY DEF Init
  <2>2. Fresh
    BY DEF Init, Fresh, IsOpen
  <2> QED
    BY <2>1, <2>2, InitIInv DEF SInv, TotalIsSum, PageOK
<1>2. SInv /\ [Next]_vars => SInv'
  BY NextSInv
<1> QED
  BY <1>1, <1>2, PTL DEF Spec

\* With requests that do not overlap, the header total of every requisition is
\* the sum of its lines (_recompute in create_pr, update_pr, submit_pr and
\* approve_pr).  StaleTotal shows a race that breaks it.
THEOREM TotalsAreSums == ASSUME Serial PROVE Spec => []TotalIsSum
<1>1. SInv => TotalIsSum
  BY DEF SInv
<1> QED
  BY <1>1, SerialInvariance, PTL

\* With requests that do not overlap, what approve_pr approves is what the page
\* with that version showed (_assert_version), however old the page is.
\* UnreadApproval shows a race that breaks it.
THEOREM ApprovalsAreRead == ASSUME Serial PROVE Spec => ApprovedAsRead
<1>1. SInv /\ [Next]_vars => [ReadStep]_vars
  BY NextSInv
<1>2. [ReadStep]_vars =>
        [\A r \in 1..Len(prs) :
            prs[r].status # "APPROVED" /\ prs'[r].status = "APPROVED" =>
                /\ page # NoPage /\ page.pr = r
                /\ page.doc.items = prs'[r].items]_vars
  BY DEF ReadStep
<1> QED
  BY <1>1, <1>2, SerialInvariance, PTL DEF Spec, ApprovedAsRead

=============================================================================
