---------------------------- MODULE Requisition ----------------------------
(***************************************************************************)
(* Purchase requisitions up to their approval                              *)
(* (purchase_requisition_service): a requisition is drafted, edited,       *)
(* submitted, approved or rejected by its department's managers, revised   *)
(* after a rejection, and cancelled.  What happens to an approved          *)
(* requisition, its conversion into orders, is in Procurement.             *)
(*                                                                         *)
(* Sessions are those of Procurement: a request opens with a REPEATABLE    *)
(* READ snapshot and takes effect in one later step, which reads the       *)
(* snapshot wherever the code uses the loaded object and the current row   *)
(* in the WHERE of its conditional UPDATE.  The version that a client      *)
(* sends back is compared with the loaded one; page is where the client of *)
(* an approval got it from.                                                *)
(***************************************************************************)
EXTENDS Sums, Costing, LineNumbers

CONSTANTS
    Sessions,
    NoSnapshot,
    NoPage,
    Users,
    Admins,           \* users with the ADMIN role
    Managers,         \* managers of the department (department_managers)
    Department,       \* the department of the applicants
    Materials,
    Retirable,        \* bound: materials and departments a run may disable
    Prices,           \* unit prices that occur
    MaxQuantity,      \* bound: quantity of a line
    MaxLines,         \* bound: lines of a requisition
    MaxRequisitions,  \* bound: requisitions
    MaxVersion        \* bound: version of a requisition

ASSUME RequisitionAssumption ==
    /\ Admins \subseteq Users /\ Managers \subseteq Users
    /\ Prices \subseteq Nat
    /\ MaxQuantity \in Nat /\ MaxLines \in Nat
    /\ MaxRequisitions \in Nat /\ MaxVersion \in Nat
    /\ Retirable \subseteq Materials \cup {Department}

VARIABLES prs,        \* purchase_requisitions with their items, in id order
          approvals,  \* approval_records, in id order
          disabled,   \* materials and departments that are not ACTIVE
          snap,       \* the snapshot of every session
          page        \* the requisition an approver last looked at

vars == <<prs, approvals, disabled, snap, page>>

PrStatus == {"DRAFT", "PENDING", "APPROVED", "REJECTED", "CANCELLED"}

Item == [id : Nat, material : Materials, quantity : Nat, price : Nat,
         amount : Nat]

Pr == [applicant : Users, status : PrStatus, version : Nat, total : Nat,
       items : Seq(Item)]

ApprovalRecord == [pr : Nat, action : {"APPROVE", "REJECT"}, approver : Users]

Snapshot == [prs : Seq(Pr), disabled : SUBSET (Materials \cup {Department})]

TypeOK == /\ prs \in Seq(Pr)
          /\ approvals \in Seq(ApprovalRecord)
          /\ disabled \in SUBSET (Materials \cup {Department})
          /\ snap \in [Sessions -> Snapshot \cup {NoSnapshot}]
          /\ page \in [pr : Nat, doc : Pr] \cup {NoPage}

Init == /\ prs = << >>
        /\ approvals = << >>
        /\ disabled = {}
        /\ snap = [s \in Sessions |-> NoSnapshot]
        /\ page = NoPage

-----------------------------------------------------------------------------
(* Sessions *)

View == [prs |-> prs, disabled |-> disabled]

IsOpen(s) == snap[s] # NoSnapshot

Begin(s) == /\ ~IsOpen(s)
            /\ snap' = [snap EXCEPT ![s] = View]
            /\ UNCHANGED <<prs, approvals, disabled, page>>

Commit(s) == snap' = [snap EXCEPT ![s] = NoSnapshot]

Rollback(s) == /\ IsOpen(s)
               /\ Commit(s)
               /\ UNCHANGED <<prs, approvals, disabled, page>>

\* The material and department pages.
ToggleMasterData(s, d) ==
    /\ IsOpen(s)
    /\ disabled' = IF d \in snap[s].disabled THEN disabled \ {d}
                   ELSE disabled \cup {d}
    /\ Commit(s)
    /\ UNCHANGED <<prs, approvals, page>>

-----------------------------------------------------------------------------
(* Helpers of the service *)

Transitions == {<<"DRAFT", "PENDING">>, <<"DRAFT", "CANCELLED">>,
                <<"PENDING", "APPROVED">>, <<"PENDING", "REJECTED">>,
                <<"REJECTED", "DRAFT">>, <<"APPROVED", "CANCELLED">>}

\* Session s sees requisition r.
Sees(s, r) == /\ IsOpen(s)
              /\ r \in 1..Len(snap[s].prs)

\* _assert_transition, on the loaded requisition.
CanMove(s, r, target) == <<snap[s].prs[r].status, target>> \in Transitions

\* _assert_self_or_admin.
CanManage(s, r, u) == u = snap[s].prs[r].applicant \/ u \in Admins

\* _assert_approver.
CanApprove(s, u) == /\ Department \notin snap[s].disabled
                    /\ u \in Admins \cup Managers

\* _assert_material_active, for every line.
MaterialsActive(s, lines) ==
    \A i \in 1..Len(lines) : lines[i].material \notin snap[s].disabled

\* What the service assigns to the version of the loaded requisition.
NextVersion(s, r) == snap[s].prs[r].version + 1

\* The header total of a list of items.
Total(items) == SumUpTo([i \in 1..Len(items) |-> items[i].amount], Len(items))

\* The items are recomputed before the new ones joined the collection.
Bug_RecomputedTotal(old, items) ==
    SumUpTo([i \in 1..Len(items) |->
                IF \E j \in 1..Len(old) : old[j].id = items[i].id
                THEN items[i].amount ELSE 0], Len(items))

\* _recompute of the items that replace the items old: the total of them all.
RecomputedTotal(old, items) == Total(items)

\* The row of a request line: a kept one when the line names its id.
ItemFor(id, line) == [id |-> id, material |-> line.material,
                      quantity |-> line.quantity, price |-> line.price,
                      amount |-> LineAmount(line.quantity, line.price)]

\* _sync_items.
SyncedItems(old, lines) ==
    [i \in 1..Len(lines) |->
        ItemFor(IF lines[i].id = 0 THEN FreshId(old, i) ELSE lines[i].id,
                lines[i])]

\* The ids in a request are those of rows of the requisition.
NamesItems(lines, old) ==
    \A i \in 1..Len(lines) : lines[i].id # 0 =>
        \E p \in 1..Len(old) : old[p].id = lines[i].id

-----------------------------------------------------------------------------
(* The applicant's operations *)

CreatePr(s, u, lines) ==
    LET items == [i \in 1..Len(lines) |-> ItemFor(i, lines[i])]
    IN  /\ IsOpen(s)
        /\ Len(prs) < MaxRequisitions
        /\ Department \notin snap[s].disabled
        /\ MaterialsActive(s, lines)
        /\ prs' = Append(prs, [applicant |-> u, status |-> "DRAFT", version |-> 1,
                               total |-> Total(items), items |-> items])
        /\ Commit(s)
        /\ UNCHANGED <<approvals, disabled, page>>

UpdatePr(s, u, r, lines) ==
    LET pr    == snap[s].prs[r]
        items == SyncedItems(pr.items, lines)
    IN  /\ Sees(s, r)
        /\ CanManage(s, r, u)
        /\ pr.status = "DRAFT"
        /\ pr.version < MaxVersion
        /\ NamesItems(lines, pr.items)
        /\ MaterialsActive(s, lines)
        /\ prs[r].version = pr.version /\ prs[r].status = "DRAFT"
        /\ LinesFit(pr.items, items)
        /\ prs' = [prs EXCEPT ![r].items   = items,
                              ![r].total   = RecomputedTotal(pr.items, items),
                              ![r].version = NextVersion(s, r)]
        /\ Commit(s)
        /\ UNCHANGED <<approvals, disabled, page>>

\* The status is only compared in the loaded requisition.
Bug_SubmitOK(r) == TRUE

\* The conditional UPDATE of submit_pr, on the status alone.
SubmitOK(r) == prs[r].status = "DRAFT"

\* The total is that of the loaded items, the version the loaded one plus 1.
SubmitPr(s, u, r) ==
    LET pr == snap[s].prs[r]
    IN  /\ Sees(s, r)
        /\ CanManage(s, r, u)
        /\ CanMove(s, r, "PENDING")
        /\ pr.items # << >>
        /\ MaterialsActive(s, pr.items)
        /\ pr.version < MaxVersion
        /\ SubmitOK(r)
        /\ prs' = [prs EXCEPT ![r].status  = "PENDING",
                              ![r].total   = RecomputedTotal(pr.items, pr.items),
                              ![r].version = NextVersion(s, r)]
        /\ Commit(s)
        /\ UNCHANGED <<approvals, disabled, page>>

\* No order draws on the requisition here (has_active_po): see Procurement.
CancelPr(s, u, r) ==
    /\ Sees(s, r)
    /\ CanManage(s, r, u)
    /\ CanMove(s, r, "CANCELLED")
    /\ prs[r].status \in {"DRAFT", "APPROVED"}
    /\ prs' = [prs EXCEPT ![r].status  = "CANCELLED",
                          ![r].version = NextVersion(s, r)]
    /\ Commit(s)
    /\ UNCHANGED <<approvals, disabled, page>>

RevisePr(s, u, r) ==
    /\ Sees(s, r)
    /\ CanMove(s, r, "DRAFT")
    /\ CanManage(s, r, u)
    /\ snap[s].prs[r].version < MaxVersion
    /\ prs[r].version = snap[s].prs[r].version /\ prs[r].status = "REJECTED"
    /\ prs' = [prs EXCEPT ![r].status  = "DRAFT",
                          ![r].version = NextVersion(s, r)]
    /\ Commit(s)
    /\ UNCHANGED <<approvals, disabled, page>>

-----------------------------------------------------------------------------
(* The approver's operations *)

\* An approver opens the page of a requisition.
OpenPage(s, r) ==
    /\ Sees(s, r)
    /\ page' = [pr |-> r, doc |-> snap[s].prs[r]]
    /\ Commit(s)
    /\ UNCHANGED <<prs, approvals, disabled>>

\* The version that the client sends is not compared with anything.
Bug_VersionOK(s, r) == page # NoPage /\ page.pr = r

\* _assert_version: the client decides on the page it has loaded.
VersionOK(s, r) == /\ page # NoPage /\ page.pr = r
                   /\ page.doc.version = snap[s].prs[r].version

\* Only the loaded requisition is looked at.
Bug_DecideOK(s, r) == TRUE

\* The conditional UPDATE of approve_pr and reject_pr.
DecideOK(s, r) == /\ prs[r].version = snap[s].prs[r].version
                  /\ prs[r].status = "PENDING"

ApprovePr(s, u, r) ==
    LET pr == snap[s].prs[r]
    IN  /\ Sees(s, r)
        /\ CanMove(s, r, "APPROVED")
        /\ VersionOK(s, r)
        /\ CanApprove(s, u)
        /\ pr.items # << >>
        /\ MaterialsActive(s, pr.items)
        /\ DecideOK(s, r)
        /\ prs' = [prs EXCEPT ![r].status  = "APPROVED",
                              ![r].total   = RecomputedTotal(pr.items, pr.items),
                              ![r].version = NextVersion(s, r)]
        /\ approvals' = Append(approvals,
                               [pr |-> r, action |-> "APPROVE", approver |-> u])
        /\ Commit(s)
        /\ UNCHANGED <<disabled, page>>

RejectPr(s, u, r) ==
    /\ Sees(s, r)
    /\ CanMove(s, r, "REJECTED")
    /\ VersionOK(s, r)
    /\ CanApprove(s, u)
    /\ snap[s].prs[r].version < MaxVersion
    /\ DecideOK(s, r)
    /\ prs' = [prs EXCEPT ![r].status  = "REJECTED",
                          ![r].version = NextVersion(s, r)]
    /\ approvals' = Append(approvals,
                           [pr |-> r, action |-> "REJECT", approver |-> u])
    /\ Commit(s)
    /\ UNCHANGED <<disabled, page>>

-----------------------------------------------------------------------------

\* A request line; id 0 for a new one.
Line(ids) == [id : ids, material : Materials, quantity : 1..MaxQuantity,
              price : Prices]

\* Like the edit page, a request sends every kept row once; one that repeats
\* an id would leave a gap in the line numbers, which are positions here.
Requests(ids) ==
    {lines \in UNION {[1..n -> Line(ids)] : n \in 1..MaxLines} :
        \A i, j \in DOMAIN lines : lines[i].id = lines[j].id => lines[i].id = 0 \/ i = j}

IdsOf(items) == {items[i].id : i \in 1..Len(items)}

Next ==
    \E s \in Sessions :
        \/ Begin(s)
        \/ Rollback(s)
        \/ \E d \in Retirable : ToggleMasterData(s, d)
        \/ \E u \in Users, lines \in Requests({0}) : CreatePr(s, u, lines)
        \/ \E u \in Users, r \in 1..Len(prs) :
              \/ \E lines \in Requests({0} \cup IdsOf(prs[r].items)) :
                    UpdatePr(s, u, r, lines)
              \/ SubmitPr(s, u, r)
              \/ CancelPr(s, u, r)
              \/ RevisePr(s, u, r)
              \/ ApprovePr(s, u, r)
              \/ RejectPr(s, u, r)
        \/ \E r \in 1..Len(prs) : OpenPage(s, r)

Spec == Init /\ [][Next]_vars

-----------------------------------------------------------------------------
(* Properties *)

\* The status of a requisition moves along _TRANSITIONS only, however the
\* requests interleave: the conditional UPDATE of every operation looks at the
\* current status and not at the loaded one.
LegalTransitions ==
    [][\A r \in 1..Len(prs) : prs'[r].status # prs[r].status =>
          <<prs[r].status, prs'[r].status>> \in Transitions]_vars

\* The approval history is consistent with the requisitions: an approval is
\* the last decision, is never repeated, and its requisition has not gone back
\* to an earlier state; an approved or rejected requisition has the record.
ApprovalIsFinal ==
    /\ \A i \in 1..Len(approvals) : approvals[i].action = "APPROVE" =>
          /\ prs[approvals[i].pr].status \in {"APPROVED", "CANCELLED"}
          /\ \A j \in 1..Len(approvals) :
                approvals[j].pr = approvals[i].pr => j <= i
    /\ \A r \in 1..Len(prs) :
          /\ prs[r].status = "APPROVED" =>
                \E i \in 1..Len(approvals) :
                    approvals[i].pr = r /\ approvals[i].action = "APPROVE"
          /\ prs[r].status = "REJECTED" =>
                \E i \in 1..Len(approvals) :
                    approvals[i].pr = r /\ approvals[i].action = "REJECT"

\* The header total of a requisition is the sum of the amounts of its lines
\* (_recompute, "amounts are always authoritative").
TotalIsSum == \A r \in 1..Len(prs) : prs[r].total = Total(prs[r].items)

\* Every change of a requisition gives it a version it never had: the version
\* that the optimistic locks compare grows with every update.
VersionGrows ==
    [][\A r \in 1..Len(prs) : prs'[r] # prs[r] =>
          prs'[r].version > prs[r].version]_vars

\* What is approved is what the approver's page showed.
ApprovedAsRead ==
    [][\A r \in 1..Len(prs) :
          prs[r].status # "APPROVED" /\ prs'[r].status = "APPROVED" =>
              /\ page # NoPage /\ page.pr = r
              /\ page.doc.items = prs'[r].items]_vars

\* Any line of a draft can be dropped by an edit that keeps the others
\* (PurchaseRequisitionItemUpdate, "Existing lines not referenced by the
\* payload are deleted").
LinesCanBeDropped ==
    \A r \in 1..Len(prs) : prs[r].status = "DRAFT" =>
        \A i \in 1..Len(prs[r].items) :
            LinesFit(prs[r].items, Dropped(prs[r].items, i))

=============================================================================
