----------------------------- MODULE Dashboard ------------------------------
(***************************************************************************)
(* What the home page shows of the purchasing chain (dashboard_service),   *)
(* and which orders a user sees (the scopes of purchase_order_service and  *)
(* purchase_receipt_service): pure functions of the state of Procurement.  *)
(* A figure is the set that the query counts.  Requisitions before their   *)
(* approval (Requisition), the trend by date and the two activity feeds    *)
(* are not part of this state.                                             *)
(***************************************************************************)
EXTENDS Procurement, Functions

CONSTANTS
    Viewers,
    RoleOf,         \* role of a viewer
    Manages,        \* departments a viewer manages (department_managers)
    ApplicantOf,    \* applicant and department of a requisition
    DepartmentOf,
    BuyerOf,        \* buyer of an order
    SafetyStock     \* safety_stock of the keys that have a policy

RoleCode == {"ADMIN", "APPLICANT", "DEPT_MANAGER", "BUYER", "WAREHOUSE"}

ASSUME DashboardAssumption ==
    /\ RoleOf \in [Viewers -> RoleCode]
    /\ DOMAIN Manages = Viewers
    /\ DOMAIN ApplicantOf = Requisitions /\ DOMAIN DepartmentOf = Requisitions
    /\ BuyerOf \in [Orders -> Viewers]
    /\ DOMAIN SafetyStock \subseteq Keys

\* ROLE_PERMISSIONS, for the permissions the figures ask for.
Holders(perm) ==
    CASE perm = "pr:view"        -> RoleCode \ {"WAREHOUSE"}
      [] perm = "po:view"        -> RoleCode
      [] perm = "po:confirm"     -> {"ADMIN", "BUYER"}
      [] perm = "inventory:view" -> RoleCode

HasPerm(v, perm) == RoleOf[v] \in Holders(perm)

-----------------------------------------------------------------------------
(* Who sees what *)

Existing == {o \in Orders : poStatus[o] # "NONE"}

\* visible_pr_condition.
VisiblePrs(v) ==
    {r \in Requisitions :
        CASE RoleOf[v] = "APPLICANT"    -> ApplicantOf[r] = v
          [] RoleOf[v] = "DEPT_MANAGER" -> ApplicantOf[r] = v \/ DepartmentOf[r] \in Manages[v]
          [] OTHER                      -> TRUE}

\* Orders with a source line in one of these requisitions.
SourcedFrom(prs) == {o \in Existing : RequisitionsOf(source, o) \cap prs # {}}

\* _FULL_SCOPE_ROLES of the order service.
FullScope == {"ADMIN", "BUYER", "WAREHOUSE"}

OwnPrs(v) == {r \in Requisitions : ApplicantOf[r] = v}
ManagedPrs(v) == {r \in Requisitions : DepartmentOf[r] \in Manages[v]}

\* visible_po_id_stmt, the scope of the dashboard.
PoScope(v) ==
    CASE RoleOf[v] \in FullScope       -> Existing
      [] RoleOf[v] = "APPLICANT"       -> SourcedFrom(OwnPrs(v))
      [] RoleOf[v] = "DEPT_MANAGER"    -> SourcedFrom(ManagedPrs(v))

\* The scope of list_pos, with _source_visibility_cond.
ListPos(v) ==
    IF RoleOf[v] \in FullScope THEN Existing
    ELSE SourcedFrom(IF RoleOf[v] = "APPLICANT" THEN OwnPrs(v) ELSE ManagedPrs(v))

\* A manager opens only the orders that go back to the manager's own
\* requisitions.
Bug_GetPo(v, o) ==
    /\ o \in Existing
    /\ RoleOf[v] \in FullScope \/ \E r \in RequisitionsOf(source, o) : ApplicantOf[r] = v

\* _load and _assert_visible of get_po.
GetPo(v, o) ==
    /\ o \in Existing
    /\ \/ RoleOf[v] \in FullScope
       \/ \E r \in RequisitionsOf(source, o) :
            \/ RoleOf[v] = "APPLICANT" /\ ApplicantOf[r] = v
            \/ RoleOf[v] = "DEPT_MANAGER" /\ DepartmentOf[r] \in Manages[v]

\* _visible_po_stmt of the receipts: a buyer sees those of the buyer's orders.
ReceiptScope(v) ==
    {i \in 1..Len(receipts) :
        receipts[i].order \in
            IF RoleOf[v] = "BUYER" THEN {o \in Existing : BuyerOf[o] = v} ELSE PoScope(v)}

-----------------------------------------------------------------------------
(* Figures *)

\* _count_pending_purchase.
PendingPurchase(v) ==
    {r \in VisiblePrs(v) :
        /\ HasPerm(v, "pr:view") /\ HasPerm(v, "po:view")
        /\ prStatus[r] = "APPROVED"
        /\ \E p \in Items : RequisitionOf[p] = r /\ converted[p] < Requested[p]}

\* Every buyer is told of all drafts.
Bug_DraftPos(v) ==
    {o \in Orders : poStatus[o] = "DRAFT" /\ RoleOf[v] \in {"BUYER", "ADMIN"}}

\* _count_draft_pos.
DraftPos(v) ==
    {o \in Orders :
        /\ HasPerm(v, "po:confirm")
        /\ poStatus[o] = "DRAFT"
        /\ \/ RoleOf[v] = "BUYER" /\ BuyerOf[o] = v
           \/ RoleOf[v] = "ADMIN"}

\* _count_pending_pos.
PendingPos(v) ==
    {o \in PoScope(v) :
        HasPerm(v, "po:view") /\ poStatus[o] \in {"CONFIRMED", "PARTIALLY_RECEIVED"}}

\* lock_balance inserts a balance row with the first movement of a key.
HasBalance(k) == k \in KeysOf(ledger)

\* _count_low_stock, and the rows of low_stock_list.
LowStock(v) ==
    {k \in DOMAIN SafetyStock :
        /\ HasPerm(v, "inventory:view")
        /\ HasBalance(k)
        /\ balance[k].quantity < SafetyStock[k]}

\* _sum_inventory_amount.
InventoryAmount(v) ==
    IF HasPerm(v, "inventory:view")
    THEN SumFunction([k \in Keys |-> balance[k].total_amount]) ELSE 0

\* The statuses of an order, in the order of the enumeration.
Statuses == <<"DRAFT", "CONFIRMED", "PARTIALLY_RECEIVED", "RECEIVED", "CANCELLED">>

\* po_status_distribution: a count for every status, zero included.
StatusDistribution(v) ==
    [i \in 1..Len(Statuses) |->
        IF HasPerm(v, "po:view")
        THEN Cardinality({o \in PoScope(v) : poStatus[o] = Statuses[i]}) ELSE 0]

\* dashboard_todos: the entries, with what each one counts.
Todos(v) ==
    [type \in {"PR_TO_PO", "PO_CONFIRM", "PO_RECEIVE"} |->
        CASE type = "PR_TO_PO" /\ RoleOf[v] \in {"ADMIN", "BUYER"} -> PendingPurchase(v)
          [] type = "PO_CONFIRM" /\ RoleOf[v] \in {"ADMIN", "BUYER"} -> DraftPos(v)
          [] type = "PO_RECEIVE" /\ RoleOf[v] \in FullScope -> PendingPos(v)
          [] OTHER -> {}]

-----------------------------------------------------------------------------
(* Properties *)

\* confirm_po accepts the order from this user (_assert_buyer_or_admin behind
\* po:confirm).
MayConfirm(v, o) ==
    HasPerm(v, "po:confirm") /\ (RoleOf[v] = "ADMIN" \/ BuyerOf[o] = v)

\* Goods of an order that were ordered and are not on record as received.
Outstanding(o) == \E l \in LinesOf(o) : ReceiptQuantity(l) < Ordered(source[l])

\* The todo list is the work there is, nothing missing and nothing that is
\* done: every requested quantity that no active order draws is behind a
\* PR_TO_PO entry, every draft the user may confirm behind PO_CONFIRM, and
\* every order past its confirmation with outstanding goods behind PO_RECEIVE,
\* through cancellations and reversals (dashboard_service.dashboard_todos).
TodosAreWork ==
    LET toOrder == {r \in Requisitions :
                        /\ prStatus[r] # "CANCELLED"
                        /\ \E p \in Items : /\ RequisitionOf[p] = r
                                             /\ ActiveSources(p) < Requested[p]}
        toReceive == {o \in Orders : /\ poStatus[o] \notin {"NONE", "DRAFT", "CANCELLED"}
                                     /\ Outstanding(o)}
    IN  \A v \in Viewers :
            /\ RoleOf[v] \in {"ADMIN", "BUYER"} => Todos(v)["PR_TO_PO"] = toOrder
            /\ Todos(v)["PO_CONFIRM"] = {o \in Orders : poStatus[o] = "DRAFT" /\ MayConfirm(v, o)}
            /\ RoleOf[v] \in FullScope => Todos(v)["PO_RECEIVE"] = toReceive

\* What line l of receipt r brings into key k, in quantity and in value.
LineGoods(r, k, l) ==
    IF r.quantity[l] > 0 /\ <<r.warehouse, MaterialOf[l]>> = k
    THEN r.quantity[l] ELSE 0

LineWorth(r, k, l) ==
    IF r.quantity[l] > 0 /\ <<r.warehouse, MaterialOf[l]>> = k
    THEN LineAmount(r.quantity[l], PriceOf[l]) ELSE 0

\* What the posted receipts have brought into key k.
GoodsOnRecord(k) ==
    SumUpTo([i \in 1..Len(receipts) |->
                IF receipts[i].status = "POSTED"
                THEN SumUpTo([l \in Lines |-> LineGoods(receipts[i], k, l)], LineCount)
                ELSE 0], Len(receipts))

WorthOnRecord(k) ==
    SumUpTo([i \in 1..Len(receipts) |->
                IF receipts[i].status = "POSTED"
                THEN SumUpTo([l \in Lines |-> LineWorth(receipts[i], k, l)], LineCount)
                ELSE 0], Len(receipts))

\* What the posted counts have added to key k, or taken from it.
GoodsCounted(k) ==
    SumUpTo([j \in 1..Len(ledger) |->
                IF j \in CountRows /\ ledger[j].key = k THEN ledger[j].quantity ELSE 0],
            Len(ledger))

WorthCounted(k) ==
    SumUpTo([j \in 1..Len(ledger) |->
                IF j \in CountRows /\ ledger[j].key = k THEN ledger[j].amount ELSE 0],
            Len(ledger))

\* The inventory figures follow from the posted receipts and the adjustments
\* of the posted counts: the total is the sum of the line amounts and of the
\* adjustments, to the cent, and a key is reported low when goods were ever
\* received into it or counted on it and those on record are fewer than its
\* safety stock.  Reversed receipts leave no residue in either
\* (dashboard_service._sum_inventory_amount, _count_low_stock).
StockFiguresAreDocuments ==
    LET total == SumFunction([k \in Keys |-> WorthOnRecord(k) + WorthCounted(k)])
        low == {k \in DOMAIN SafetyStock :
                    /\ \/ \E i \in 1..Len(receipts) : \E l \in LinesIn(receipts[i].quantity) :
                             k = <<receipts[i].warehouse, MaterialOf[l]>>
                       \/ \E j \in CountRows : ledger[j].key = k
                    /\ GoodsOnRecord(k) + GoodsCounted(k) < SafetyStock[k]}
    IN  \A v \in Viewers : InventoryAmount(v) = total /\ LowStock(v) = low

\* The three copies of the visibility rule agree for every user and order: an
\* order is in the list exactly when its page opens and when the dashboard
\* counts it, and a receipt is shown only with its order
\* (purchase_order_service.list_pos, get_po, visible_po_id_stmt).
ScopesAgree ==
    \A v \in Viewers :
        /\ ListPos(v) = {o \in Orders : GetPo(v, o)}
        /\ ListPos(v) = PoScope(v)
        /\ SumUpTo(StatusDistribution(v), Len(Statuses)) = Cardinality(ListPos(v))
        /\ \A i \in ReceiptScope(v) : GetPo(v, receipts[i].order)
=============================================================================
