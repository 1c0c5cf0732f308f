---------------------------- MODULE Procurement ----------------------------
(***************************************************************************)
(* The purchasing chain behind the HTTP API: approved requisition items    *)
(* are converted into purchase orders (purchase_order_service), goods are  *)
(* received against order lines and receipts are reversed                  *)
(* (purchase_receipt_service), and every receipt moves stock (Inventory).  *)
(* Posted stock counts move it too; the count documents themselves are the *)
(* subject of StockReconciliation.                                         *)
(*                                                                         *)
(* Transactions.  A request runs in one database session.  Its first query *)
(* (deps.get_current_user) fixes the REPEATABLE READ snapshot; every plain *)
(* SELECT and every ORM object of the handler shows that snapshot, while   *)
(* UPDATE ... WHERE, SELECT ... FOR UPDATE and upserts work on the current *)
(* row and keep it X-locked until COMMIT.  So a request is two steps: the  *)
(* session opens with a snapshot, and later its handler takes effect       *)
(* atomically, reading snap[s] where the code reads the snapshot and the   *)
(* variables themselves where it takes a locking read.  A request that is  *)
(* rejected, fails or crashes rolls back.                                  *)
(*                                                                         *)
(* Order lines and requisition items are numbered by their ids, which is   *)
(* the order create_receipt and reverse_receipt process lines in.          *)
(***************************************************************************)
EXTENDS Inventory, FiniteSets

CONSTANTS
    Sessions,        \* database sessions that can be open at a time
    NoSnapshot,      \* the "snapshot" of a closed session
    Requisitions,
    ItemCount,       \* requisition items are 1..ItemCount
    RequisitionOf,   \* the requisition an item belongs to
    Requested,       \* requested_quantity of an item
    Orders,          \* ids of the purchase orders that can be created
    LineCount,       \* order lines are 1..LineCount
    OrderOf,         \* the order a line belongs to
    MaterialOf,      \* material and unit price of a line, as in the request
    PriceOf,
    Suppliers,
    SupplierOf,      \* supplier of an order, as in the request
    Retirable,       \* bound: master data a run may disable and enable
    CountRates,      \* valuation rates of counts that find more than the book
    MaxReceipts,     \* bound: receipts ever created
    MaxCounts,       \* bound: stock counts ever posted
    MaxQuantity      \* bound: quantity of a requested line

Items == 1..ItemCount
Lines == 1..LineCount

\* Warehouses, materials and suppliers are rows of three tables, and a
\* requisition is submitted with at least one item (submit_pr).
ASSUME ProcurementAssumption ==
    /\ Warehouses \cap (Materials \cup Suppliers) = {}
    /\ ItemCount \in Nat
    /\ RequisitionOf \in [Items -> Requisitions]
    /\ \A r \in Requisitions : \E p \in Items : RequisitionOf[p] = r
    /\ Requested \in [Items -> Nat \ {0}]
    /\ LineCount \in Nat
    /\ OrderOf \in [Lines -> Orders]
    /\ MaterialOf \in [Lines -> Materials]
    /\ PriceOf \in [Lines -> Nat]
    /\ SupplierOf \in [Orders -> Suppliers]
    /\ CountRates \subseteq Nat \ {0}
    /\ MaxReceipts \in Nat
    /\ MaxCounts \in Nat
    /\ MaxQuantity \in Nat

VARIABLES
    prStatus,    \* purchase_requisitions.status, from APPROVED on
    converted,   \* purchase_requisition_items.converted_quantity
    poStatus,    \* purchase_orders.status, "NONE" before the INSERT
    poVersion,   \* purchase_orders.version
    source,      \* purchase_order_item_sources.quantity, 0 for no row
    received,    \* purchase_order_items.received_quantity
    receipts,    \* purchase_receipts with their items, in id order
    disabled,    \* master data whose status is DISABLED
    snap         \* the snapshot of every session

documents == <<prStatus, converted, poStatus, poVersion, source, received,
               receipts, disabled>>
vars == <<documents, ledger, balance, snap>>

PrStatus == {"APPROVED", "CONVERTED", "CANCELLED"}
PoStatus == {"NONE", "DRAFT", "CONFIRMED", "PARTIALLY_RECEIVED", "RECEIVED",
             "CANCELLED"}
MasterData == Warehouses \cup Materials \cup Suppliers

\* A posted receipt: received_quantity per order line, 0 for a line it does
\* not contain.
Receipt == [order : Orders, warehouse : Warehouses, quantity : [Lines -> Nat],
            status : {"POSTED", "REVERSED"}]

\* What a handler can see of the database through its snapshot.  Rows that
\* are never updated (sources, receipt items, ledger rows) need no copy: a
\* snapshot that shows the order or the receipt shows them.
Snapshot == [prStatus : [Requisitions -> PrStatus],
             poStatus : [Orders -> PoStatus],
             poVersion : [Orders -> Nat],
             received : [Lines -> Nat],
             posted : SUBSET Nat,           \* receipts that are POSTED
             rows : Nat,                    \* ledger rows that exist
             disabled : SUBSET MasterData,
             stocked : SUBSET Warehouses]   \* warehouses that hold stock

TypeOK == /\ StockTypeOK
          /\ prStatus \in [Requisitions -> PrStatus]
          /\ converted \in [Items -> Nat]
          /\ poStatus \in [Orders -> PoStatus]
          /\ poVersion \in [Orders -> Nat]
          /\ source \in [Lines -> [Items -> Nat]]
          /\ received \in [Lines -> Nat]
          /\ receipts \in Seq(Receipt)
          /\ disabled \in SUBSET MasterData
          /\ snap \in [Sessions -> Snapshot \cup {NoSnapshot}]

Init == /\ StockInit
        /\ prStatus = [r \in Requisitions |-> "APPROVED"]
        /\ converted = [p \in Items |-> 0]
        /\ poStatus = [o \in Orders |-> "NONE"]
        /\ poVersion = [o \in Orders |-> 0]
        /\ source = [l \in Lines |-> [p \in Items |-> 0]]
        /\ received = [l \in Lines |-> 0]
        /\ receipts = << >>
        /\ disabled = {}
        /\ snap = [s \in Sessions |-> NoSnapshot]

-----------------------------------------------------------------------------
(* Sessions *)

StockedWarehouses ==
    {w \in Warehouses : \E m \in Materials : balance[<<w, m>>].quantity # 0}

PostedReceipts == {i \in 1..Len(receipts) : receipts[i].status = "POSTED"}

View == [prStatus |-> prStatus, poStatus |-> poStatus, poVersion |-> poVersion,
         received |-> received, posted |-> PostedReceipts,
         rows |-> Len(ledger), disabled |-> disabled,
         stocked |-> StockedWarehouses]

IsOpen(s) == snap[s] # NoSnapshot

\* get_db and the user query of get_current_user.
Begin(s) == /\ ~IsOpen(s)
            /\ snap' = [snap EXCEPT ![s] = View]
            /\ UNCHANGED <<documents, stockVars>>

\* Every handler ends with db.commit().
Commit(s) == snap' = [snap EXCEPT ![s] = NoSnapshot]

\* A failed check, a lost compare-and-set, a CHECK constraint, a deadlock
\* victim or a crash: the session closes and nothing it wrote remains.
Rollback(s) == /\ IsOpen(s)
               /\ Commit(s)
               /\ UNCHANGED <<documents, stockVars>>

-----------------------------------------------------------------------------
(* Master data *)

\* status = DISABLED or ACTIVE, when the session sees the other one; the
\* flush writes by id alone.
Disable(s, d) ==
    /\ IsOpen(s)
    /\ d \notin snap[s].disabled
    /\ disabled' = disabled \cup {d}
    /\ Commit(s)
    /\ UNCHANGED <<prStatus, converted, poStatus, poVersion, source, received,
                   receipts, stockVars>>

Enable(s, d) ==
    /\ IsOpen(s)
    /\ d \in snap[s].disabled
    /\ disabled' = disabled \ {d}
    /\ Commit(s)
    /\ UNCHANGED <<prStatus, converted, poStatus, poVersion, source, received,
                   receipts, stockVars>>

\* A warehouse is disabled whatever it holds.
Bug_IgnoreStock(s, w) == IsOpen(s)

\* _assert_no_stock: a plain COUNT of the balances that are not zero.
NoStock(s, w) == IsOpen(s) /\ w \notin snap[s].stocked

DisableWarehouse(s, w) == NoStock(s, w) /\ Disable(s, w)
EnableWarehouse(s, w)  == Enable(s, w)
DisableMaterial(s, m)  == Disable(s, m)
EnableMaterial(s, m)   == Enable(s, m)
DisableSupplier(s, v)  == Disable(s, v)
EnableSupplier(s, v)   == Enable(s, v)

-----------------------------------------------------------------------------
(* Requisition to order *)

LinesOf(o) == {l \in Lines : OrderOf[l] = o}

\* ordered_quantity of a line with these sources: create_po insists that the
\* sources add up to it exactly.
Ordered(src) == SumUpTo(src, ItemCount)

\* What the lines of order o take from requisition item p.
Drawn(src, o, p) ==
    SumUpTo([l \in Lines |-> IF OrderOf[l] = o THEN src[l][p] ELSE 0],
            LineCount)

RequisitionsOf(src, o) ==
    {RequisitionOf[p] : p \in {q \in Items : Drawn(src, o, q) > 0}}

FullyConverted(conv, r) ==
    \A p \in Items : RequisitionOf[p] = r => conv[p] >= Requested[p]

\* The header is flipped although items of the requisition are still open.
Bug_FlipAlways(conv, rs) ==
    [r \in Requisitions |-> IF r \in rs /\ prStatus[r] = "APPROVED"
                            THEN "CONVERTED" ELSE prStatus[r]]

\* _flip_pr_to_converted for every requisition of the order.
FlipToConverted(conv, rs) ==
    [r \in Requisitions |->
        IF r \in rs /\ prStatus[r] = "APPROVED" /\ FullyConverted(conv, r)
        THEN "CONVERTED" ELSE prStatus[r]]

\* _flip_pr_back_to_approved for every requisition of the order.
FlipBackToApproved(conv, rs) ==
    [r \in Requisitions |->
        IF r \in rs /\ prStatus[r] = "CONVERTED" /\ ~FullyConverted(conv, r)
        THEN "APPROVED" ELSE prStatus[r]]

\* The conversion is checked against the snapshot instead of with a
\* compare-and-set on the current row.
Bug_ConvertUnchecked(src, o) == TRUE

\* The compare-and-set of create_po on every requisition item it draws from.
ConvertOK(src, o) ==
    \A p \in Items : Drawn(src, o, p) > 0 =>
                        converted[p] + Drawn(src, o, p) <= Requested[p]

CreatePo(s, o, src) ==
    /\ IsOpen(s)
    /\ poStatus[o] = "NONE"
    /\ LinesOf(o) # {}
    /\ SupplierOf[o] \notin snap[s].disabled
    /\ \A l \in LinesOf(o) : /\ MaterialOf[l] \notin snap[s].disabled
                             /\ Ordered(src[l]) > 0
    /\ \A r \in RequisitionsOf(src, o) : snap[s].prStatus[r] = "APPROVED"
    /\ ConvertOK(src, o)
    /\ converted' = [p \in Items |-> converted[p] + Drawn(src, o, p)]
    /\ prStatus' = FlipToConverted(converted', RequisitionsOf(src, o))
    /\ source' = [l \in Lines |-> IF OrderOf[l] = o THEN src[l] ELSE source[l]]
    /\ poStatus' = [poStatus EXCEPT ![o] = "DRAFT"]
    /\ poVersion' = [poVersion EXCEPT ![o] = 1]
    /\ Commit(s)
    /\ UNCHANGED <<received, receipts, disabled, stockVars>>

\* The optimistic lock of confirm_po and cancel_po: the client's version is
\* the one of the snapshot (_assert_version) and must be the current one.
SameVersion(s, o) == poVersion[o] = snap[s].poVersion[o]

ConfirmPo(s, o) ==
    /\ IsOpen(s)
    /\ snap[s].poStatus[o] = "DRAFT"
    /\ \A l \in LinesOf(o) : PriceOf[l] > 0
    /\ SameVersion(s, o)
    /\ poStatus[o] = "DRAFT"
    /\ poStatus' = [poStatus EXCEPT ![o] = "CONFIRMED"]
    /\ poVersion' = [poVersion EXCEPT ![o] = snap[s].poVersion[o] + 1]
    /\ Commit(s)
    /\ UNCHANGED <<prStatus, converted, source, received, receipts, disabled,
                   stockVars>>

\* The roll-back of the converted quantities is done twice.
Bug_UnconvertTwice(o) ==
    [p \in Items |-> converted[p] - 2 * Drawn(source, o, p)]

\* The roll-back of the converted quantities is forgotten.
Bug_KeepConverted(o) == converted

\* The converted quantities without those of order o.
Unconverted(o) == [p \in Items |-> converted[p] - Drawn(source, o, p)]

CancelPo(s, o) ==
    /\ IsOpen(s)
    /\ snap[s].poStatus[o] \in {"DRAFT", "CONFIRMED"}
    /\ \A l \in LinesOf(o) : snap[s].received[l] = 0
    /\ SameVersion(s, o)
    /\ poStatus[o] \in {"DRAFT", "CONFIRMED"}
    /\ \A p \in Items : converted[p] >= Drawn(source, o, p)
    /\ poStatus' = [poStatus EXCEPT ![o] = "CANCELLED"]
    /\ poVersion' = [poVersion EXCEPT ![o] = snap[s].poVersion[o] + 1]
    /\ converted' = Unconverted(o)
    /\ prStatus' = FlipBackToApproved(converted', RequisitionsOf(source, o))
    /\ Commit(s)
    /\ UNCHANGED <<source, received, receipts, disabled, stockVars>>

\* An order that counts: it exists and is not cancelled.
Active(status) == status \notin {"NONE", "CANCELLED"}

\* Orders that are still drafts are overlooked.
Bug_NoConfirmedPo(s, r) ==
    \A o \in Orders : Active(snap[s].poStatus[o]) =>
        \/ snap[s].poStatus[o] = "DRAFT"
        \/ r \notin RequisitionsOf(source, o)

\* The has_active_po query of cancel_pr, a plain SELECT.
NoActivePo(s, r) ==
    \A o \in Orders : Active(snap[s].poStatus[o])
                         => r \notin RequisitionsOf(source, o)

\* purchase_requisition_service.cancel_pr of an approved requisition.
CancelPr(s, r) ==
    /\ IsOpen(s)
    /\ snap[s].prStatus[r] = "APPROVED"
    /\ NoActivePo(s, r)
    /\ prStatus[r] = "APPROVED"
    /\ prStatus' = [prStatus EXCEPT ![r] = "CANCELLED"]
    /\ Commit(s)
    /\ UNCHANGED <<converted, poStatus, poVersion, source, received, receipts,
                   disabled, stockVars>>

-----------------------------------------------------------------------------
(* Receiving *)

\* _RECEIVABLE_STATUSES.
Receivable == {"CONFIRMED", "PARTIALLY_RECEIVED"}

\* Reversing the last goods of an order leaves it PARTIALLY_RECEIVED.
Bug_StatusFromPartial(rcv, o) ==
    IF \A l \in LinesOf(o) : rcv[l] = Ordered(source[l])
    THEN "RECEIVED" ELSE "PARTIALLY_RECEIVED"

\* The status that recompute_po_status derives from received quantities.
StatusFrom(rcv, o) ==
    IF \A l \in LinesOf(o) : rcv[l] = 0 THEN "CONFIRMED"
    ELSE IF \A l \in LinesOf(o) : rcv[l] = Ordered(source[l]) THEN "RECEIVED"
    ELSE "PARTIALLY_RECEIVED"

\* recompute_po_status: derived from the quantities the session sees, and
\* written, by id alone, when it differs from the status the session sees.
RecomputePoStatus(s, o, rcv) ==
    IF StatusFrom(rcv, o) # snap[s].poStatus[o]
    THEN [poStatus EXCEPT ![o] = StatusFrom(rcv, o)]
    ELSE poStatus

LinesIn(quantity) == {l \in Lines : quantity[l] > 0}

\* The ledger rows of receipt number i.
ReceiptBatch(i, w, quantity) ==
    InLineOrder(LineCount, [l \in LinesIn(quantity) |->
        Movement("PURCHASE_IN", <<w, MaterialOf[l]>>, quantity[l], PriceOf[l],
                 LineAmount(quantity[l], PriceOf[l]), i, l, 0)])

\* The received quantity is not written back.
Bug_ReceivedUnchanged(s, delta) == snap[s].received

\* The received quantity is overwritten by the one of the last receipt.
Bug_ReceivedOverwritten(s, delta) ==
    [l \in Lines |-> IF delta[l] > 0 THEN delta[l]
                     ELSE snap[s].received[l] + delta[l]]

\* received_quantity of every line as session s sees it after adding
\* delta: the value it assigns to the ORM object of each line it touches.
SeenReceived(s, delta) == [l \in Lines |-> snap[s].received[l] + delta[l]]

\* The compare-and-set of create_receipt on an order line.
ReceiveOK(l, quantity) == received[l] + quantity <= Ordered(source[l])

\* The CHECK constraint of purchase_order_items on the value the flush of
\* the ORM object writes.
LineCheck(l, value) == value >= 0 /\ value <= Ordered(source[l])

CreateReceipt(s, o, w, quantity) ==
    LET seen == SeenReceived(s, quantity)
        i    == Len(receipts) + 1
    IN  /\ IsOpen(s)
        /\ Len(receipts) < MaxReceipts
        /\ LinesIn(quantity) # {}
        /\ LinesIn(quantity) \subseteq LinesOf(o)
        /\ snap[s].poStatus[o] \in Receivable
        /\ w \notin snap[s].disabled
        /\ \A l \in LinesIn(quantity) : /\ MaterialOf[l] \notin snap[s].disabled
                                        /\ ReceiveOK(l, quantity[l])
                                        /\ LineCheck(l, seen[l])
        /\ receipts' = Append(receipts, [order |-> o, warehouse |-> w,
                                         quantity |-> quantity,
                                         status |-> "POSTED"])
        /\ received' = [l \in Lines |-> IF l \in LinesIn(quantity) THEN seen[l]
                                        ELSE received[l]]
        /\ PostInbound(ReceiptBatch(i, w, quantity))
        /\ poStatus' = RecomputePoStatus(s, o, seen)
        /\ Commit(s)
        /\ UNCHANGED <<prStatus, converted, poVersion, source, disabled>>

\* The ledger row that receipt i wrote for line l.
IsOriginal(j, i, l) == /\ ledger[j].type = "PURCHASE_IN"
                       /\ ledger[j].source = i
                       /\ ledger[j].item = l

OriginalRow(i, l) == CHOOSE j \in 1..Len(ledger) : IsOriginal(j, i, l)

\* The amount is computed again instead of taken from the original row.
Bug_ReversalBatch(i) ==
    InLineOrder(LineCount, [l \in LinesIn(receipts[i].quantity) |->
        Movement("PURCHASE_IN_REVERSAL",
                 <<receipts[i].warehouse, MaterialOf[l]>>,
                 -receipts[i].quantity[l], PriceOf[l],
                 -((receipts[i].quantity[l] * PriceOf[l]) \div Scale),
                 i, l, OriginalRow(i, l))])

\* The reversal rows of receipt i: exact negations of the original rows.
ReversalBatch(i) ==
    InLineOrder(LineCount, [l \in LinesIn(receipts[i].quantity) |->
        Movement("PURCHASE_IN_REVERSAL",
                 <<receipts[i].warehouse, MaterialOf[l]>>,
                 -receipts[i].quantity[l],
                 ledger[OriginalRow(i, l)].unit_cost,
                 -ledger[OriginalRow(i, l)].amount,
                 i, l, OriginalRow(i, l))])

\* The reversal is claimed on the snapshot only.
Bug_ClaimUnchecked(i) == TRUE

\* The compare-and-set POSTED -> REVERSED that claims a reversal.
ClaimOK(i) == receipts[i].status = "POSTED"

ReverseReceipt(s, i) ==
    LET quantity == receipts[i].quantity
        o        == receipts[i].order
        seen     == SeenReceived(s, [l \in Lines |-> -quantity[l]])
    IN  /\ IsOpen(s)
        /\ i \in snap[s].posted
        /\ ClaimOK(i)
        /\ \A l \in LinesIn(quantity) :
              /\ received[l] >= quantity[l]
              /\ LineCheck(l, seen[l])
              /\ \E j \in 1..snap[s].rows : IsOriginal(j, i, l)
              /\ \A j \in 1..snap[s].rows :
                    ledger[j].reversed # OriginalRow(i, l)
        /\ receipts' = [receipts EXCEPT ![i].status = "REVERSED"]
        /\ received' = [l \in Lines |-> IF l \in LinesIn(quantity) THEN seen[l]
                                        ELSE received[l]]
        /\ PostOutbound(ReversalBatch(i))
        /\ poStatus' = RecomputePoStatus(s, o, seen)
        /\ Commit(s)
        /\ UNCHANGED <<prStatus, converted, poVersion, source, disabled>>

-----------------------------------------------------------------------------
(* Stock counts *)

CountTypes == {"ADJUST_IN", "ADJUST_OUT"}

CountRows == {j \in 1..Len(ledger) : ledger[j].type \in CountTypes}

\* What approve_reconciliation does to the stock for a count of key k that
\* found quantity physical: a gain enters at the rate of the count, a loss
\* leaves at the average cost.  The state guard makes the frozen book equal to
\* the locked balance.  Neither the warehouse nor the material need be ACTIVE:
\* that was asked when the count was drafted, and is not asked again.
PostCount(s, k, physical, rate) ==
    LET diff == physical - balance[k].quantity
        cost == balance[k].average_unit_cost
    IN  /\ IsOpen(s)
        /\ Cardinality(CountRows) < MaxCounts
        /\ \/ /\ diff > 0
              /\ PostInbound(<<Movement("ADJUST_IN", k, diff, rate,
                                        LineAmount(diff, rate), 0, 0, 0)>>)
           \/ /\ diff < 0
              /\ PostOutbound(<<Movement("ADJUST_OUT", k, diff, cost,
                                         -LineAmount(-diff, cost), 0, 0, 0)>>)
        /\ Commit(s)
        /\ UNCHANGED documents

-----------------------------------------------------------------------------
(* Requests of the users.  The quantity of a requested line is bounded by  *)
(* MaxQuantity, which exceeds what the checks let through.                 *)

OrderRequests(o) == [LinesOf(o) -> [Items -> 0..MaxQuantity]]

ReceiptRequests(o) ==
    {[l \in Lines |-> IF l \in LinesOf(o) THEN q[l] ELSE 0] :
        q \in [LinesOf(o) -> 0..MaxQuantity]}

Next ==
    \E s \in Sessions :
        \/ Begin(s)
        \/ Rollback(s)
        \/ \E w \in Warehouses \cap Retirable : DisableWarehouse(s, w)
        \/ \E w \in Warehouses \cap Retirable : EnableWarehouse(s, w)
        \/ \E m \in Materials \cap Retirable : DisableMaterial(s, m)
        \/ \E m \in Materials \cap Retirable : EnableMaterial(s, m)
        \/ \E v \in Suppliers \cap Retirable : DisableSupplier(s, v)
        \/ \E v \in Suppliers \cap Retirable : EnableSupplier(s, v)
        \/ \E o \in Orders : \E src \in OrderRequests(o) : CreatePo(s, o, src)
        \/ \E o \in Orders : ConfirmPo(s, o)
        \/ \E o \in Orders : CancelPo(s, o)
        \/ \E r \in Requisitions : CancelPr(s, r)
        \/ \E o \in Orders, w \in Warehouses :
              \E q \in ReceiptRequests(o) : CreateReceipt(s, o, w, q)
        \/ \E i \in 1..Len(receipts) : ReverseReceipt(s, i)
        \/ \E k \in Keys, n \in 0..MaxQuantity, rate \in CountRates :
              PostCount(s, k, n, rate)

Spec == Init /\ [][Next]_vars

-----------------------------------------------------------------------------
(* The quantity chain *)

ReceiptQuantity(l) ==
    SumUpTo([i \in 1..Len(receipts) |->
                IF receipts[i].status = "POSTED" THEN receipts[i].quantity[l]
                ELSE 0], Len(receipts))

ActiveSources(p) ==
    SumUpTo([l \in Lines |-> IF Active(poStatus[OrderOf[l]]) THEN source[l][p]
                             ELSE 0], LineCount)

\* received_quantity of an order line is what the posted receipts of that line
\* add up to, through any sequence of receipts and reversals
\* (docs/quantity_chain.md, section 5).
ReceivedMatchesReceipts ==
    \A l \in Lines : received[l] = ReceiptQuantity(l)

\* No more goods are posted against an order line than were ordered: the
\* compare-and-set of create_receipt, together with its write-back of
\* received_quantity, really bounds the receipts.
NoOverReceipt == \A l \in Lines : ReceiptQuantity(l) <= Ordered(source[l])

\* converted_quantity of a requisition item is what the order lines of active
\* orders draw from it: conversions that race, and cancellations, neither lose
\* nor keep a quantity (create_po, cancel_po).
ConvertedMatchesSources ==
    \A p \in Items : converted[p] = ActiveSources(p)

\* Active orders never draw more from a requisition item than was requested.
NoOverConversion == \A p \in Items : ActiveSources(p) <= Requested[p]

\* A requisition that is not cancelled is CONVERTED exactly when all of its
\* items are: the two flips of the header never miss the last conversion nor
\* the first roll-back, whichever transactions race.
PrStatusDerived ==
    \A r \in Requisitions :
        /\ prStatus[r] = "CONVERTED" => FullyConverted(converted, r)
        /\ prStatus[r] = "APPROVED" => ~FullyConverted(converted, r)

\* From confirmation on, the status of an order is the one derived from the
\* goods posted against it (recompute_po_status).
PoStatusDerived ==
    \A o \in Orders :
        poStatus[o] \in {"CONFIRMED", "PARTIALLY_RECEIVED", "RECEIVED"} =>
            poStatus[o] = StatusFrom([l \in Lines |-> ReceiptQuantity(l)], o)

\* A cancelled order stays cancelled: CANCELLED is terminal (_TRANSITIONS).
CancelledIsTerminal ==
    [][\A o \in Orders : poStatus[o] = "CANCELLED"
                            => poStatus'[o] = "CANCELLED"]_vars

\* No goods are on record against a cancelled order (R14: an order with
\* receipts cannot be cancelled).
CancelledHasNoGoods ==
    \A i \in PostedReceipts : poStatus[receipts[i].order] # "CANCELLED"

\* A cancelled requisition has no active order: cancel_pr refuses a
\* requisition that was converted, create_po one that was cancelled.
CancelledPrHasNoActivePo ==
    \A r \in Requisitions, o \in Orders :
        prStatus[r] = "CANCELLED" /\ Active(poStatus[o])
            => r \notin RequisitionsOf(source, o)

\* A disabled warehouse holds no stock (warehouse_service: "avoids 'stock
\* exists but warehouse unusable'").
DisabledWarehouseIsEmpty == disabled \cap StockedWarehouses = {}

\* No received goods are locked up in a disabled warehouse: since the last
\* receipt into a key of it, the stock of the key has been down to zero, so
\* whatever it holds was found by counts posted later (_assert_no_stock of the
\* warehouse page, and the status check of create_receipt).
NoGoodsLockedUp ==
    \A k \in Keys : k[1] \in disabled =>
        \A j \in 1..Len(ledger) :
            ledger[j].key = k /\ ledger[j].type = "PURCHASE_IN" =>
                \E n \in j..Len(ledger) : QuantityUpTo(ledger, k, n) = 0

-----------------------------------------------------------------------------
(* Receipts and the ledger *)

\* Rounding strands no value on a key that was never counted: when its goods
\* are gone, so is their value, whatever prices they came in at and in whatever
\* order the receipts were reversed (apply_outbound; database-design 5.3).
NoResidue ==
    \A k \in Keys :
        (\A j \in CountRows : ledger[j].key # k) /\ balance[k].quantity = 0
            => balance[k].total_amount = 0

ReversalsOf(j) == {h \in 1..Len(ledger) : ledger[h].reversed = j}

\* Every line of a receipt has one original ledger row, a reversed receipt
\* exactly one reversal row of it that negates quantity and amount under the
\* same key and cost, and a posted receipt none: however many reversals race,
\* a receipt is undone once, and at its own amounts.
ReversedExactlyOnce ==
    \A i \in 1..Len(receipts) : \A l \in LinesIn(receipts[i].quantity) :
        \E j \in 1..Len(ledger) :
            /\ {h \in 1..Len(ledger) : IsOriginal(h, i, l)} = {j}
            /\ receipts[i].status = "POSTED" => ReversalsOf(j) = {}
            /\ receipts[i].status = "REVERSED" =>
                  \E h \in 1..Len(ledger) :
                      /\ ReversalsOf(j) = {h}
                      /\ ledger[h].key = ledger[j].key
                      /\ ledger[h].unit_cost = ledger[j].unit_cost
                      /\ ledger[h].quantity = -ledger[j].quantity
                      /\ ledger[h].amount = -ledger[j].amount

=============================================================================
