------------------------ MODULE StockReconciliation ------------------------
(***************************************************************************)
(* Stock counts (stock_reconciliation_service): a count document freezes   *)
(* the book quantity, value and average cost of every counted material     *)
(* together with the watermark of its ledger, is edited, submitted, and    *)
(* rejected or approved; approval posts the differences to the stock.      *)
(*                                                                         *)
(* Sessions are those of Procurement: a request opens with a REPEATABLE    *)
(* READ snapshot of the documents, the balances and the ledger, and takes  *)
(* effect in one later step that reads the snapshot wherever the code has  *)
(* a plain SELECT or an ORM object, and the current rows wherever it has   *)
(* UPDATE ... WHERE or SELECT ... FOR UPDATE.                              *)
(*                                                                         *)
(* Receipts and reversals happen around the counts.  Here they are only    *)
(* what they do to the stock; Procurement has the rest of them.            *)
(***************************************************************************)
EXTENDS Inventory, LineNumbers, FiniteSets

CONSTANTS
    Sessions,
    NoSnapshot,
    Users,
    Overriders,    \* users with reconcile:self_approve_override
    Retirable,     \* bound: master data a run may disable and enable
    Rates,         \* valuation rates and purchase prices that occur
    MaxQuantity,   \* bound: quantity received or counted
    MaxRows,       \* bound: ledger rows
    MaxCounts,     \* bound: count documents
    MaxVersion     \* bound: version of a document

ASSUME ReconciliationAssumption ==
    /\ Overriders \subseteq Users
    /\ Retirable \subseteq Warehouses \cup Materials
    /\ IsFiniteSet(Materials)
    /\ Rates \subseteq Nat
    /\ MaxQuantity \in Nat

VARIABLES docs,       \* stock_reconciliations with their items, in id order
          disabled,   \* warehouses and materials that are DISABLED
          snap        \* the snapshot of every session

vars == <<docs, disabled, ledger, balance, snap>>

\* The frozen book state of a key.
BookState == [quantity : Nat, total_amount : Nat, average_unit_cost : Nat,
              watermark : Nat]

\* A line of a count document, in the order of line_no; rate 0 stands for NULL.
Item == [id : Nat, material : Materials, book : BookState, physical : Nat, difference : Int,
         rate : Nat, amount : Int]

Doc == [warehouse : Warehouses, counted_by : Users,
        status : {"DRAFT", "PENDING", "POSTED", "REJECTED"},
        version : Nat, items : Seq(Item)]

Snapshot == [docs : Seq(Doc), balance : [Keys -> Balance], rows : Nat,
             disabled : SUBSET (Warehouses \cup Materials)]

TypeOK == /\ StockTypeOK
          /\ docs \in Seq(Doc)
          /\ disabled \in SUBSET (Warehouses \cup Materials)
          /\ snap \in [Sessions -> Snapshot \cup {NoSnapshot}]

Init == /\ StockInit
        /\ docs = << >>
        /\ disabled = {}
        /\ snap = [s \in Sessions |-> NoSnapshot]

-----------------------------------------------------------------------------
(* Sessions *)

View == [docs |-> docs, balance |-> balance, rows |-> Len(ledger),
         disabled |-> disabled]

IsOpen(s) == snap[s] # NoSnapshot

Begin(s) == /\ ~IsOpen(s)
            /\ snap' = [snap EXCEPT ![s] = View]
            /\ UNCHANGED <<docs, disabled, stockVars>>

Commit(s) == snap' = [snap EXCEPT ![s] = NoSnapshot]

Rollback(s) == /\ IsOpen(s)
               /\ Commit(s)
               /\ UNCHANGED <<docs, disabled, stockVars>>

-----------------------------------------------------------------------------
(* What happens around the counts *)

\* The warehouse and material pages; whether a warehouse may be disabled is
\* Procurement's concern.
ToggleMasterData(s, d) ==
    /\ IsOpen(s)
    /\ disabled' = IF d \in snap[s].disabled THEN disabled \ {d}
                   ELSE disabled \cup {d}
    /\ Commit(s)
    /\ UNCHANGED <<docs, stockVars>>

\* create_receipt of one line.
ReceiveGoods(s, k, quantity, price) ==
    /\ IsOpen(s)
    /\ Len(ledger) < MaxRows
    /\ {k[1], k[2]} \cap snap[s].disabled = {}
    /\ PostInbound(<<Movement("PURCHASE_IN", k, quantity, price,
                              LineAmount(quantity, price), 0, 0, 0)>>)
    /\ Commit(s)
    /\ UNCHANGED <<docs, disabled>>

\* reverse_receipt of the receipt that wrote row j.
ReverseGoods(s, j) ==
    /\ IsOpen(s)
    /\ Len(ledger) < MaxRows
    /\ j <= snap[s].rows
    /\ ledger[j].type = "PURCHASE_IN"
    /\ \A h \in 1..Len(ledger) : ledger[h].reversed # j
    /\ PostOutbound(<<Movement("PURCHASE_IN_REVERSAL", ledger[j].key,
                               -ledger[j].quantity, ledger[j].unit_cost,
                               -ledger[j].amount, 0, 0, j)>>)
    /\ Commit(s)
    /\ UNCHANGED <<docs, disabled>>

-----------------------------------------------------------------------------
(* Lines of a count *)

\* The latest of the first n ledger rows that belongs to key k, 0 for none.
Watermark(k, n) ==
    LET ids == {j \in 1..n : ledger[j].key = k}
    IN  IF ids = {} THEN 0 ELSE CHOOSE j \in ids : \A h \in ids : h <= j

\* _snapshot: what session s sees of key k.
BookOf(s, k) ==
    [quantity          |-> snap[s].balance[k].quantity,
     total_amount      |-> snap[s].balance[k].total_amount,
     average_unit_cost |-> snap[s].balance[k].average_unit_cost,
     watermark         |-> Watermark(k, snap[s].rows)]

\* _amount_for: gains are valued at the rate of the request, losses at the
\* frozen average cost.
AmountFor(diff, rate, average) ==
    IF diff > 0 THEN LineAmount(diff, rate) ELSE -LineAmount(-diff, average)

ItemFor(id, line, book) ==
    LET diff == line.physical - book.quantity
    IN  [id         |-> id,
         material   |-> line.material,
         book       |-> book,
         physical   |-> line.physical,
         difference |-> diff,
         rate       |-> IF diff > 0 THEN line.rate ELSE 0,
         amount     |-> AmountFor(diff, line.rate, book.average_unit_cost)]

\* A gain needs a positive rate.
RateOK(line, book) == line.physical > book.quantity => line.rate > 0

DistinctMaterials(lines) ==
    \A i, j \in 1..Len(lines) : lines[i].material = lines[j].material => i = j

-----------------------------------------------------------------------------
(* Create, edit, submit *)

CreateReconciliation(s, u, w, lines) ==
    LET book(i) == BookOf(s, <<w, lines[i].material>>)
    IN  /\ IsOpen(s)
        /\ Len(docs) < MaxCounts
        /\ w \notin snap[s].disabled
        /\ lines # << >>
        /\ DistinctMaterials(lines)
        /\ \A i \in 1..Len(lines) :
              /\ lines[i].material \notin snap[s].disabled
              /\ RateOK(lines[i], book(i))
        /\ docs' = Append(docs,
              [warehouse |-> w, counted_by |-> u, status |-> "DRAFT",
               version |-> 1,
               items |-> [i \in 1..Len(lines) |->
                            ItemFor(i, lines[i], book(i))]])
        /\ Commit(s)
        /\ UNCHANGED <<disabled, stockVars>>

\* Session s sees document d, in one of the given states.
Sees(s, d, states) == /\ IsOpen(s)
                      /\ d \in 1..Len(snap[s].docs)
                      /\ snap[s].docs[d].status \in states

\* The places of material m among the lines of a document.
PlacesOf(items, m) == {i \in 1..Len(items) : items[i].material = m}

\* The difference of a kept line is not computed again.
Bug_EditedItem(s, d, i, line) ==
    LET doc    == snap[s].docs[d]
        places == PlacesOf(doc.items, line.material)
        old    == doc.items[CHOOSE p \in places : TRUE]
    IN  IF places = {}
        THEN ItemFor(FreshId(doc.items, i), line,
                     BookOf(s, <<doc.warehouse, line.material>>))
        ELSE [old EXCEPT !.physical = line.physical]

\* The item that an edit of document d makes of its line i: the row of the
\* material keeps its key and its frozen book, a new material gets both anew.
EditedItem(s, d, i, line) ==
    LET doc    == snap[s].docs[d]
        places == PlacesOf(doc.items, line.material)
        old    == doc.items[CHOOSE p \in places : TRUE]
    IN  IF places = {}
        THEN ItemFor(FreshId(doc.items, i), line,
                     BookOf(s, <<doc.warehouse, line.material>>))
        ELSE ItemFor(old.id, line, old.book)

\* The optimistic lock of the edit ignores the version.
Bug_EditOK(s, d) == docs[d].status \in {"DRAFT", "REJECTED"}

\* The compare-and-set of update_reconciliation on version and status.
EditOK(s, d) == /\ docs[d].version = snap[s].docs[d].version
                /\ docs[d].status \in {"DRAFT", "REJECTED"}

UpdateReconciliation(s, d, lines) ==
    LET doc   == snap[s].docs[d]
        items == [i \in 1..Len(lines) |-> EditedItem(s, d, i, lines[i])]
    IN  /\ Sees(s, d, {"DRAFT", "REJECTED"})
        /\ doc.version < MaxVersion
        /\ doc.warehouse \notin snap[s].disabled
        /\ lines # << >>
        /\ DistinctMaterials(lines)
        /\ \A i \in 1..Len(lines) :
              /\ \/ PlacesOf(doc.items, lines[i].material) # {}
                 \/ lines[i].material \notin snap[s].disabled
              /\ RateOK(lines[i], items[i].book)
        /\ EditOK(s, d)
        /\ LinesFit(doc.items, items)
        /\ docs' = [docs EXCEPT
              ![d].status = "DRAFT",
              ![d].version = doc.version + 1,
              ![d].items = items]
        /\ Commit(s)
        /\ UNCHANGED <<disabled, stockVars>>

\* The compare-and-set of submit_reconciliation, on the status alone.
SubmitOK(d) == docs[d].status = "DRAFT"

SubmitReconciliation(s, d) ==
    /\ Sees(s, d, {"DRAFT"})
    /\ docs[d].version < MaxVersion
    /\ SubmitOK(d)
    /\ docs' = [docs EXCEPT ![d].status = "PENDING", ![d].version = @ + 1]
    /\ Commit(s)
    /\ UNCHANGED <<disabled, stockVars>>

-----------------------------------------------------------------------------
(* Approve (which posts) and reject *)

\* The claim is decided on the snapshot.
Bug_ClaimOK(d) == TRUE

\* The compare-and-set PENDING -> POSTED, or PENDING -> REJECTED.
ClaimOK(d) == docs[d].status = "PENDING"

\* Nobody looks at the ledger.
Bug_EventGuard(s, k, item) == IsOpen(s)

\* The ledger event guard: no movement since the line was counted, by the
\* ledger that the session sees.
EventGuard(s, k, item) == Watermark(k, snap[s].rows) = item.book.watermark

\* The balance state guard, on the locked balance row.
StateGuard(k, item) == /\ balance[k].quantity = item.book.quantity
                       /\ balance[k].total_amount = item.book.total_amount

\* Only the lines with a gain are posted.
Bug_CountBatch(d, w, items) ==
    InLineOrder(Len(items),
        [i \in {j \in 1..Len(items) : items[j].difference > 0} |->
            Movement("ADJUST_IN", <<w, items[i].material>>, items[i].difference,
                     items[i].rate, items[i].amount, d, items[i].id, 0)])

\* The ledger rows of document d of warehouse w with these lines: one per line
\* that differs.
CountBatch(d, w, items) ==
    InLineOrder(Len(items),
        [i \in {j \in 1..Len(items) : items[j].difference # 0} |->
            Movement(IF items[i].difference > 0 THEN "ADJUST_IN" ELSE "ADJUST_OUT",
                     <<w, items[i].material>>, items[i].difference,
                     IF items[i].difference > 0 THEN items[i].rate
                     ELSE items[i].book.average_unit_cost,
                     items[i].amount, d, items[i].id, 0)])

\* The loop of approve_reconciliation over the lines that differ.  No key
\* occurs twice (uk_rc_mat), so every balance is touched at most once.
PostAdjustments(batch) ==
    /\ \A i \in 1..Len(batch) : SignsOK(batch[i])
    /\ \A k \in KeysOf(batch) :
          LET quantity == QuantityOf(batch, k)
              amount   == AmountOf(batch, k)
          IN  IF quantity > 0 THEN InboundOK(balance[k], quantity, amount)
              ELSE OutboundOK(balance[k], -quantity, -amount)
    /\ ledger' = ledger \o Rows(batch)
    /\ balance' = [k \in Keys |->
          LET quantity == QuantityOf(batch, k)
              amount   == AmountOf(batch, k)
          IN  IF k \notin KeysOf(batch) THEN balance[k]
              ELSE IF quantity > 0 THEN ApplyInbound(balance[k], quantity, amount)
              ELSE ApplyOutbound(balance[k], -quantity, -amount)]

ApproveReconciliation(s, u, d) ==
    LET doc   == snap[s].docs[d]
        batch == CountBatch(d, doc.warehouse, doc.items)
    IN  /\ Sees(s, d, {"PENDING"})
        /\ u = doc.counted_by => u \in Overriders
        /\ \A i \in 1..Len(doc.items) :
              doc.items[i].difference > 0 => doc.items[i].rate > 0
        /\ ClaimOK(d)
        /\ \A i \in 1..Len(doc.items) :
              LET k == <<doc.warehouse, doc.items[i].material>>
              IN  doc.items[i].difference # 0 => /\ EventGuard(s, k, doc.items[i])
                                                 /\ StateGuard(k, doc.items[i])
        /\ Len(ledger) + Len(batch) <= MaxRows
        /\ PostAdjustments(batch)
        /\ docs' = [docs EXCEPT ![d].status = "POSTED", ![d].version = @ + 1]
        /\ Commit(s)
        /\ UNCHANGED disabled

RejectReconciliation(s, d) ==
    /\ Sees(s, d, {"PENDING"})
    /\ ClaimOK(d)
    /\ docs[d].version < MaxVersion
    /\ docs' = [docs EXCEPT ![d].status = "REJECTED", ![d].version = @ + 1]
    /\ Commit(s)
    /\ UNCHANGED <<disabled, stockVars>>

-----------------------------------------------------------------------------

Line == [material : Materials, physical : 0..MaxQuantity, rate : Rates \cup {0}]

\* Requests name every material at most once, so they have at most as many lines as
\* there are materials.
CountRequests == UNION {[1..n -> Line] : n \in 1..Cardinality(Materials)}

Next ==
    \E s \in Sessions :
        \/ Begin(s)
        \/ Rollback(s)
        \/ \E d \in Retirable : ToggleMasterData(s, d)
        \/ \E k \in Keys, q \in 1..MaxQuantity, p \in Rates :
              ReceiveGoods(s, k, q, p)
        \/ \E j \in 1..Len(ledger) : ReverseGoods(s, j)
        \/ \E u \in Users, w \in Warehouses, lines \in CountRequests :
              CreateReconciliation(s, u, w, lines)
        \/ \E d \in 1..Len(docs), lines \in CountRequests :
              UpdateReconciliation(s, d, lines)
        \/ \E d \in 1..Len(docs) : SubmitReconciliation(s, d)
        \/ \E u \in Users, d \in 1..Len(docs) : ApproveReconciliation(s, u, d)
        \/ \E d \in 1..Len(docs) : RejectReconciliation(s, d)

Spec == Init /\ [][Next]_vars

-----------------------------------------------------------------------------
(* Properties *)

IsCountRow(j) == ledger[j].type \in {"ADJUST_IN", "ADJUST_OUT"}

\* The rows that document d wrote for its line i.
RowsOf(d, i) == {j \in 1..Len(ledger) : /\ IsCountRow(j)
                                        /\ ledger[j].source = d
                                        /\ ledger[j].item = docs[d].items[i].id}

\* A count moves stock once: however many approvals race, a document has at
\* most one ledger row per key, and only when it is posted (claim of
\* approve_reconciliation).
PostedOnce ==
    \A j \in 1..Len(ledger) : IsCountRow(j) =>
        /\ docs[ledger[j].source].status = "POSTED"
        /\ \A h \in 1..Len(ledger) :
              /\ IsCountRow(h)
              /\ ledger[h].source = ledger[j].source
              /\ ledger[h].key = ledger[j].key
              => h = j

\* What a posted document says is what moved: each line that differs has
\* exactly one ledger row, of its material, difference and amount.
PostedAsRecorded ==
    \A d \in 1..Len(docs) : docs[d].status = "POSTED" =>
        \A i \in 1..Len(docs[d].items) :
            LET item == docs[d].items[i]
            IN  IF item.difference = 0 THEN RowsOf(d, i) = {}
                ELSE \E j \in RowsOf(d, i) :
                        /\ RowsOf(d, i) = {j}
                        /\ ledger[j].key = <<docs[d].warehouse, item.material>>
                        /\ ledger[j].quantity = item.difference
                        /\ ledger[j].amount = item.amount

\* A posted count brought the stock of each line that differed to the counted
\* quantity, through any edits, rejections and movements in between.
CountReached ==
    \A d \in 1..Len(docs) : docs[d].status = "POSTED" =>
        \A i \in 1..Len(docs[d].items) : \A j \in RowsOf(d, i) :
            ledger[j].balance_after = docs[d].items[i].physical

\* No stock of the counted key moved between the count and its posting, not
\* even there and back: the last earlier row of the key is the watermark.
NoMovementInWindow ==
    \A d \in 1..Len(docs) : docs[d].status = "POSTED" =>
        \A i \in 1..Len(docs[d].items) : \A j \in RowsOf(d, i) :
            docs[d].items[i].book.watermark
               = Watermark(<<docs[d].warehouse, docs[d].items[i].material>>, j - 1)

\* An edit never overwrites another one, or a decision, that its session did
\* not see: the lines of a document change only from the state the editor
\* loaded (the compare-and-set of update_reconciliation).
NoLostEdit ==
    [][\A d \in 1..Len(docs) :
          docs'[d].items # docs[d].items =>
              \E s \in Sessions :
                  /\ IsOpen(s) /\ snap'[s] = NoSnapshot
                  /\ d \in 1..Len(snap[s].docs)
                  /\ snap[s].docs[d] = docs[d]]_vars

\* A document is submitted, or sent back, or posted only by a session that saw
\* its current version.
DecidedAsSeen ==
    [][\A d \in 1..Len(docs) :
          docs'[d].status # docs[d].status =>
              \E s \in Sessions :
                  /\ IsOpen(s) /\ snap'[s] = NoSnapshot
                  /\ d \in 1..Len(snap[s].docs)
                  /\ snap[s].docs[d] = docs[d]]_vars

\* Any line of a draft can be dropped by an edit that keeps the others.
LinesCanBeDropped ==
    \A d \in 1..Len(docs) : docs[d].status = "DRAFT" =>
        \A i \in 1..Len(docs[d].items) :
            LinesFit(docs[d].items, Dropped(docs[d].items, i))

=============================================================================
