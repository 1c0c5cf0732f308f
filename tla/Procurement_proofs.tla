------------------------- MODULE Procurement_proofs -------------------------
(***************************************************************************)
(* The purchasing chain, for every number of sessions, requisitions,       *)
(* orders, lines, warehouses and materials, and every scale, price and     *)
(* quantity.  Under every interleaving: types, the consistency of the      *)
(* stock, the stock of a key as what the posted receipts and counts        *)
(* brought into it, and the figures and scopes of the dashboard.  When     *)
(* requests do not overlap: received quantities and order status follow    *)
(* from the receipts, cancelled orders and requisitions are left alone, no *)
(* received goods are locked up in a disabled warehouse and the todo lists *)
(* are the open work.  As long as a cancelled order stays cancelled,       *)
(* whatever overlaps: converted quantities and the status of requisitions  *)
(* follow from the active orders.                                          *)
(***************************************************************************)
EXTENDS Dashboard, Inventory_proofs, FiniteSetTheorems

-----------------------------------------------------------------------------
(* The inductive invariant *)

DocsOK == /\ prStatus \in [Requisitions -> PrStatus]
          /\ converted \in [Items -> Nat]
          /\ poStatus \in [Orders -> PoStatus]
          /\ poVersion \in [Orders -> Nat]
          /\ source \in [Lines -> [Items -> Nat]]
          /\ received \in [Lines -> Nat]
          /\ receipts \in Seq(Receipt)
          /\ disabled \in SUBSET MasterData

\* A snapshot shows no ledger row that does not exist yet: what makes the
\* original row that reverse_receipt looks up a row of the current ledger.
SnapOK == /\ snap \in [Sessions -> Snapshot \cup {NoSnapshot}]
          /\ \A s \in Sessions : IsOpen(s) => snap[s].rows <= Len(ledger)

IInv == DocsOK /\ SnapOK /\ StockInv

\* What the abstract stock book allows in a step.
BookStep == [Book!Post]_(Book!bookVars)

LEMMA IInvParts == IInv => TypeOK /\ BalanceIsLedgerSum /\ RunningBalance
  BY DEF IInv, DocsOK, SnapOK, StockInv, TypeOK

\* What an open session sees.
LEMMA SeenType ==
  ASSUME SnapOK, NEW s \in Sessions, IsOpen(s)
  PROVE  /\ snap[s] \in Snapshot
         /\ snap[s].prStatus \in [Requisitions -> PrStatus]
         /\ snap[s].poStatus \in [Orders -> PoStatus]
         /\ snap[s].poVersion \in [Orders -> Nat]
         /\ snap[s].received \in [Lines -> Nat]
         /\ snap[s].rows \in Nat /\ snap[s].rows <= Len(ledger)
<1>1. snap[s] \in Snapshot
  BY DEF SnapOK, IsOpen
<1>2. \A v \in Snapshot : /\ v.prStatus \in [Requisitions -> PrStatus]
                          /\ v.poStatus \in [Orders -> PoStatus]
                          /\ v.poVersion \in [Orders -> Nat]
                          /\ v.received \in [Lines -> Nat]
                          /\ v.rows \in Nat
  BY DEF Snapshot
<1> QED
  BY <1>1, <1>2 DEF SnapOK

\* Closing a session.
LEMMA CommitKeeps ==
  ASSUME SnapOK, StockTypeOK, StockTypeOK', NEW s \in Sessions, Commit(s),
         Len(ledger') >= Len(ledger)
  PROVE  SnapOK'
<1>1. snap' \in [Sessions -> Snapshot \cup {NoSnapshot}]
  BY DEF SnapOK, Commit
<1>2. ASSUME NEW t \in Sessions, snap'[t] # NoSnapshot
      PROVE  snap'[t].rows <= Len(ledger')
  <2>1. snap'[t] = snap[t] /\ IsOpen(t)
    BY <1>2 DEF Commit, SnapOK, IsOpen
  <2>2. snap[t].rows \in Nat /\ snap[t].rows <= Len(ledger)
    BY <2>1, SeenType
  <2>3. Len(ledger) \in Nat /\ Len(ledger') \in Nat
    BY DEF StockTypeOK
  <2> QED
    BY <2>1, <2>2, <2>3
<1> QED
  BY <1>1, <1>2 DEF SnapOK, IsOpen

\* A step that leaves the stock alone.
LEMMA StockUnchanged ==
  ASSUME StockInv, UNCHANGED stockVars
  PROVE  /\ StockInv' /\ StockTypeOK' /\ Len(ledger') >= Len(ledger)
         /\ BookStep
<1>1. StockInv'
  BY DEF StockInv, StockTypeOK, BalanceIsLedgerSum, RunningBalance, stockVars
<1>2. Len(ledger) \in Nat /\ ledger' = ledger
  BY DEF StockInv, StockTypeOK, stockVars
<1>3. BookStep
  BY DEF BookStep, Book!bookVars, stockVars
<1> QED
  BY <1>1, <1>2, <1>3 DEF StockInv

\* A handler that leaves the stock alone keeps the invariant if it keeps the
\* types of the documents.
LEMMA DocumentStep ==
  ASSUME IInv, NEW s \in Sessions, Commit(s), UNCHANGED stockVars, DocsOK'
  PROVE  IInv' /\ BookStep
<1>1. StockInv' /\ StockTypeOK' /\ Len(ledger') >= Len(ledger) /\ BookStep
  BY StockUnchanged DEF IInv
<1>2. SnapOK'
  BY <1>1, CommitKeeps DEF IInv, StockInv
<1> QED
  BY <1>1, <1>2 DEF IInv

\* A handler that posts a batch likewise.
LEMMA StockStep ==
  ASSUME IInv, NEW s \in Sessions, Commit(s), NEW b \in Seq(Row), Posted(b),
         DocsOK'
  PROVE  IInv' /\ BookStep
<1>1. StockInv' /\ BookStep
  BY PostedKeepsStock, PostedIsBooked DEF IInv, BookStep
<1>2. Rows(b) \in Seq(Row)
  BY RowsOfBatch DEF IInv, StockInv
<1>3. ledger \in Seq(Row) /\ ledger' = ledger \o Rows(b)
  BY DEF IInv, StockInv, StockTypeOK, Posted
<1>4. Len(ledger') >= Len(ledger)
  BY <1>2, <1>3
<1>5. SnapOK'
  BY <1>1, <1>4, CommitKeeps DEF IInv, StockInv
<1> QED
  BY <1>1, <1>5 DEF IInv

-----------------------------------------------------------------------------
(* The operations *)

LEMMA BeginKeeps ==
  ASSUME IInv, NEW s \in Sessions, Begin(s)
  PROVE  IInv' /\ BookStep
<1>1. DocsOK' /\ StockInv' /\ BookStep
  <2>1. DocsOK'
    BY DEF IInv, DocsOK, Begin, documents
  <2>2. StockInv' /\ BookStep
    BY StockUnchanged DEF IInv, Begin
  <2> QED
    BY <2>1, <2>2
<1>2. View \in Snapshot
  <2>1. PostedReceipts \in SUBSET Nat /\ Len(ledger) \in Nat
    BY DEF IInv, StockInv, StockTypeOK, PostedReceipts
  <2>2. StockedWarehouses \in SUBSET Warehouses
    BY DEF StockedWarehouses
  <2> QED
    BY <2>1, <2>2 DEF View, Snapshot, IInv, DocsOK
<1>3. View.rows = Len(ledger)
  BY DEF View
<1>4. Len(ledger) \in Nat /\ ledger' = ledger
  BY DEF IInv, StockInv, StockTypeOK, Begin, stockVars
<1>5. snap' = [snap EXCEPT ![s] = View]
  BY DEF Begin
<1> HIDE DEF View
<1>6. SnapOK'
  <2>1. snap' \in [Sessions -> Snapshot \cup {NoSnapshot}]
    BY <1>2, <1>5 DEF IInv, SnapOK
  <2>2. ASSUME NEW t \in Sessions, snap'[t] # NoSnapshot
        PROVE  snap'[t].rows <= Len(ledger')
    <3>1. CASE t = s
      BY <1>3, <1>4, <1>5, <3>1 DEF IInv, SnapOK
    <3>2. CASE t # s
      BY <1>4, <1>5, <2>2, <3>2 DEF IInv, SnapOK, IsOpen
    <3> QED
      BY <3>1, <3>2
  <2> QED
    BY <2>1, <2>2 DEF SnapOK, IsOpen
<1> QED
  BY <1>1, <1>6 DEF IInv

LEMMA RollbackKeeps ==
  ASSUME IInv, NEW s \in Sessions, Rollback(s)
  PROVE  IInv' /\ BookStep
<1>1. DocsOK'
  BY DEF IInv, DocsOK, Rollback, documents
<1> QED
  BY <1>1, DocumentStep DEF Rollback

LEMMA MasterDataKeeps ==
  ASSUME IInv, NEW s \in Sessions, NEW d \in MasterData,
         Disable(s, d) \/ Enable(s, d)
  PROVE  IInv' /\ BookStep
<1>1. DocsOK'
  BY DEF IInv, DocsOK, Disable, Enable
<1>2. Commit(s) /\ UNCHANGED stockVars
  BY DEF Disable, Enable
<1> QED
  BY <1>1, <1>2, DocumentStep

\* What an order draws from a requisition item is a natural.
LEMMA DrawnType ==
  ASSUME NEW D, NEW src \in [D -> [Items -> Nat]], NEW o \in Orders,
         LinesOf(o) \subseteq D, NEW p \in Items
  PROVE  Drawn(src, o, p) \in Nat
<1> DEFINE f == [l \in Lines |-> IF OrderOf[l] = o THEN src[l][p] ELSE 0]
<1>1. LineCount \in Nat /\ Lines = 1..LineCount
  BY ProcurementAssumption DEF Lines
<1>2. ASSUME NEW l \in Lines PROVE f[l] \in Nat
  <2>1. CASE OrderOf[l] = o
    <3>1. l \in D
      BY <2>1 DEF LinesOf
    <3> QED
      BY <2>1, <3>1
  <2>2. CASE OrderOf[l] # o
    BY <2>2
  <2> QED
    BY <2>1, <2>2
<1>3. Drawn(src, o, p) = SumUpTo(f, LineCount)
  BY DEF Drawn
<1> HIDE DEF f
<1>4. IntTerms(f, LineCount) /\ \A l \in 1..LineCount : f[l] >= 0
  BY <1>1, <1>2 DEF IntTerms
<1>5. SumUpTo(f, LineCount) \in Int
  BY <1>1, <1>4, SumType
<1>6. SumUpTo(f, LineCount) >= 0
  BY <1>1, <1>4, SumSign
<1> QED
  BY <1>3, <1>5, <1>6

\* The two flips of a requisition header.
LEMMA FlipType ==
  ASSUME prStatus \in [Requisitions -> PrStatus], NEW conv, NEW rs
  PROVE  /\ FlipToConverted(conv, rs) \in [Requisitions -> PrStatus]
         /\ FlipBackToApproved(conv, rs) \in [Requisitions -> PrStatus]
  BY DEF FlipToConverted, FlipBackToApproved, PrStatus

LEMMA CreatePoKeeps ==
  ASSUME IInv, NEW s \in Sessions, NEW o \in Orders,
         NEW src \in OrderRequests(o), CreatePo(s, o, src)
  PROVE  IInv' /\ BookStep
<1>1. src \in [LinesOf(o) -> [Items -> Nat]]
  <2>1. 0..MaxQuantity \subseteq Nat
    OBVIOUS
  <2>2. [Items -> 0..MaxQuantity] \subseteq [Items -> Nat]
    BY <2>1
  <2> QED
    BY <2>2 DEF OrderRequests
<1>2. \A p \in Items : Drawn(src, o, p) \in Nat
  BY <1>1, DrawnType
<1>3. converted' \in [Items -> Nat]
  BY <1>2 DEF CreatePo, IInv, DocsOK
<1>4. prStatus' \in [Requisitions -> PrStatus]
  BY FlipType DEF CreatePo, IInv, DocsOK
<1>5. source' \in [Lines -> [Items -> Nat]]
  BY <1>1 DEF CreatePo, IInv, DocsOK, LinesOf
<1>6. poStatus' \in [Orders -> PoStatus] /\ poVersion' \in [Orders -> Nat]
  BY DEF CreatePo, IInv, DocsOK, PoStatus
<1>7. DocsOK'
  BY <1>3, <1>4, <1>5, <1>6 DEF CreatePo, IInv, DocsOK
<1>8. Commit(s) /\ UNCHANGED stockVars
  BY DEF CreatePo
<1> QED
  BY <1>7, <1>8, DocumentStep

LEMMA ConfirmPoKeeps ==
  ASSUME IInv, NEW s \in Sessions, NEW o \in Orders, ConfirmPo(s, o)
  PROVE  IInv' /\ BookStep
<1>1. snap[s].poVersion[o] \in Nat
  BY SeenType DEF IInv, ConfirmPo
<1>2. DocsOK'
  BY <1>1 DEF IInv, DocsOK, ConfirmPo, PoStatus
<1>3. Commit(s) /\ UNCHANGED stockVars
  BY DEF ConfirmPo
<1> QED
  BY <1>2, <1>3, DocumentStep

LEMMA CancelPoKeeps ==
  ASSUME IInv, NEW s \in Sessions, NEW o \in Orders, CancelPo(s, o)
  PROVE  IInv' /\ BookStep
<1>1. snap[s].poVersion[o] \in Nat
  BY SeenType DEF IInv, CancelPo
<1>2. source \in [Lines -> [Items -> Nat]] /\ LinesOf(o) \subseteq Lines
  BY DEF IInv, DocsOK, LinesOf
<1>3. \A p \in Items : Drawn(source, o, p) \in Nat
  BY <1>2, DrawnType
<1>4. converted' \in [Items -> Nat]
  <2>1. ASSUME NEW p \in Items PROVE converted[p] - Drawn(source, o, p) \in Nat
    BY <1>3 DEF IInv, DocsOK, CancelPo
  <2> QED
    BY <2>1 DEF CancelPo, Unconverted
<1>5. prStatus' \in [Requisitions -> PrStatus]
  BY FlipType DEF CancelPo, IInv, DocsOK
<1>6. poStatus' \in [Orders -> PoStatus] /\ poVersion' \in [Orders -> Nat]
  BY <1>1 DEF CancelPo, IInv, DocsOK, PoStatus
<1>7. DocsOK'
  BY <1>4, <1>5, <1>6 DEF IInv, DocsOK, CancelPo
<1>8. Commit(s) /\ UNCHANGED stockVars
  BY DEF CancelPo
<1> QED
  BY <1>7, <1>8, DocumentStep

LEMMA CancelPrKeeps ==
  ASSUME IInv, NEW s \in Sessions, NEW r \in Requisitions, CancelPr(s, r)
  PROVE  IInv' /\ BookStep
<1>1. DocsOK'
  BY DEF IInv, DocsOK, CancelPr, PrStatus
<1>2. Commit(s) /\ UNCHANGED stockVars
  BY DEF CancelPr
<1> QED
  BY <1>1, <1>2, DocumentStep

\* The status derived for an order.
LEMMA RecomputeType ==
  ASSUME poStatus \in [Orders -> PoStatus], NEW s, NEW o \in Orders, NEW rcv
  PROVE  RecomputePoStatus(s, o, rcv) \in [Orders -> PoStatus]
<1>1. StatusFrom(rcv, o) \in PoStatus
  BY DEF StatusFrom, PoStatus
<1> QED
  BY <1>1 DEF RecomputePoStatus

\* The received quantities a receipt or a reversal writes pass the CHECK
\* constraint, so they are naturals.
LEMMA ReceivedType ==
  ASSUME IInv, NEW s \in Sessions, IsOpen(s), NEW delta \in [Lines -> Int],
         NEW L, \A l \in L : LineCheck(l, SeenReceived(s, delta)[l])
  PROVE  [l \in Lines |-> IF l \in L THEN SeenReceived(s, delta)[l]
                          ELSE received[l]] \in [Lines -> Nat]
<1>1. snap[s].received \in [Lines -> Nat] /\ received \in [Lines -> Nat]
  BY SeenType DEF IInv, DocsOK
<1>2. \A l \in Lines : SeenReceived(s, delta)[l] \in Int
  BY <1>1 DEF SeenReceived
<1>3. \A l \in Lines : l \in L => SeenReceived(s, delta)[l] \in Nat
  BY <1>2 DEF LineCheck
<1> QED
  BY <1>1, <1>3

\* The movements of a receipt, by line.
ReceiptMoves(i, w, q) ==
    [l \in LinesIn(q) |-> Movement("PURCHASE_IN", <<w, MaterialOf[l]>>, q[l],
        PriceOf[l], LineAmount(q[l], PriceOf[l]), i, l, 0)]

LEMMA ReceiptMovesType ==
  ASSUME NEW i \in Nat, NEW w \in Warehouses, NEW q \in [Lines -> Nat]
  PROVE  /\ ReceiptMoves(i, w, q)
               \in [LinesIn(q) -> {r \in Row : r.type \in InboundTypes}]
         /\ ReceiptBatch(i, w, q) = InLineOrder(LineCount, ReceiptMoves(i, w, q))
         /\ LineCount \in Nat /\ LinesIn(q) \subseteq 1..LineCount
         /\ \A l \in LinesIn(q) : ReceiptMoves(i, w, q)[l].item = l
<1> DEFINE L == LinesIn(q)
           T == {r \in Row : r.type \in InboundTypes}
           mv(l) == Movement("PURCHASE_IN", <<w, MaterialOf[l]>>, q[l],
                             PriceOf[l], LineAmount(q[l], PriceOf[l]), i, l, 0)
<1>1. ASSUME NEW l \in L PROVE mv(l) \in T /\ mv(l).item = l
  <2>1. l \in Lines /\ l \in Nat /\ q[l] \in Nat
    BY ProcurementAssumption DEF LinesIn, Lines
  <2>2. MaterialOf[l] \in Materials /\ PriceOf[l] \in Nat
    BY <2>1, ProcurementAssumption
  <2>3. LineAmount(q[l], PriceOf[l]) \in Nat
    BY <2>1, <2>2, CostType
  <2>4. <<w, MaterialOf[l]>> \in Keys
    BY <2>2 DEF Keys
  <2>5. mv(l) \in Row
    BY <2>1, <2>2, <2>3, <2>4 DEF Movement, Row, InboundTypes
  <2>6. mv(l).type = "PURCHASE_IN" /\ mv(l).item = l
    BY DEF Movement
  <2> QED
    BY <2>5, <2>6 DEF InboundTypes
<1>2. ReceiptMoves(i, w, q) = [l \in L |-> mv(l)]
  BY DEF ReceiptMoves
<1>3. ReceiptBatch(i, w, q) = InLineOrder(LineCount, ReceiptMoves(i, w, q))
  BY DEF ReceiptBatch, ReceiptMoves
<1>4. LineCount \in Nat /\ L \subseteq 1..LineCount
  BY ProcurementAssumption DEF LinesIn, Lines
<1> HIDE DEF mv, T, L
<1>5. /\ [l \in L |-> mv(l)] \in [L -> T]
      /\ \A l \in L : [k \in L |-> mv(k)][l].item = l
  BY <1>1
<1> QED
  BY <1>2, <1>3, <1>4, <1>5 DEF T, L

\* The batch of create_receipt is posted.
LEMMA ReceiptIsPosted ==
  ASSUME StockTypeOK, NEW i \in Nat, NEW w \in Warehouses,
         NEW q \in [Lines -> Nat], PostInbound(ReceiptBatch(i, w, q))
  PROVE  /\ ReceiptBatch(i, w, q) \in Seq(Row)
         /\ Posted(ReceiptBatch(i, w, q))
<1> DEFINE b == ReceiptBatch(i, w, q)
           T == {r \in Row : r.type \in InboundTypes}
<1>1. b \in Seq(T)
  <2>1. /\ ReceiptMoves(i, w, q) \in [LinesIn(q) -> T] /\ LineCount \in Nat
        /\ b = InLineOrder(LineCount, ReceiptMoves(i, w, q))
    BY ReceiptMovesType
  <2> HIDE DEF T, b
  <2> QED
    BY <2>1, InLineOrderType
<1> HIDE DEF b
<1>2. \A j \in 1..Len(b) : b[j] \in T
  BY <1>1
<1>3. T \subseteq Row /\ \A r \in T : r.type \in InboundTypes
  OBVIOUS
<1> HIDE DEF T
<1>4. b \in Seq(Row) /\ \A j \in 1..Len(b) : b[j].type \in InboundTypes
  BY <1>1, <1>2, <1>3
<1>5. PostInbound(b)
  BY DEF b
<1>6. Posted(b)
  BY <1>4, <1>5, InboundIsPosted
<1> QED
  BY <1>4, <1>6 DEF b

LEMMA CreateReceiptKeeps ==
  ASSUME IInv, NEW s \in Sessions, NEW o \in Orders, NEW w \in Warehouses,
         NEW q \in ReceiptRequests(o), CreateReceipt(s, o, w, q)
  PROVE  IInv' /\ BookStep
<1> DEFINE L == LinesIn(q)
           n == Len(receipts) + 1
           b == ReceiptBatch(n, w, q)
           new == [order |-> o, warehouse |-> w, quantity |-> q,
                   status |-> "POSTED"]
<1>1. q \in [Lines -> Nat]
  BY DEF ReceiptRequests
<1>2. n \in Nat
  BY DEF IInv, DocsOK
<1>3. PostInbound(b) /\ Commit(s) /\ IsOpen(s)
  BY DEF CreateReceipt
<1>4. b \in Seq(Row) /\ Posted(b)
  BY <1>1, <1>2, <1>3, ReceiptIsPosted DEF IInv, StockInv
<1> HIDE DEF b
<1>5. received' \in [Lines -> Nat]
  <2>1. \A l \in L : LineCheck(l, SeenReceived(s, q)[l])
    BY DEF CreateReceipt
  <2>2. received' = [l \in Lines |-> IF l \in L THEN SeenReceived(s, q)[l]
                                     ELSE received[l]]
    BY DEF CreateReceipt
  <2>3. q \in [Lines -> Int]
    BY <1>1
  <2> HIDE DEF L
  <2> QED
    BY <1>3, <2>1, <2>2, <2>3, ReceivedType
<1>6. receipts' \in Seq(Receipt)
  <2>1. new \in Receipt
    BY <1>1 DEF Receipt
  <2>2. receipts' = Append(receipts, new) /\ receipts \in Seq(Receipt)
    BY DEF CreateReceipt, IInv, DocsOK
  <2> HIDE DEF new
  <2> QED
    BY <2>1, <2>2
<1>7. poStatus' \in [Orders -> PoStatus]
  BY RecomputeType DEF CreateReceipt, IInv, DocsOK
<1>8. DocsOK'
  BY <1>5, <1>6, <1>7 DEF CreateReceipt, IInv, DocsOK
<1> QED
  BY <1>3, <1>4, <1>8, StockStep

\* The movements of the reversal of receipt i, by line.
ReversalMoves(i) ==
    [l \in LinesIn(receipts[i].quantity) |->
        Movement("PURCHASE_IN_REVERSAL",
                 <<receipts[i].warehouse, MaterialOf[l]>>,
                 -receipts[i].quantity[l],
                 ledger[OriginalRow(i, l)].unit_cost,
                 -ledger[OriginalRow(i, l)].amount,
                 i, l, OriginalRow(i, l))]

LEMMA ReversalMovesType ==
  ASSUME IInv, NEW s \in Sessions, NEW i \in 1..Len(receipts),
         ReverseReceipt(s, i)
  PROVE  LET L == LinesIn(receipts[i].quantity)
         IN  /\ ReversalMoves(i) \in [L -> {r \in Row : r.type \in OutboundTypes}]
             /\ ReversalBatch(i) = InLineOrder(LineCount, ReversalMoves(i))
             /\ LineCount \in Nat /\ L \subseteq 1..LineCount
             /\ \A l \in L : /\ ReversalMoves(i)[l].item = l
                             /\ OriginalRow(i, l) \in 1..Len(ledger)
                             /\ IsOriginal(OriginalRow(i, l), i, l)
<1> DEFINE q == receipts[i].quantity
           L == LinesIn(q)
           w == receipts[i].warehouse
           T == {r \in Row : r.type \in OutboundTypes}
           mv(l) == Movement("PURCHASE_IN_REVERSAL", <<w, MaterialOf[l]>>,
                             -q[l], ledger[OriginalRow(i, l)].unit_cost,
                             -ledger[OriginalRow(i, l)].amount,
                             i, l, OriginalRow(i, l))
<1>1. /\ receipts \in Seq(Receipt) /\ receipts[i] \in Receipt /\ i \in Nat
      /\ ledger \in Seq(Row) /\ Len(ledger) \in Nat
  BY DEF IInv, DocsOK, StockInv, StockTypeOK
<1>2. /\ q \in [Lines -> Nat] /\ w \in Warehouses
  BY <1>1 DEF Receipt
<1>3. ASSUME NEW l \in L
      PROVE  /\ OriginalRow(i, l) \in 1..Len(ledger)
             /\ IsOriginal(OriginalRow(i, l), i, l)
  <2>1. snap[s].rows \in Nat /\ snap[s].rows <= Len(ledger)
    BY SeenType DEF IInv, ReverseReceipt
  <2>2. PICK j \in 1..snap[s].rows : IsOriginal(j, i, l)
    BY <1>3 DEF ReverseReceipt
  <2>3. j \in 1..Len(ledger)
    BY <1>1, <2>1
  <2> QED
    BY <2>2, <2>3 DEF OriginalRow
<1>4. ASSUME NEW l \in L PROVE mv(l) \in T /\ mv(l).item = l
  <2>1. l \in Lines /\ l \in Nat /\ -q[l] \in Int
    <3>1. l \in Lines /\ LineCount \in Nat
      BY ProcurementAssumption DEF LinesIn
    <3>2. q[l] \in Nat
      BY <1>2, <3>1
    <3> QED
      BY <3>1, <3>2 DEF Lines
  <2>2. <<w, MaterialOf[l]>> \in Keys
    BY <1>2, <2>1, ProcurementAssumption DEF Keys
  <2> DEFINE j == OriginalRow(i, l)
  <2>3. j \in 1..Len(ledger) /\ j \in Nat
    BY <1>1, <1>3
  <2> HIDE DEF j
  <2>4. ledger[j] \in Row
    BY <1>1, <2>3
  <2>5. ledger[j].unit_cost \in Nat /\ -ledger[j].amount \in Int
    BY <2>4 DEF Row
  <2> DEFINE u == ledger[j].unit_cost
             a == -ledger[j].amount
             k == <<w, MaterialOf[l]>>
             mm == Movement("PURCHASE_IN_REVERSAL", k, -q[l], u, a, i, l, j)
  <2>6. mv(l) = mm
    BY DEF j
  <2> HIDE DEF u, a, k
  <2>7. u \in Nat /\ a \in Int /\ k \in Keys
    BY <2>2, <2>5 DEF u, a, k
  <2>8. mm \in Row
    BY <1>1, <2>1, <2>3, <2>7 DEF Movement, Row, OutboundTypes
  <2>9. mm.type = "PURCHASE_IN_REVERSAL" /\ mm.item = l
    BY DEF Movement
  <2> QED
    BY <2>6, <2>8, <2>9 DEF OutboundTypes
<1>5. ReversalMoves(i) = [l \in L |-> mv(l)]
  BY DEF ReversalMoves
<1>6. ReversalBatch(i) = InLineOrder(LineCount, ReversalMoves(i))
  BY DEF ReversalBatch, ReversalMoves
<1>7. LineCount \in Nat /\ L \subseteq 1..LineCount
  BY ProcurementAssumption DEF LinesIn, Lines
<1> HIDE DEF mv, T, L
<1>8. /\ [l \in L |-> mv(l)] \in [L -> T]
      /\ \A l \in L : [k \in L |-> mv(k)][l].item = l
  BY <1>4
<1> QED
  BY <1>3, <1>5, <1>6, <1>7, <1>8 DEF T, L

\* The batch of reverse_receipt is posted.
LEMMA ReversalIsPosted ==
  ASSUME IInv, NEW s \in Sessions, NEW i \in 1..Len(receipts),
         ReverseReceipt(s, i)
  PROVE  ReversalBatch(i) \in Seq(Row) /\ Posted(ReversalBatch(i))
<1> DEFINE b == ReversalBatch(i)
           T == {r \in Row : r.type \in OutboundTypes}
<1>1. b \in Seq(T)
  BY ReversalMovesType, InLineOrderType
<1>2. PostOutbound(b)
  BY DEF ReverseReceipt
<1> HIDE DEF b
<1>3. \A j \in 1..Len(b) : b[j] \in T
  BY <1>1
<1>4. T \subseteq Row /\ \A r \in T : r.type \in OutboundTypes
  OBVIOUS
<1> HIDE DEF T
<1>5. b \in Seq(Row) /\ \A j \in 1..Len(b) : b[j].type \in OutboundTypes
  BY <1>1, <1>3, <1>4
<1>6. Posted(b)
  BY <1>2, <1>5, OutboundIsPosted DEF IInv, StockInv
<1> QED
  BY <1>5, <1>6 DEF b

LEMMA ReverseReceiptKeeps ==
  ASSUME IInv, NEW s \in Sessions, NEW i \in 1..Len(receipts),
         ReverseReceipt(s, i)
  PROVE  IInv' /\ BookStep
<1> DEFINE q == receipts[i].quantity
           L == LinesIn(q)
           b == ReversalBatch(i)
           neg == [l \in Lines |-> -q[l]]
<1>1. /\ receipts \in Seq(Receipt) /\ receipts[i] \in Receipt /\ i \in Nat
      /\ ledger \in Seq(Row) /\ Len(ledger) \in Nat
  BY DEF IInv, DocsOK, StockInv, StockTypeOK
<1>2. q \in [Lines -> Nat] /\ receipts[i].order \in Orders
  BY <1>1 DEF Receipt
<1>3. Commit(s) /\ IsOpen(s)
  BY DEF ReverseReceipt
<1>4. b \in Seq(Row) /\ Posted(b)
  BY ReversalIsPosted
<1> HIDE DEF b
<1>5. received' \in [Lines -> Nat]
  <2>1. \A l \in L : LineCheck(l, SeenReceived(s, neg)[l])
    BY DEF ReverseReceipt
  <2>2. received' = [l \in Lines |-> IF l \in L THEN SeenReceived(s, neg)[l]
                                     ELSE received[l]]
    BY DEF ReverseReceipt
  <2>3. neg \in [Lines -> Int]
    BY <1>2
  <2> HIDE DEF L, neg
  <2> QED
    BY <1>3, <2>1, <2>2, <2>3, ReceivedType
<1>6. receipts' \in Seq(Receipt)
  <2>1. [receipts[i] EXCEPT !.status = "REVERSED"] \in Receipt
    BY <1>1 DEF Receipt
  <2>2. receipts' = [receipts EXCEPT ![i] = [receipts[i] EXCEPT
                                                !.status = "REVERSED"]]
    BY DEF ReverseReceipt
  <2> QED
    BY <1>1, <2>1, <2>2
<1>7. poStatus' \in [Orders -> PoStatus]
  BY <1>2, RecomputeType DEF ReverseReceipt, IInv, DocsOK
<1>8. DocsOK'
  BY <1>5, <1>6, <1>7 DEF ReverseReceipt, IInv, DocsOK
<1> QED
  BY <1>3, <1>4, <1>8, StockStep

\* approve_reconciliation posts one row of an adjustment type, which cancels
\* nothing.
LEMMA CountIsPosted ==
  ASSUME IInv, NEW s \in Sessions, NEW k \in Keys, NEW n \in Nat,
         NEW rate \in CountRates, PostCount(s, k, n, rate)
  PROVE  \E m \in Row : /\ <<m>> \in Seq(Row) /\ Posted(<<m>>)
                        /\ m.type \in CountTypes /\ m.reversed = 0
<1> DEFINE diff == n - balance[k].quantity
           cost == balance[k].average_unit_cost
<1>1. /\ StockTypeOK /\ balance[k].quantity \in Nat
      /\ balance[k].average_unit_cost \in Nat
  <2>1. StockTypeOK
    BY DEF IInv, StockInv
  <2>2. balance[k] \in Balance
    BY <2>1 DEF StockTypeOK
  <2> QED
    BY <2>1, <2>2 DEF Balance
<1>2. diff \in Int /\ cost \in Nat /\ rate \in Nat
  BY <1>1, ProcurementAssumption
<1>3. \/ diff > 0 /\ PostInbound(<<Movement("ADJUST_IN", k, diff, rate,
                                      LineAmount(diff, rate), 0, 0, 0)>>)
      \/ diff < 0 /\ PostOutbound(<<Movement("ADJUST_OUT", k, diff, cost,
                                       -LineAmount(-diff, cost), 0, 0, 0)>>)
  BY DEF PostCount
<1> HIDE DEF diff, cost
<1>4. CASE diff > 0 /\ PostInbound(<<Movement("ADJUST_IN", k, diff, rate,
                                       LineAmount(diff, rate), 0, 0, 0)>>)
  <2> DEFINE a == LineAmount(diff, rate)
             m == Movement("ADJUST_IN", k, diff, rate, a, 0, 0, 0)
  <2>1. a \in Nat
    BY <1>2, <1>4, CostType
  <2>2. PostInbound(<<m>>)
    BY <1>4
  <2> HIDE DEF a
  <2>3. m \in Row /\ m.type = "ADJUST_IN" /\ m.reversed = 0
    BY <1>2, <2>1 DEF Movement, Row, InboundTypes
  <2> HIDE DEF m
  <2>4. /\ <<m>> \in Seq(Row) /\ Len(<<m>>) = 1 /\ <<m>>[1] = m
        /\ \A i \in 1..Len(<<m>>) : <<m>>[i].type \in InboundTypes
    BY <2>3 DEF InboundTypes
  <2>5. Posted(<<m>>)
    BY <1>1, <2>2, <2>4, InboundIsPosted
  <2> QED
    BY <2>3, <2>4, <2>5 DEF CountTypes
<1>5. CASE diff < 0 /\ PostOutbound(<<Movement("ADJUST_OUT", k, diff, cost,
                                        -LineAmount(-diff, cost), 0, 0, 0)>>)
  <2> DEFINE a == -LineAmount(-diff, cost)
             m == Movement("ADJUST_OUT", k, diff, cost, a, 0, 0, 0)
  <2>1. a \in Int
    <3>1. -diff \in Nat
      BY <1>2, <1>5
    <3>2. LineAmount(-diff, cost) \in Nat
      BY <1>2, <3>1, CostType
    <3> QED
      BY <3>2
  <2>2. PostOutbound(<<m>>)
    BY <1>5
  <2> HIDE DEF a
  <2>3. m \in Row /\ m.type = "ADJUST_OUT" /\ m.reversed = 0
    BY <1>2, <2>1 DEF Movement, Row, OutboundTypes
  <2> HIDE DEF m
  <2>4. /\ <<m>> \in Seq(Row) /\ Len(<<m>>) = 1 /\ <<m>>[1] = m
        /\ \A i \in 1..Len(<<m>>) : <<m>>[i].type \in OutboundTypes
    BY <2>3 DEF OutboundTypes
  <2>5. Posted(<<m>>)
    BY <1>1, <2>2, <2>4, OutboundIsPosted
  <2> QED
    BY <2>3, <2>4, <2>5 DEF CountTypes
<1> QED
  BY <1>3, <1>4, <1>5

\* It is the last row of the ledger.
LEMMA CountRow ==
  ASSUME StockTypeOK, NEW m \in Row, <<m>> \in Seq(Row), Posted(<<m>>)
  PROVE  LET N == Len(ledger)
         IN  /\ N \in Nat /\ Len(ledger') = N + 1
             /\ \A j \in 1..N : ledger'[j] = ledger[j]
             /\ SameMove(ledger'[N + 1], m)
<1> DEFINE b == <<m>>
<1>1. b \in Seq(Row) /\ Posted(b) /\ Len(b) = 1 /\ b[1] = m
  OBVIOUS
<1> HIDE DEF b
<1>2. /\ Len(ledger) \in Nat /\ Len(ledger') = Len(ledger) + Len(b)
      /\ \A j \in 1..Len(ledger) : ledger'[j] = ledger[j]
      /\ \A p \in 1..Len(b) : SameMove(ledger'[Len(ledger) + p], b[p])
  BY <1>1, PostedRows
<1>3. 1 \in 1..Len(b)
  BY <1>1
<1> QED
  BY <1>1, <1>2, <1>3

LEMMA PostCountKeeps ==
  ASSUME IInv, NEW s \in Sessions, NEW k \in Keys, NEW n \in Nat,
         NEW rate \in CountRates, PostCount(s, k, n, rate)
  PROVE  IInv' /\ BookStep
<1>1. PICK m \in Row : <<m>> \in Seq(Row) /\ Posted(<<m>>)
  BY CountIsPosted
<1>2. Commit(s) /\ UNCHANGED documents
  BY DEF PostCount
<1>3. DocsOK'
  BY <1>2 DEF IInv, DocsOK, documents
<1> QED
  BY <1>1, <1>2, <1>3, StockStep

-----------------------------------------------------------------------------
(* The theorems *)

LEMMA InitIInv == Init => IInv
<1> SUFFICES ASSUME Init PROVE IInv
  OBVIOUS
<1>1. StockInv
  BY StockInitInv DEF Init
<1>2. DocsOK
  BY DEF Init, DocsOK, PrStatus, PoStatus
<1>3. SnapOK
  BY DEF Init, SnapOK, IsOpen
<1> QED
  BY <1>1, <1>2, <1>3 DEF IInv

LEMMA NextIInv == IInv /\ [Next]_vars => IInv' /\ BookStep
<1> SUFFICES ASSUME IInv, [Next]_vars PROVE IInv' /\ BookStep
  OBVIOUS
<1>1. CASE UNCHANGED vars
  <2>1. /\ UNCHANGED documents /\ UNCHANGED stockVars /\ snap' = snap
        /\ ledger' = ledger
    BY <1>1 DEF vars, stockVars
  <2>2. StockInv' /\ BookStep
    BY <2>1, StockUnchanged DEF IInv
  <2>3. DocsOK'
    BY <2>1 DEF IInv, DocsOK, documents
  <2>4. SnapOK'
    BY <2>1 DEF IInv, SnapOK, IsOpen
  <2> QED
    BY <2>2, <2>3, <2>4 DEF IInv
<1>2. ASSUME NEW s \in Sessions, Begin(s) PROVE IInv' /\ BookStep
  BY <1>2, BeginKeeps
<1>3. ASSUME NEW s \in Sessions, Rollback(s) PROVE IInv' /\ BookStep
  BY <1>3, RollbackKeeps
<1>4. ASSUME NEW s \in Sessions, NEW w \in Warehouses,
             DisableWarehouse(s, w) \/ EnableWarehouse(s, w)
      PROVE  IInv' /\ BookStep
  BY <1>4, MasterDataKeeps DEF DisableWarehouse, EnableWarehouse, MasterData
<1>5. ASSUME NEW s \in Sessions, NEW m \in Materials,
             DisableMaterial(s, m) \/ EnableMaterial(s, m)
      PROVE  IInv' /\ BookStep
  BY <1>5, MasterDataKeeps DEF DisableMaterial, EnableMaterial, MasterData
<1>6. ASSUME NEW s \in Sessions, NEW v \in Suppliers,
             DisableSupplier(s, v) \/ EnableSupplier(s, v)
      PROVE  IInv' /\ BookStep
  BY <1>6, MasterDataKeeps DEF DisableSupplier, EnableSupplier, MasterData
<1>7. ASSUME NEW s \in Sessions, NEW o \in Orders,
             NEW src \in OrderRequests(o), CreatePo(s, o, src)
      PROVE  IInv' /\ BookStep
  BY <1>7, CreatePoKeeps
<1>8. ASSUME NEW s \in Sessions, NEW o \in Orders, ConfirmPo(s, o)
      PROVE  IInv' /\ BookStep
  BY <1>8, ConfirmPoKeeps
<1>9. ASSUME NEW s \in Sessions, NEW o \in Orders, CancelPo(s, o)
      PROVE  IInv' /\ BookStep
  BY <1>9, CancelPoKeeps
<1>10. ASSUME NEW s \in Sessions, NEW r \in Requisitions, CancelPr(s, r)
       PROVE  IInv' /\ BookStep
  BY <1>10, CancelPrKeeps
<1>11. ASSUME NEW s \in Sessions, NEW o \in Orders, NEW w \in Warehouses,
              NEW q \in ReceiptRequests(o), CreateReceipt(s, o, w, q)
       PROVE  IInv' /\ BookStep
  BY <1>11, CreateReceiptKeeps
<1>12. ASSUME NEW s \in Sessions, NEW i \in 1..Len(receipts),
              ReverseReceipt(s, i)
       PROVE  IInv' /\ BookStep
  BY <1>12, ReverseReceiptKeeps
<1>13. ASSUME NEW s \in Sessions, NEW k \in Keys, NEW n \in 0..MaxQuantity,
              NEW rate \in CountRates, PostCount(s, k, n, rate)
       PROVE  IInv' /\ BookStep
  <2>1. n \in Nat
    OBVIOUS
  <2> QED
    BY <1>13, <2>1, PostCountKeeps
<1> QED
  BY <1>1, <1>2, <1>3, <1>4, <1>5, <1>6, <1>7, <1>8, <1>9, <1>10, <1>11, <1>12, <1>13
     DEF Next

LEMMA Invariance == Spec => []IInv
<1>1. Init => IInv
  BY InitIInv
<1>2. IInv /\ [Next]_vars => IInv'
  BY NextIInv
<1> QED
  BY <1>1, <1>2, PTL DEF Spec

\* Every variable of the purchasing chain keeps its type: in particular no
\* quantity, amount or average cost of a balance and no received or converted
\* quantity is ever negative, whatever transactions race.
THEOREM TypeCorrect == Spec => []TypeOK
<1>1. IInv => TypeOK
  BY IInvParts
<1> QED
  BY <1>1, Invariance, PTL

\* Every balance is the sum of its ledger rows, in quantity and in value, in
\* every interleaving of receipts and reversals (create_receipt,
\* reverse_receipt, write_transaction, apply_inbound, apply_outbound).
THEOREM LedgerReconciles == Spec => []BalanceIsLedgerSum
<1>1. IInv => BalanceIsLedgerSum
  BY IInvParts
<1> QED
  BY <1>1, Invariance, PTL

\* The running balance on every ledger row is the total of its key up to that
\* row and is not negative, also inside a batch with several lines of one
\* material (running_qty of create_receipt and reverse_receipt).
THEOREM LedgerRunsTrue == Spec => []RunningBalance
<1>1. IInv => RunningBalance
  BY IInvParts
<1> QED
  BY <1>1, Invariance, PTL

\* The purchasing chain implements the abstract stock book (StockBook), for
\* any number of racing sessions: the ledger is append-only, and every balance
\* moves by exactly what the rows written in the same transaction say.
THEOREM StockRefinesBook == Spec => StockIsABook
<1>1. Init => Book!Init
  BY InitIsBook DEF Init
<1>2. IInv /\ [Next]_vars => [Book!Post]_(Book!bookVars)
  BY NextIInv DEF BookStep
<1> QED
  BY <1>1, <1>2, Invariance, PTL DEF Spec, StockIsABook, Book!Spec

-----------------------------------------------------------------------------
(* Receipts and their ledger rows *)

\* A PURCHASE_IN row is the one of a line of a receipt, and says what the line
\* says; a reversal row cancels such a row, and a count row cancels none.
OriginalsOK ==
    \A j \in 1..Len(ledger) : ledger[j].type = "PURCHASE_IN" =>
        /\ ledger[j].source \in 1..Len(receipts)
        /\ ledger[j].item \in LinesIn(receipts[ledger[j].source].quantity)
        /\ ledger[j].reversed = 0
        /\ ledger[j].key = <<receipts[ledger[j].source].warehouse,
                             MaterialOf[ledger[j].item]>>
        /\ ledger[j].quantity
              = receipts[ledger[j].source].quantity[ledger[j].item]
        /\ ledger[j].amount
              = LineAmount(ledger[j].quantity, PriceOf[ledger[j].item])

ReversalsOK ==
    \A h \in 1..Len(ledger) : ledger[h].type = "PURCHASE_IN_REVERSAL" =>
        /\ ledger[h].reversed \in 1..Len(ledger)
        /\ ledger[ledger[h].reversed].type = "PURCHASE_IN"

CountsCancelNothing == \A h \in CountRows : ledger[h].reversed = 0

\* Row h cancels row j.
Cancels(h, j) == /\ ledger[h].reversed = j
                 /\ ledger[h].key = ledger[j].key
                 /\ ledger[h].unit_cost = ledger[j].unit_cost
                 /\ ledger[h].quantity = -ledger[j].quantity
                 /\ ledger[h].amount = -ledger[j].amount

\* Row j is the one row of line l of receipt i, and is cancelled by one row if
\* the receipt is reversed and by none if it is not.
Accounted(j, i, l) ==
    /\ IsOriginal(j, i, l)
    /\ \A h \in 1..Len(ledger) : IsOriginal(h, i, l) => h = j
    /\ receipts[i].status = "POSTED" =>
          \A h \in 1..Len(ledger) : ledger[h].reversed # j
    /\ receipts[i].status = "REVERSED" =>
          \E h \in 1..Len(ledger) :
              /\ Cancels(h, j)
              /\ \A g \in 1..Len(ledger) : ledger[g].reversed = j => g = h

AllAccounted ==
    \A i \in 1..Len(receipts) : \A l \in LinesIn(receipts[i].quantity) :
        \E j \in 1..Len(ledger) : Accounted(j, i, l)

HInv == OriginalsOK /\ ReversalsOK /\ CountsCancelNothing /\ AllAccounted

\* Every row is of one of three kinds.
LEMMA RowTypes ==
  ASSUME NEW rows \in Seq(Row), NEW j \in 1..Len(rows)
  PROVE  \/ rows[j].type = "PURCHASE_IN"
         \/ rows[j].type = "PURCHASE_IN_REVERSAL"
         \/ rows[j].type \in CountTypes
<1>1. rows[j] \in Row
  OBVIOUS
<1>2. rows[j].type \in InboundTypes \cup OutboundTypes
  BY <1>1 DEF Row
<1> QED
  BY <1>2 DEF InboundTypes, OutboundTypes, CountTypes

LEMMA AccountedIsReversedOnce == AllAccounted => ReversedExactlyOnce
<1> SUFFICES ASSUME AllAccounted, NEW i \in 1..Len(receipts),
                    NEW l \in LinesIn(receipts[i].quantity)
             PROVE  \E j \in 1..Len(ledger) :
            /\ {h \in 1..Len(ledger) : IsOriginal(h, i, l)} = {j}
            /\ receipts[i].status = "POSTED" => ReversalsOf(j) = {}
            /\ receipts[i].status = "REVERSED" =>
                  \E h \in 1..Len(ledger) :
                      /\ ReversalsOf(j) = {h}
                      /\ ledger[h].key = ledger[j].key
                      /\ ledger[h].unit_cost = ledger[j].unit_cost
                      /\ ledger[h].quantity = -ledger[j].quantity
                      /\ ledger[h].amount = -ledger[j].amount
  BY DEF ReversedExactlyOnce
<1>1. PICK j \in 1..Len(ledger) : Accounted(j, i, l)
  BY DEF AllAccounted
<1>2. {h \in 1..Len(ledger) : IsOriginal(h, i, l)} = {j}
  BY <1>1 DEF Accounted
<1>3. receipts[i].status = "POSTED" => ReversalsOf(j) = {}
  BY <1>1 DEF Accounted, ReversalsOf
<1>4. ASSUME receipts[i].status = "REVERSED"
      PROVE  \E h \in 1..Len(ledger) : ReversalsOf(j) = {h} /\ Cancels(h, j)
  <2>1. PICK h \in 1..Len(ledger) :
                /\ Cancels(h, j)
                /\ \A g \in 1..Len(ledger) : ledger[g].reversed = j => g = h
    BY <1>1, <1>4 DEF Accounted
  <2>2. ReversalsOf(j) = {h}
    BY <2>1 DEF ReversalsOf, Cancels
  <2> QED
    BY <2>1, <2>2
<1> QED
  BY <1>2, <1>3, <1>4, Zenon DEF Cancels

\* A step that writes no ledger row and no receipt.
LEMMA HistoryUnchanged ==
  ASSUME HInv, UNCHANGED <<ledger, receipts>>
  PROVE  HInv'
<1>1. ledger' = ledger /\ receipts' = receipts
  OBVIOUS
<1>2. OriginalsOK' /\ ReversalsOK' /\ CountsCancelNothing'
  BY <1>1 DEF HInv, OriginalsOK, ReversalsOK, CountsCancelNothing, CountRows
<1>3. AllAccounted'
  <2>1. \A j, i, l : IsOriginal(j, i, l)' <=> IsOriginal(j, i, l)
    BY <1>1 DEF IsOriginal
  <2>2. \A h, j : Cancels(h, j)' <=> Cancels(h, j)
    BY <1>1 DEF Cancels
  <2>3. \A j, i, l : Accounted(j, i, l) => Accounted(j, i, l)'
    BY <1>1, <2>1, <2>2, Zenon DEF Accounted
  <2>4. AllAccounted
    BY DEF HInv
  <2> QED
    BY <1>1, <2>3, <2>4, Zenon DEF AllAccounted, LinesIn
<1> QED
  BY <1>2, <1>3 DEF HInv

\* create_receipt writes one row per line.
LEMMA ReceiptRows ==
  ASSUME IInv, NEW s \in Sessions, NEW o \in Orders, NEW w \in Warehouses,
         NEW q \in ReceiptRequests(o), CreateReceipt(s, o, w, q)
  PROVE  /\ Len(ledger) \in Nat /\ Len(ledger') \in Nat
         /\ Len(ledger') >= Len(ledger)
         /\ \A j \in 1..Len(ledger) : ledger'[j] = ledger[j]
         /\ \A j \in (Len(ledger) + 1)..Len(ledger') :
               /\ ledger'[j].type = "PURCHASE_IN"
               /\ ledger'[j].source = Len(receipts) + 1
               /\ ledger'[j].item \in LinesIn(q)
               /\ ledger'[j].reversed = 0
               /\ ledger'[j].key = <<w, MaterialOf[ledger'[j].item]>>
               /\ ledger'[j].quantity = q[ledger'[j].item]
               /\ ledger'[j].amount
                     = LineAmount(q[ledger'[j].item], PriceOf[ledger'[j].item])
         /\ \A l \in LinesIn(q) : \E j \in (Len(ledger) + 1)..Len(ledger') :
               ledger'[j].item = l
         /\ \A j, h \in (Len(ledger) + 1)..Len(ledger') :
               ledger'[j].item = ledger'[h].item => j = h
<1> DEFINE n == Len(receipts) + 1
           L == LinesIn(q)
           mv == ReceiptMoves(n, w, q)
<1>1. q \in [Lines -> Nat] /\ n \in Nat /\ StockTypeOK
  BY DEF ReceiptRequests, IInv, DocsOK, StockInv
<1>2. /\ mv \in [L -> {r \in Row : r.type \in InboundTypes}]
      /\ LineCount \in Nat /\ L \subseteq 1..LineCount
      /\ \A l \in L : mv[l].item = l
      /\ ReceiptBatch(n, w, q) = InLineOrder(LineCount, mv)
  BY <1>1, ReceiptMovesType
<1>3. ledger' = ledger \o Rows(InLineOrder(LineCount, mv))
  BY <1>2 DEF CreateReceipt, PostInbound
<1>4. \A l \in L : /\ mv[l].type = "PURCHASE_IN" /\ mv[l].source = n
                   /\ mv[l].reversed = 0 /\ mv[l].key = <<w, MaterialOf[l]>>
                   /\ mv[l].quantity = q[l]
                   /\ mv[l].amount = LineAmount(q[l], PriceOf[l])
  BY DEF ReceiptMoves, Movement
<1> HIDE DEF mv, L
<1>5. mv \in [L -> Row]
  BY <1>2
<1>6. Enumerates(InLineOrder(LineCount, mv), mv, LineCount)
  BY <1>2, <1>5, InLineOrderEnumerates
<1>7. /\ Len(ledger) \in Nat /\ Len(ledger') \in Nat
      /\ Len(ledger') >= Len(ledger)
      /\ \A j \in 1..Len(ledger) : ledger'[j] = ledger[j]
      /\ \A j \in (Len(ledger) + 1)..Len(ledger') :
            /\ ledger'[j].item \in L
            /\ SameMove(ledger'[j], mv[ledger'[j].item])
      /\ \A l \in L : \E j \in (Len(ledger) + 1)..Len(ledger') :
            ledger'[j].item = l
      /\ \A j, h \in (Len(ledger) + 1)..Len(ledger') :
            ledger'[j].item = ledger'[h].item => j = h
  BY <1>1, <1>2, <1>3, <1>5, <1>6, RowsOfMoves
<1>8. ASSUME NEW j \in (Len(ledger) + 1)..Len(ledger')
      PROVE  /\ ledger'[j].type = "PURCHASE_IN" /\ ledger'[j].source = n
             /\ ledger'[j].reversed = 0
             /\ ledger'[j].key = <<w, MaterialOf[ledger'[j].item]>>
             /\ ledger'[j].quantity = q[ledger'[j].item]
             /\ ledger'[j].amount
                   = LineAmount(q[ledger'[j].item], PriceOf[ledger'[j].item])
  <2> DEFINE l == ledger'[j].item
  <2>1. l \in L /\ SameMove(ledger'[j], mv[l])
    BY <1>7
  <2> HIDE DEF l
  <2>2. /\ ledger'[j].type = "PURCHASE_IN" /\ ledger'[j].source = n
        /\ ledger'[j].reversed = 0 /\ ledger'[j].key = <<w, MaterialOf[l]>>
        /\ ledger'[j].quantity = q[l]
        /\ ledger'[j].amount = LineAmount(q[l], PriceOf[l])
    BY <1>4, <2>1, Zenon DEF SameMove
  <2> QED
    BY <2>2 DEF l
<1> QED
  BY <1>7, <1>8, Zenon DEF L

LEMMA CreateReceiptAccounts ==
  ASSUME IInv, HInv, NEW s \in Sessions, NEW o \in Orders, NEW w \in Warehouses,
         NEW q \in ReceiptRequests(o), CreateReceipt(s, o, w, q)
  PROVE  HInv'
<1> DEFINE n == Len(receipts) + 1
           N == Len(ledger)
           N1 == Len(ledger')
           new == [order |-> o, warehouse |-> w, quantity |-> q,
                   status |-> "POSTED"]
<1>1. /\ N \in Nat /\ N1 \in Nat /\ N1 >= N
      /\ \A j \in 1..N : ledger'[j] = ledger[j]
      /\ \A l \in LinesIn(q) : \E j \in (N + 1)..N1 : ledger'[j].item = l
      /\ \A j, h \in (N + 1)..N1 : ledger'[j].item = ledger'[h].item => j = h
  BY ReceiptRows
<1>2. \A j \in (N + 1)..N1 :
         /\ ledger'[j].type = "PURCHASE_IN" /\ ledger'[j].source = n
         /\ ledger'[j].item \in LinesIn(q) /\ ledger'[j].reversed = 0
         /\ ledger'[j].key = <<w, MaterialOf[ledger'[j].item]>>
         /\ ledger'[j].quantity = q[ledger'[j].item]
         /\ ledger'[j].amount
               = LineAmount(q[ledger'[j].item], PriceOf[ledger'[j].item])
  BY ReceiptRows
<1>3. receipts \in Seq(Receipt) /\ q \in [Lines -> Nat]
  BY DEF IInv, DocsOK, ReceiptRequests
<1>4. receipts' = Append(receipts, new) /\ new \in Receipt
  BY <1>3 DEF CreateReceipt, Receipt
<1>5. new.warehouse = w /\ new.quantity = q /\ new.status = "POSTED"
  OBVIOUS
<1> HIDE DEF new
<1>6. /\ Len(receipts) \in Nat /\ Len(receipts') = n /\ receipts'[n] = new
      /\ \A i \in 1..Len(receipts) : receipts'[i] = receipts[i]
  BY <1>3, <1>4
<1>7. \A j \in 1..N1 : j \in 1..N \/ j \in (N + 1)..N1
  BY <1>1
<1>8. \A j \in 1..N : j \in 1..N1 /\ j \notin (N + 1)..N1
  BY <1>1
<1>9. \A j \in (N + 1)..N1 : j \in 1..N1 /\ j \notin 1..N /\ j # 0
  BY <1>1
<1>10. \A i \in 1..n : i \in 1..Len(receipts) \/ i = n
  BY <1>6
<1>11. \A i \in 1..Len(receipts) : i \in 1..n /\ i # n
  BY <1>6
<1>12. n \in 1..n
  BY <1>6
<1> HIDE DEF N, N1, n
<1>13. \A j \in 1..N : ledger[j].type = "PURCHASE_IN" =>
          /\ ledger[j].source \in 1..Len(receipts) /\ ledger[j].reversed = 0
  BY DEF HInv, OriginalsOK, N
<1>14. \A j \in 1..N : ledger[j].type = "PURCHASE_IN_REVERSAL" =>
          ledger[j].reversed \in 1..N /\ ledger[ledger[j].reversed].type = "PURCHASE_IN"
  BY DEF HInv, ReversalsOK, N
<1>18. \A j \in 1..N : ledger[j].type \in CountTypes => ledger[j].reversed = 0
  BY DEF HInv, CountsCancelNothing, CountRows, N
<1>19. \A j \in 1..N : \/ ledger[j].type = "PURCHASE_IN"
                       \/ ledger[j].type = "PURCHASE_IN_REVERSAL"
                       \/ ledger[j].type \in CountTypes
  BY RowTypes DEF IInv, StockInv, StockTypeOK, N
<1>20. CountsCancelNothing'
  <2> SUFFICES ASSUME NEW h \in 1..N1, ledger'[h].type \in CountTypes
               PROVE  ledger'[h].reversed = 0
    BY DEF CountsCancelNothing, CountRows, CountTypes, N1
  <2>1. h \in 1..N
    BY <1>2, <1>7 DEF CountTypes
  <2> QED
    BY <1>1, <1>18, <2>1
<1>15. OriginalsOK'
  <2> SUFFICES ASSUME NEW j \in 1..N1, ledger'[j].type = "PURCHASE_IN"
               PROVE  /\ ledger'[j].source \in 1..n
                      /\ ledger'[j].item
                            \in LinesIn(receipts'[ledger'[j].source].quantity)
                      /\ ledger'[j].reversed = 0
                      /\ ledger'[j].key
                            = <<receipts'[ledger'[j].source].warehouse,
                                MaterialOf[ledger'[j].item]>>
                      /\ ledger'[j].quantity
                            = receipts'[ledger'[j].source].quantity[ledger'[j].item]
                      /\ ledger'[j].amount
                            = LineAmount(ledger'[j].quantity,
                                         PriceOf[ledger'[j].item])
    BY <1>6, Zenon DEF OriginalsOK, N1, LinesIn
  <2>1. CASE j \in 1..N
    <3>1. ledger'[j] = ledger[j] /\ ledger[j].source \in 1..Len(receipts)
      BY <1>1, <1>13, <2>1
    <3>2. receipts'[ledger[j].source] = receipts[ledger[j].source]
      BY <1>6, <3>1
    <3>3. /\ ledger[j].item \in LinesIn(receipts[ledger[j].source].quantity)
          /\ ledger[j].reversed = 0
          /\ ledger[j].key = <<receipts[ledger[j].source].warehouse,
                               MaterialOf[ledger[j].item]>>
          /\ ledger[j].quantity
                = receipts[ledger[j].source].quantity[ledger[j].item]
          /\ ledger[j].amount
                = LineAmount(ledger[j].quantity, PriceOf[ledger[j].item])
      BY <2>1, <3>1, Zenon DEF HInv, OriginalsOK, N
    <3> QED
      BY <1>11, <3>1, <3>2, <3>3
  <2>2. CASE j \in (N + 1)..N1
    BY <1>2, <1>5, <1>6, <1>12, <2>2, Zenon
  <2> QED
    BY <1>7, <2>1, <2>2
<1>16. ReversalsOK'
  <2> SUFFICES ASSUME NEW h \in 1..N1, ledger'[h].type = "PURCHASE_IN_REVERSAL"
               PROVE  /\ ledger'[h].reversed \in 1..N1
                      /\ ledger'[ledger'[h].reversed].type = "PURCHASE_IN"
    BY DEF ReversalsOK, N1
  <2>1. h \in 1..N /\ ledger'[h] = ledger[h]
    BY <1>1, <1>2, <1>7
  <2>2. ledger[h].reversed \in 1..N /\ ledger[ledger[h].reversed].type = "PURCHASE_IN"
    BY <1>14, <2>1
  <2>3. ledger'[ledger[h].reversed] = ledger[ledger[h].reversed]
    BY <1>1, <2>2
  <2> QED
    BY <1>8, <2>1, <2>2, <2>3
<1>17. AllAccounted'
  <2> SUFFICES ASSUME NEW i \in 1..n, NEW l \in LinesIn(receipts'[i].quantity)
               PROVE  \E j \in 1..N1 : Accounted(j, i, l)'
    BY <1>6, Zenon DEF AllAccounted, N1, LinesIn
  <2>1. CASE i \in 1..Len(receipts)
    <3>1. l \in LinesIn(receipts[i].quantity) /\ receipts'[i] = receipts[i]
      BY <1>6, <2>1
    <3>2. PICK j \in 1..N : Accounted(j, i, l)
      BY <2>1, <3>1 DEF HInv, AllAccounted, N
    <3>3. IsOriginal(j, i, l)'
      BY <1>1, <3>2, Zenon DEF Accounted, IsOriginal
    <3>4. \A h \in 1..N1 : IsOriginal(h, i, l)' => h = j
      BY <1>1, <1>2, <1>7, <1>11, <2>1, <3>2, Zenon DEF Accounted, IsOriginal, N
    <3>5. j # 0
      BY <1>1, <3>2
    <3>6. \A h \in 1..N1 : ledger'[h].reversed = j
             => h \in 1..N /\ ledger[h].reversed = j
      BY <1>1, <1>2, <1>7, <3>5, Zenon
    <3>7. \A h \in 1..N : Cancels(h, j) => Cancels(h, j)'
      BY <1>1, <3>2 DEF Cancels
    <3>8. receipts'[i].status = "POSTED" => \A h \in 1..N1 : ledger'[h].reversed # j
      BY <3>1, <3>2, <3>6, Zenon DEF Accounted, N
    <3>9. ASSUME receipts'[i].status = "REVERSED"
          PROVE  \E h \in 1..N1 :
                    /\ Cancels(h, j)'
                    /\ \A g \in 1..N1 : ledger'[g].reversed = j => g = h
      <4>1. PICK h \in 1..N :
                    /\ Cancels(h, j)
                    /\ \A g \in 1..N : ledger[g].reversed = j => g = h
        BY <3>1, <3>2, <3>9, Zenon DEF Accounted, N
      <4> QED
        BY <1>8, <3>6, <3>7, <4>1, Zenon
    <3>10. Accounted(j, i, l)'
      BY <3>3, <3>4, <3>8, <3>9, Zenon DEF Accounted, N1
    <3> QED
      BY <1>8, <3>10
  <2>2. CASE i = n
    <3>1. l \in LinesIn(q) /\ receipts'[i].status = "POSTED"
      BY <1>5, <1>6, <2>2
    <3>2. PICK j \in (N + 1)..N1 : ledger'[j].item = l
      BY <1>1, <3>1
    <3>3. IsOriginal(j, i, l)'
      BY <1>2, <2>2, <3>2, Zenon DEF IsOriginal
    <3>4. \A h \in 1..N1 : IsOriginal(h, i, l)' => h = j
      <4> SUFFICES ASSUME NEW h \in 1..N1, IsOriginal(h, i, l)' PROVE h = j
        OBVIOUS
      <4>1. CASE h \in 1..N
        <5>1. ledger'[h] = ledger[h]
          BY <1>1, <4>1
        <5>2. ledger[h].type = "PURCHASE_IN" /\ ledger[h].source = n
          BY <2>2, <5>1 DEF IsOriginal
        <5> QED
          BY <1>11, <1>13, <4>1, <5>2
      <4>2. CASE h \in (N + 1)..N1
        BY <1>1, <3>2, <4>2 DEF IsOriginal
      <4> QED
        BY <1>7, <4>1, <4>2
    <3>5. \A h \in 1..N1 : ledger'[h].reversed # j
      <4> TAKE h \in 1..N1
      <4>1. j \notin 1..N /\ j # 0
        BY <1>9, <3>2
      <4>2. CASE h \in 1..N
        <5>1. ledger'[h] = ledger[h]
          BY <1>1, <4>2
        <5> QED
          BY <1>13, <1>14, <1>18, <1>19, <4>1, <4>2, <5>1
      <4>3. CASE h \in (N + 1)..N1
        BY <1>2, <4>1, <4>3
      <4> QED
        BY <1>7, <4>2, <4>3
    <3>6. Accounted(j, i, l)'
      BY <3>1, <3>3, <3>4, <3>5, Zenon DEF Accounted, N1
    <3> QED
      BY <1>9, <3>6
  <2> QED
    BY <1>10, <2>1, <2>2
<1> QED
  BY <1>15, <1>16, <1>17, <1>20 DEF HInv

\* reverse_receipt writes one row per line, which cancels the original row.
LEMMA ReversalRows ==
  ASSUME IInv, NEW s \in Sessions, NEW i \in 1..Len(receipts),
         ReverseReceipt(s, i)
  PROVE  LET q == receipts[i].quantity
             w == receipts[i].warehouse
         IN  /\ Len(ledger) \in Nat /\ Len(ledger') \in Nat
             /\ Len(ledger') >= Len(ledger)
             /\ \A j \in 1..Len(ledger) : ledger'[j] = ledger[j]
             /\ \A h \in (Len(ledger) + 1)..Len(ledger') :
                   /\ ledger'[h].type = "PURCHASE_IN_REVERSAL"
                   /\ ledger'[h].item \in LinesIn(q)
                   /\ ledger'[h].reversed = OriginalRow(i, ledger'[h].item)
                   /\ ledger'[h].key = <<w, MaterialOf[ledger'[h].item]>>
                   /\ ledger'[h].quantity = -q[ledger'[h].item]
                   /\ ledger'[h].unit_cost
                         = ledger[OriginalRow(i, ledger'[h].item)].unit_cost
                   /\ ledger'[h].amount
                         = -ledger[OriginalRow(i, ledger'[h].item)].amount
             /\ \A l \in LinesIn(q) :
                   \E h \in (Len(ledger) + 1)..Len(ledger') :
                      ledger'[h].item = l
             /\ \A j, h \in (Len(ledger) + 1)..Len(ledger') :
                   ledger'[j].item = ledger'[h].item => j = h
<1> DEFINE q == receipts[i].quantity
           w == receipts[i].warehouse
           L == LinesIn(q)
           mv == ReversalMoves(i)
<1>1. StockTypeOK
  BY DEF IInv, StockInv
<1>2. /\ mv \in [L -> {r \in Row : r.type \in OutboundTypes}]
      /\ LineCount \in Nat /\ L \subseteq 1..LineCount
      /\ \A l \in L : mv[l].item = l
      /\ ReversalBatch(i) = InLineOrder(LineCount, mv)
  BY ReversalMovesType
<1>3. ledger' = ledger \o Rows(InLineOrder(LineCount, mv))
  BY <1>2 DEF ReverseReceipt, PostOutbound
<1>4. \A l \in L : /\ mv[l].type = "PURCHASE_IN_REVERSAL"
                   /\ mv[l].reversed = OriginalRow(i, l)
                   /\ mv[l].key = <<w, MaterialOf[l]>>
                   /\ mv[l].quantity = -q[l]
                   /\ mv[l].unit_cost = ledger[OriginalRow(i, l)].unit_cost
                   /\ mv[l].amount = -ledger[OriginalRow(i, l)].amount
  BY DEF ReversalMoves, Movement
<1> HIDE DEF mv, L
<1>5. mv \in [L -> Row]
  BY <1>2
<1>6. Enumerates(InLineOrder(LineCount, mv), mv, LineCount)
  BY <1>2, <1>5, InLineOrderEnumerates
<1>7. /\ Len(ledger) \in Nat /\ Len(ledger') \in Nat
      /\ Len(ledger') >= Len(ledger)
      /\ \A j \in 1..Len(ledger) : ledger'[j] = ledger[j]
      /\ \A j \in (Len(ledger) + 1)..Len(ledger') :
            /\ ledger'[j].item \in L
            /\ SameMove(ledger'[j], mv[ledger'[j].item])
      /\ \A l \in L : \E j \in (Len(ledger) + 1)..Len(ledger') :
            ledger'[j].item = l
      /\ \A j, h \in (Len(ledger) + 1)..Len(ledger') :
            ledger'[j].item = ledger'[h].item => j = h
  BY <1>1, <1>2, <1>3, <1>5, <1>6, RowsOfMoves
<1>8. ASSUME NEW j \in (Len(ledger) + 1)..Len(ledger')
      PROVE  /\ ledger'[j].type = "PURCHASE_IN_REVERSAL"
             /\ ledger'[j].reversed = OriginalRow(i, ledger'[j].item)
             /\ ledger'[j].key = <<w, MaterialOf[ledger'[j].item]>>
             /\ ledger'[j].quantity = -q[ledger'[j].item]
             /\ ledger'[j].unit_cost
                   = ledger[OriginalRow(i, ledger'[j].item)].unit_cost
             /\ ledger'[j].amount
                   = -ledger[OriginalRow(i, ledger'[j].item)].amount
  <2> DEFINE l == ledger'[j].item
  <2>1. l \in L /\ SameMove(ledger'[j], mv[l])
    BY <1>7
  <2> HIDE DEF l
  <2>2. /\ ledger'[j].type = "PURCHASE_IN_REVERSAL"
        /\ ledger'[j].reversed = OriginalRow(i, l)
        /\ ledger'[j].key = <<w, MaterialOf[l]>>
        /\ ledger'[j].quantity = -q[l]
        /\ ledger'[j].unit_cost = ledger[OriginalRow(i, l)].unit_cost
        /\ ledger'[j].amount = -ledger[OriginalRow(i, l)].amount
    BY <1>4, <2>1, Zenon DEF SameMove
  <2> QED
    BY <2>2 DEF l
<1> QED
  BY <1>7, <1>8, Zenon DEF L

\* The status of receipt i is changed in place.
LEMMA ReversedReceipt ==
  ASSUME receipts \in Seq(Receipt), NEW i \in 1..Len(receipts),
         receipts' = [receipts EXCEPT ![i].status = "REVERSED"]
  PROVE  /\ receipts' \in Seq(Receipt) /\ Len(receipts') = Len(receipts)
         /\ \A k \in 1..Len(receipts) : k # i => receipts'[k] = receipts[k]
         /\ receipts'[i].status = "REVERSED"
         /\ \A k \in 1..Len(receipts) :
               /\ receipts'[k].quantity = receipts[k].quantity
               /\ receipts'[k].warehouse = receipts[k].warehouse
               /\ receipts'[k].order = receipts[k].order
<1> DEFINE x == [receipts[i] EXCEPT !.status = "REVERSED"]
<1>1. \A r \in Receipt :
         LET y == [r EXCEPT !.status = "REVERSED"]
         IN  /\ y \in Receipt /\ y.status = "REVERSED"
             /\ y.quantity = r.quantity /\ y.warehouse = r.warehouse
             /\ y.order = r.order
  BY DEF Receipt
<1>2. receipts[i] \in Receipt
  OBVIOUS
<1>3. /\ x \in Receipt /\ x.status = "REVERSED"
      /\ x.quantity = receipts[i].quantity
      /\ x.warehouse = receipts[i].warehouse
      /\ x.order = receipts[i].order
  BY <1>1, <1>2, Zenon
<1>4. receipts' = [receipts EXCEPT ![i] = x]
  OBVIOUS
<1> HIDE DEF x
<1>5. /\ receipts' \in Seq(Receipt) /\ Len(receipts') = Len(receipts)
      /\ receipts'[i] = x
      /\ \A k \in 1..Len(receipts) : k # i => receipts'[k] = receipts[k]
  BY <1>3, <1>4, UpdatedSeq
<1> QED
  BY <1>3, <1>5, Zenon

LEMMA ReverseReceiptAccounts ==
  ASSUME IInv, HInv, NEW s \in Sessions, NEW i \in 1..Len(receipts),
         ReverseReceipt(s, i)
  PROVE  HInv'
<1> DEFINE N == Len(ledger)
           N1 == Len(ledger')
           q == receipts[i].quantity
           w == receipts[i].warehouse
           O(l) == OriginalRow(i, l)
<1>1. /\ N \in Nat /\ N1 \in Nat /\ N1 >= N
      /\ \A j \in 1..N : ledger'[j] = ledger[j]
      /\ \A l \in LinesIn(q) : \E j \in (N + 1)..N1 : ledger'[j].item = l
      /\ \A j, h \in (N + 1)..N1 : ledger'[j].item = ledger'[h].item => j = h
  BY ReversalRows
<1>2. \A h \in (N + 1)..N1 :
         /\ ledger'[h].type = "PURCHASE_IN_REVERSAL"
         /\ ledger'[h].item \in LinesIn(q)
         /\ ledger'[h].reversed = O(ledger'[h].item)
         /\ ledger'[h].key = <<w, MaterialOf[ledger'[h].item]>>
         /\ ledger'[h].quantity = -q[ledger'[h].item]
         /\ ledger'[h].unit_cost = ledger[O(ledger'[h].item)].unit_cost
         /\ ledger'[h].amount = -ledger[O(ledger'[h].item)].amount
  BY ReversalRows
<1>3. \A l \in LinesIn(q) : O(l) \in 1..N /\ IsOriginal(O(l), i, l)
  BY ReversalMovesType
<1>4. receipts \in Seq(Receipt)
      /\ receipts' = [receipts EXCEPT ![i].status = "REVERSED"]
      /\ receipts[i].status = "POSTED"
  BY DEF IInv, DocsOK, ReverseReceipt, ClaimOK
<1>5. /\ Len(receipts') = Len(receipts) /\ receipts'[i].status = "REVERSED"
      /\ \A k \in 1..Len(receipts) : k # i => receipts'[k] = receipts[k]
      /\ \A k \in 1..Len(receipts) :
            /\ receipts'[k].quantity = receipts[k].quantity
            /\ receipts'[k].warehouse = receipts[k].warehouse
  BY <1>4, ReversedReceipt
<1>6. \A j \in 1..N1 : j \in 1..N \/ j \in (N + 1)..N1
  BY <1>1
<1>7. \A j \in 1..N : j \in 1..N1
  BY <1>1
<1>8. \A j \in (N + 1)..N1 : j \in 1..N1
  BY <1>1
<1> HIDE DEF N, N1, O, q, w
<1>9. \A j \in 1..N1 : ledger'[j].type = "PURCHASE_IN"
         => j \in 1..N /\ ledger'[j] = ledger[j]
  BY <1>1, <1>2, <1>6
<1>10. OriginalsOK'
  <2> SUFFICES ASSUME NEW j \in 1..N1, ledger'[j].type = "PURCHASE_IN"
               PROVE  /\ ledger'[j].source \in 1..Len(receipts)
                      /\ ledger'[j].item
                            \in LinesIn(receipts'[ledger'[j].source].quantity)
                      /\ ledger'[j].reversed = 0
                      /\ ledger'[j].key
                            = <<receipts'[ledger'[j].source].warehouse,
                                MaterialOf[ledger'[j].item]>>
                      /\ ledger'[j].quantity
                            = receipts'[ledger'[j].source].quantity[ledger'[j].item]
                      /\ ledger'[j].amount
                            = LineAmount(ledger'[j].quantity,
                                         PriceOf[ledger'[j].item])
    BY <1>5, Zenon DEF OriginalsOK, N1, LinesIn
  <2>1. j \in 1..N /\ ledger'[j] = ledger[j]
    BY <1>9
  <2>2. /\ ledger[j].source \in 1..Len(receipts)
        /\ ledger[j].item \in LinesIn(receipts[ledger[j].source].quantity)
        /\ ledger[j].reversed = 0
        /\ ledger[j].key = <<receipts[ledger[j].source].warehouse,
                             MaterialOf[ledger[j].item]>>
        /\ ledger[j].quantity
              = receipts[ledger[j].source].quantity[ledger[j].item]
        /\ ledger[j].amount
              = LineAmount(ledger[j].quantity, PriceOf[ledger[j].item])
    BY <2>1, Zenon DEF HInv, OriginalsOK, N
  <2>3. /\ receipts'[ledger[j].source].quantity = receipts[ledger[j].source].quantity
        /\ receipts'[ledger[j].source].warehouse = receipts[ledger[j].source].warehouse
    BY <1>5, <2>2
  <2> QED
    BY <2>1, <2>2, <2>3
<1>11. ReversalsOK'
  <2> SUFFICES ASSUME NEW h \in 1..N1, ledger'[h].type = "PURCHASE_IN_REVERSAL"
               PROVE  /\ ledger'[h].reversed \in 1..N1
                      /\ ledger'[ledger'[h].reversed].type = "PURCHASE_IN"
    BY DEF ReversalsOK, N1
  <2>1. CASE h \in 1..N
    <3>1. ledger'[h] = ledger[h]
      BY <1>1, <2>1
    <3>2. ledger[h].reversed \in 1..N /\ ledger[ledger[h].reversed].type = "PURCHASE_IN"
      BY <2>1, <3>1 DEF HInv, ReversalsOK, N
    <3>3. ledger'[ledger[h].reversed] = ledger[ledger[h].reversed]
      BY <1>1, <3>2
    <3> QED
      BY <1>7, <3>1, <3>2, <3>3
  <2>2. CASE h \in (N + 1)..N1
    <3>1. PICK l \in LinesIn(q) : ledger'[h].reversed = O(l)
      BY <1>2, <2>2
    <3>2. O(l) \in 1..N /\ ledger[O(l)].type = "PURCHASE_IN"
      BY <1>3 DEF IsOriginal
    <3>3. ledger'[O(l)] = ledger[O(l)]
      BY <1>1, <3>2
    <3> QED
      BY <1>7, <3>1, <3>2, <3>3
  <2> QED
    BY <1>6, <2>1, <2>2
<1>12. AllAccounted'
  <2> SUFFICES ASSUME NEW k \in 1..Len(receipts),
                      NEW l \in LinesIn(receipts[k].quantity)
               PROVE  \E j \in 1..N1 : Accounted(j, k, l)'
    BY <1>5, Zenon DEF AllAccounted, N1, LinesIn
  <2>1. PICK j \in 1..N : Accounted(j, k, l)
    BY DEF HInv, AllAccounted, N
  <2>2. IsOriginal(j, k, l)' /\ ledger'[j] = ledger[j]
    BY <1>1, <2>1, Zenon DEF Accounted, IsOriginal
  <2>3. \A h \in 1..N1 : IsOriginal(h, k, l)' => h = j
    BY <1>9, <2>1, Zenon DEF Accounted, IsOriginal, N
  <2>4. \A h \in (N + 1)..N1 : ledger'[h].reversed = j
           => k = i /\ ledger'[h].item = l
    <3> TAKE h \in (N + 1)..N1
    <3> HAVE ledger'[h].reversed = j
    <3> DEFINE m == ledger'[h].item
    <3>1. m \in LinesIn(q) /\ O(m) = j
      BY <1>2
    <3> HIDE DEF m
    <3>2. IsOriginal(j, i, m)
      BY <1>3, <3>1
    <3> QED
      BY <2>1, <3>2 DEF Accounted, IsOriginal, m
  <2>5. CASE k # i
    <3>1. receipts'[k] = receipts[k]
      BY <1>5, <2>5
    <3>2. \A h \in 1..N1 : ledger'[h].reversed = j
             => h \in 1..N /\ ledger[h].reversed = j
      BY <1>1, <1>6, <2>4, <2>5, Zenon
    <3>3. \A h \in 1..N : Cancels(h, j) => Cancels(h, j)'
      BY <1>1, <2>1 DEF Cancels
    <3>4. receipts'[k].status = "POSTED" => \A h \in 1..N1 : ledger'[h].reversed # j
      BY <2>1, <3>1, <3>2, Zenon DEF Accounted, N
    <3>5. ASSUME receipts'[k].status = "REVERSED"
          PROVE  \E h \in 1..N1 :
                    /\ Cancels(h, j)'
                    /\ \A g \in 1..N1 : ledger'[g].reversed = j => g = h
      <4>1. PICK h \in 1..N :
                    /\ Cancels(h, j)
                    /\ \A g \in 1..N : ledger[g].reversed = j => g = h
        BY <2>1, <3>1, <3>5, Zenon DEF Accounted, N
      <4> QED
        BY <1>7, <3>2, <3>3, <4>1, Zenon
    <3>6. Accounted(j, k, l)'
      BY <2>2, <2>3, <3>4, <3>5, Zenon DEF Accounted, N1
    <3> QED
      BY <1>7, <3>6
  <2>6. CASE k = i
    <3>1. l \in LinesIn(q)
      BY <2>6 DEF q
    <3>2. O(l) = j
      BY <1>3, <2>1, <2>6, <3>1 DEF Accounted, N
    <3>3. PICK h \in (N + 1)..N1 : ledger'[h].item = l
      BY <1>1, <3>1
    <3>4. ledger[j].key = <<w, MaterialOf[l]>> /\ ledger[j].quantity = q[l]
      <4>1. /\ ledger[j].type = "PURCHASE_IN" /\ ledger[j].source = i
            /\ ledger[j].item = l
        BY <2>1, <2>6 DEF Accounted, IsOriginal
      <4> QED
        BY <2>1, <4>1, Zenon DEF HInv, OriginalsOK, N, q, w
    <3>5. /\ ledger'[h].reversed = j /\ ledger'[h].key = <<w, MaterialOf[l]>>
          /\ ledger'[h].quantity = -q[l]
          /\ ledger'[h].unit_cost = ledger[j].unit_cost
          /\ ledger'[h].amount = -ledger[j].amount
      BY <1>2, <3>2, <3>3
    <3>6. Cancels(h, j)'
      BY <2>2, <3>4, <3>5 DEF Cancels
    <3>7. \A g \in 1..N : ledger[g].reversed # j
      BY <1>4, <2>1, <2>6 DEF Accounted, N
    <3>8. ASSUME NEW g \in 1..N1, ledger'[g].reversed = j PROVE g = h
      <4>1. g \in (N + 1)..N1
        BY <1>1, <1>6, <3>7, <3>8
      <4> QED
        BY <1>1, <2>4, <3>3, <3>8, <4>1
    <3>9. receipts'[k].status = "REVERSED"
      BY <1>5, <2>6
    <3>10. Accounted(j, k, l)'
      BY <1>8, <2>2, <2>3, <3>3, <3>6, <3>8, <3>9, Zenon DEF Accounted, N1
    <3> QED
      BY <1>7, <3>10
  <2> QED
    BY <2>5, <2>6
<1>13. CountsCancelNothing'
  <2> SUFFICES ASSUME NEW h \in 1..N1, ledger'[h].type \in CountTypes
               PROVE  ledger'[h].reversed = 0
    BY DEF CountsCancelNothing, CountRows, CountTypes, N1
  <2>1. h \in 1..N /\ ledger'[h] = ledger[h]
    BY <1>1, <1>2, <1>6 DEF CountTypes
  <2> QED
    BY <2>1 DEF HInv, CountsCancelNothing, CountRows, N
<1> QED
  BY <1>10, <1>11, <1>12, <1>13 DEF HInv

\* approve_reconciliation adds one row, which is nobody's original and cancels
\* nothing.
LEMMA CountAccounts ==
  ASSUME IInv, HInv, NEW s \in Sessions, NEW k \in Keys, NEW n \in Nat,
         NEW rate \in CountRates, PostCount(s, k, n, rate)
  PROVE  HInv'
<1> DEFINE N == Len(ledger)
<1>1. PICK m \in Row : /\ <<m>> \in Seq(Row) /\ Posted(<<m>>)
                      /\ m.type \in CountTypes /\ m.reversed = 0
  BY CountIsPosted
<1>2. /\ N \in Nat /\ Len(ledger') = N + 1 /\ ledger'[N + 1].type = m.type
      /\ ledger'[N + 1].reversed = 0 /\ receipts' = receipts
      /\ \A j \in 1..N : ledger'[j] = ledger[j]
  <2>1. StockTypeOK
    BY DEF IInv, StockInv
  <2>2. /\ N \in Nat /\ Len(ledger') = N + 1
        /\ \A j \in 1..N : ledger'[j] = ledger[j]
        /\ SameMove(ledger'[N + 1], m)
    BY <1>1, <2>1, CountRow
  <2> QED
    BY <1>1, <2>2 DEF SameMove, PostCount, documents
<1> HIDE DEF N
<1>3. /\ \A j \in 1..(N + 1) : j \in 1..N \/ j = N + 1
      /\ \A j \in 1..N : j \in 1..(N + 1) /\ j # 0
      /\ N + 1 \in 1..(N + 1)
  BY <1>2
<1>4. ledger'[N + 1].type \notin {"PURCHASE_IN", "PURCHASE_IN_REVERSAL"}
  BY <1>1, <1>2 DEF CountTypes
<1>5. OriginalsOK'
  BY <1>2, <1>3, <1>4, Zenon DEF HInv, OriginalsOK, LinesIn, N
<1>6. ReversalsOK'
  BY <1>2, <1>3, <1>4, Zenon DEF HInv, ReversalsOK, N
<1>7. CountsCancelNothing'
  BY <1>2, <1>3, Zenon DEF HInv, CountsCancelNothing, CountRows, CountTypes, N
<1>8. AllAccounted'
  <2> SUFFICES ASSUME NEW i \in 1..Len(receipts), NEW l \in LinesIn(receipts[i].quantity)
               PROVE  \E j \in 1..(N + 1) : Accounted(j, i, l)'
    BY <1>2, Zenon DEF AllAccounted, LinesIn
  <2>1. PICK j \in 1..N : Accounted(j, i, l)
    BY DEF HInv, AllAccounted, N
  <2>2. IsOriginal(j, i, l)' /\ \A h \in 1..(N + 1) : IsOriginal(h, i, l)' => h = j
    BY <1>2, <1>3, <1>4, <2>1, Zenon DEF Accounted, IsOriginal, N
  <2>3. \A h \in 1..(N + 1) : ledger'[h].reversed = j
           => h \in 1..N /\ ledger[h].reversed = j
    BY <1>2, <1>3, Zenon
  <2>4. \A h \in 1..N : Cancels(h, j) => Cancels(h, j)'
    BY <1>2, <2>1 DEF Cancels
  <2>5. receipts'[i].status = "POSTED" => \A h \in 1..(N + 1) : ledger'[h].reversed # j
    BY <1>2, <2>1, <2>3, Zenon DEF Accounted, N
  <2>6. ASSUME receipts'[i].status = "REVERSED"
        PROVE  \E h \in 1..(N + 1) :
                  /\ Cancels(h, j)'
                  /\ \A g \in 1..(N + 1) : ledger'[g].reversed = j => g = h
    <3>1. PICK h \in 1..N : /\ Cancels(h, j)
                           /\ \A g \in 1..N : ledger[g].reversed = j => g = h
      BY <1>2, <2>1, <2>6, Zenon DEF Accounted, N
    <3> QED
      BY <1>3, <2>3, <2>4, <3>1, Zenon
  <2>7. Accounted(j, i, l)'
    BY <1>2, <2>2, <2>5, <2>6, Zenon DEF Accounted
  <2> QED
    BY <1>3, <2>7
<1> QED
  BY <1>5, <1>6, <1>7, <1>8 DEF HInv

LEMMA InitHInv == Init => HInv
<1> SUFFICES ASSUME Init PROVE HInv
  OBVIOUS
<1>1. ledger = << >> /\ receipts = << >>
  BY DEF Init, StockInit
<1>2. 1..Len(ledger) = {} /\ 1..Len(receipts) = {}
  BY <1>1
<1> QED
  BY <1>2, Zenon DEF HInv, OriginalsOK, ReversalsOK, AllAccounted,
                     CountsCancelNothing, CountRows

LEMMA NextHInv == IInv /\ HInv /\ [Next]_vars => HInv'
<1> SUFFICES ASSUME IInv, HInv, [Next]_vars PROVE HInv'
  OBVIOUS
<1>1. CASE UNCHANGED <<ledger, receipts>>
  BY <1>1, HistoryUnchanged
<1>2. ASSUME NEW s \in Sessions, NEW o \in Orders, NEW w \in Warehouses,
             NEW q \in ReceiptRequests(o), CreateReceipt(s, o, w, q)
      PROVE  HInv'
  BY <1>2, CreateReceiptAccounts
<1>3. ASSUME NEW s \in Sessions, NEW i \in 1..Len(receipts),
             ReverseReceipt(s, i)
      PROVE  HInv'
  BY <1>3, ReverseReceiptAccounts
<1>5. ASSUME NEW s \in Sessions, NEW k \in Keys, NEW n \in 0..MaxQuantity,
             NEW rate \in CountRates, PostCount(s, k, n, rate)
      PROVE  HInv'
  <2>1. n \in Nat
    OBVIOUS
  <2> QED
    BY <1>5, <2>1, CountAccounts
<1>4. \/ UNCHANGED <<ledger, receipts>>
      \/ \E s \in Sessions, o \in Orders, w \in Warehouses :
            \E q \in ReceiptRequests(o) : CreateReceipt(s, o, w, q)
      \/ \E s \in Sessions : \E i \in 1..Len(receipts) : ReverseReceipt(s, i)
      \/ \E s \in Sessions, k \in Keys, n \in 0..MaxQuantity, rate \in CountRates :
            PostCount(s, k, n, rate)
  <2>1. CASE UNCHANGED vars
    BY <2>1 DEF vars, documents
  <2>2. CASE Next
    BY <2>2 DEF Next, Begin, Rollback, DisableWarehouse, EnableWarehouse,
           DisableMaterial, EnableMaterial, DisableSupplier, EnableSupplier,
           Disable, Enable, CreatePo, ConfirmPo, CancelPo, CancelPr,
           documents, stockVars
  <2> QED
    BY <2>1, <2>2
<1> QED
  BY <1>1, <1>2, <1>3, <1>4, <1>5

\* Whatever reversals race, a receipt is undone at most once and at its own
\* amounts: each of its lines has one original ledger row, and that row has
\* one exact negation if the receipt is reversed and none if it is not
\* (create_receipt, reverse_receipt and its claiming compare-and-set).
THEOREM ReversalsAreExact == Spec => []ReversedExactlyOnce
<1>1. Init => IInv /\ HInv
  BY InitIInv, InitHInv
<1>2. IInv /\ HInv /\ [Next]_vars => (IInv /\ HInv)'
  BY NextIInv, NextHInv
<1>3. HInv => ReversedExactlyOnce
  BY AccountedIsReversedOnce DEF HInv
<1> QED
  BY <1>1, <1>2, <1>3, PTL DEF Spec

-----------------------------------------------------------------------------
(* Totals over the posted receipts *)

\* What the posted receipts among rs measure, mu being a measure of a receipt.
PostedTotal(rs, mu) ==
    SumUpTo([i \in 1..Len(rs) |-> IF rs[i].status = "POSTED" THEN mu[rs[i]]
                                  ELSE 0], Len(rs))

LEMMA PostedTotalType ==
  ASSUME NEW rs \in Seq(Receipt), NEW mu \in [Receipt -> Nat]
  PROVE  /\ PostedTotal(rs, mu) \in Nat
         /\ \A i \in 1..Len(rs) : rs[i].status = "POSTED"
               => mu[rs[i]] <= PostedTotal(rs, mu)
<1> DEFINE f == [i \in 1..Len(rs) |-> IF rs[i].status = "POSTED"
                                      THEN mu[rs[i]] ELSE 0]
           n == Len(rs)
<1>1. n \in Nat /\ \A i \in 1..n : rs[i] \in Receipt
  OBVIOUS
<1>2. \A i \in 1..n : /\ f[i] \in Nat
                      /\ rs[i].status = "POSTED" => f[i] = mu[rs[i]]
  BY <1>1
<1>3. PostedTotal(rs, mu) = SumUpTo(f, n)
  BY DEF PostedTotal
<1> HIDE DEF f, n
<1>4. SumUpTo(f, n) \in Nat
  BY <1>1, <1>2, SumNat
<1>5. \A i \in 1..n : f[i] <= SumUpTo(f, n)
  BY <1>1, <1>2, SumBound
<1> QED
  BY <1>2, <1>3, <1>4, <1>5 DEF n

\* A posted receipt is added.
LEMMA PostedAppend ==
  ASSUME NEW rs \in Seq(Receipt), NEW mu \in [Receipt -> Nat],
         NEW x \in Receipt, x.status = "POSTED"
  PROVE  PostedTotal(Append(rs, x), mu) = PostedTotal(rs, mu) + mu[x]
<1> DEFINE b == Append(rs, x)
           n == Len(rs)
           F(s) == [i \in 1..Len(s) |-> IF s[i].status = "POSTED"
                                        THEN mu[s[i]] ELSE 0]
<1>1. /\ b \in Seq(Receipt) /\ n \in Nat /\ Len(b) = n + 1 /\ b[n + 1] = x
      /\ \A i \in 1..n : b[i] = rs[i]
  BY AppendedSeq
<1> HIDE DEF b
<1>2. \A i \in 1..Len(b) : b[i] \in Receipt
  BY <1>1
<1> HIDE DEF n
<1>3. (\A i \in 1..n : i \in 1..(n + 1)) /\ n + 1 \in 1..(n + 1)
  BY <1>1
<1>4. /\ \A i \in 1..(n + 1) :
            F(b)[i] = IF b[i].status = "POSTED" THEN mu[b[i]] ELSE 0
      /\ \A i \in 1..n :
            F(rs)[i] = IF rs[i].status = "POSTED" THEN mu[rs[i]] ELSE 0
  BY <1>1 DEF n
<1>5. /\ PostedTotal(b, mu) = SumUpTo(F(b), n + 1)
      /\ PostedTotal(rs, mu) = SumUpTo(F(rs), n)
  BY <1>1 DEF PostedTotal, n
<1> HIDE DEF F
<1>6. IntTerms(F(b), n + 1) /\ IntTerms(F(b), n)
  <2>1. \A i \in 1..(n + 1) : mu[b[i]] \in Nat
    BY <1>1, <1>2
  <2>2. \A i \in 1..(n + 1) : F(b)[i] \in Int
    BY <1>4, <2>1
  <2> QED
    BY <1>3, <2>2 DEF IntTerms
<1>7. SameTerms(F(b), F(rs), n)
  BY <1>1, <1>3, <1>4 DEF SameTerms
<1>8. SumUpTo(F(b), n + 1) = SumUpTo(F(b), n) + F(b)[n + 1]
  BY <1>1, <1>6, SumStep
<1>9. SumUpTo(F(b), n) = SumUpTo(F(rs), n)
  BY <1>1, <1>6, <1>7, SumCongruence
<1>10. F(b)[n + 1] = mu[x]
  BY <1>1, <1>3, <1>4
<1> QED
  BY <1>5, <1>8, <1>9, <1>10 DEF b

\* A posted receipt is reversed.
LEMMA PostedReverse ==
  ASSUME NEW rs \in Seq(Receipt), NEW mu \in [Receipt -> Nat],
         NEW r \in 1..Len(rs), rs[r].status = "POSTED",
         NEW b \in Seq(Receipt), Len(b) = Len(rs), b[r].status = "REVERSED",
         \A i \in 1..Len(rs) : i # r => b[i] = rs[i]
  PROVE  PostedTotal(b, mu) = PostedTotal(rs, mu) - mu[rs[r]]
<1> DEFINE n == Len(rs)
           F(s) == [i \in 1..Len(s) |-> IF s[i].status = "POSTED"
                                        THEN mu[s[i]] ELSE 0]
<1>1. /\ n \in Nat /\ r \in 1..n
      /\ \A i \in 1..n : /\ rs[i] \in Receipt /\ b[i] \in Receipt
                         /\ i # r => b[i] = rs[i]
  OBVIOUS
<1>2. \A i \in 1..n :
         /\ F(b)[i] = IF b[i].status = "POSTED" THEN mu[b[i]] ELSE 0
         /\ F(rs)[i] = IF rs[i].status = "POSTED" THEN mu[rs[i]] ELSE 0
  OBVIOUS
<1>3. /\ PostedTotal(b, mu) = SumUpTo(F(b), n)
      /\ PostedTotal(rs, mu) = SumUpTo(F(rs), n)
  BY DEF PostedTotal
<1> HIDE DEF n, F
<1>4. IntTerms(F(b), n) /\ IntTerms(F(rs), n) /\ DiffersAt(F(rs), F(b), n, r)
  <2>1. \A i \in 1..n : mu[b[i]] \in Nat /\ mu[rs[i]] \in Nat
    BY <1>1
  <2>2. ASSUME NEW i \in 1..n PROVE F(b)[i] \in Nat /\ F(rs)[i] \in Nat
    <3>1. /\ F(b)[i] = IF b[i].status = "POSTED" THEN mu[b[i]] ELSE 0
          /\ F(rs)[i] = IF rs[i].status = "POSTED" THEN mu[rs[i]] ELSE 0
      BY <1>2
    <3>2. mu[b[i]] \in Nat /\ mu[rs[i]] \in Nat
      BY <2>1
    <3> QED
      BY <3>1, <3>2
  <2>3. \A i \in 1..n : F(b)[i] \in Int /\ F(rs)[i] \in Int
    BY <2>2
  <2>4. ASSUME NEW i \in 1..n, i # r PROVE F(b)[i] = F(rs)[i]
    BY <1>1, <1>2, <2>4, Zenon
  <2> QED
    BY <2>3, <2>4, Zenon DEF IntTerms, DiffersAt
<1>5. F(b)[r] = 0 /\ F(rs)[r] = mu[rs[r]] /\ mu[rs[r]] \in Nat
  BY <1>1, <1>2
<1>6. SumUpTo(F(b), n) = SumUpTo(F(rs), n) + (F(b)[r] - F(rs)[r])
  BY <1>1, <1>4, SumChange
<1>7. SumUpTo(F(rs), n) \in Int
  BY <1>1, <1>4, SumType
<1> QED
  BY <1>3, <1>5, <1>6, <1>7

-----------------------------------------------------------------------------
(* Totals over the rows of counts *)

\* What the count rows of key k among rows measure, mu being a measure of a row.
CountedTotal(rows, k, mu) ==
    SumUpTo([j \in 1..Len(rows) |->
                IF rows[j].type \in CountTypes /\ rows[j].key = k THEN mu[rows[j]] ELSE 0],
            Len(rows))

RowGoods == [r \in Row |-> r.quantity]
RowWorth == [r \in Row |-> r.amount]

LEMMA RowMeasures == RowGoods \in [Row -> Int] /\ RowWorth \in [Row -> Int]
  BY DEF RowGoods, RowWorth, Row

LEMMA CountedType ==
  ASSUME NEW rows \in Seq(Row), NEW k, NEW mu \in [Row -> Int]
  PROVE  /\ CountedTotal(rows, k, mu) \in Int
         /\ (\A j \in 1..Len(rows) : rows[j].type \in CountTypes => rows[j].key # k)
               => CountedTotal(rows, k, mu) = 0
         /\ Len(rows) = 1 /\ rows[1].type \in CountTypes
               => CountedTotal(rows, k, mu) = IF rows[1].key = k THEN mu[rows[1]] ELSE 0
<1> DEFINE n == Len(rows)
           f == [j \in 1..n |-> IF rows[j].type \in CountTypes /\ rows[j].key = k
                                THEN mu[rows[j]] ELSE 0]
<1>1. n \in Nat /\ \A j \in 1..n : rows[j] \in Row
  OBVIOUS
<1>2. \A j \in 1..n : f[j] \in Int
  BY <1>1
<1>3. CountedTotal(rows, k, mu) = SumUpTo(f, n)
  BY DEF CountedTotal
<1>4. ASSUME \A j \in 1..n : rows[j].type \in CountTypes => rows[j].key # k
      PROVE  \A j \in 1..n : f[j] = 0
  BY <1>4
<1>5. ASSUME n = 1, rows[1].type \in CountTypes
      PROVE  f[1] = IF rows[1].key = k THEN mu[rows[1]] ELSE 0
  BY <1>5
<1> HIDE DEF f, n
<1>6. IntTerms(f, n)
  BY <1>2 DEF IntTerms
<1>7. SumUpTo(f, n) \in Int
  BY <1>1, <1>6, SumType
<1>8. ASSUME n = 1 PROVE SumUpTo(f, n) = f[1]
  <2>1. SumUpTo(f, 0 + 1) = SumUpTo(f, 0) + f[0 + 1] /\ SumUpTo(f, 0) = 0
    BY <1>6, <1>8, SumStep, SumType
  <2>2. 0 + 1 = 1 /\ f[1] \in Int
    BY <1>2, <1>8
  <2> QED
    BY <1>8, <2>1, <2>2
<1> QED
  BY <1>1, <1>3, <1>4, <1>5, <1>7, <1>8, SumOfZeros DEF n

LEMMA CountedConcat ==
  ASSUME NEW a \in Seq(Row), NEW b \in Seq(Row), NEW k, NEW mu \in [Row -> Int]
  PROVE  CountedTotal(a \o b, k, mu) = CountedTotal(a, k, mu) + CountedTotal(b, k, mu)
<1> DEFINE c == a \o b
           m == Len(a)
           n == Len(b)
           F(s) == [j \in 1..Len(s) |-> IF s[j].type \in CountTypes /\ s[j].key = k
                                        THEN mu[s[j]] ELSE 0]
<1>1. /\ m \in Nat /\ n \in Nat /\ c \in Seq(Row) /\ Len(c) = m + n
      /\ \A j \in 1..m : c[j] = a[j]
      /\ \A j \in 1..n : c[m + j] = b[j]
  OBVIOUS
<1>2. \A j \in 1..(m + n) : F(c)[j] \in Int
  <2>1. \A j \in 1..(m + n) : c[j] \in Row
    BY <1>1
  <2> QED
    BY <1>1, <2>1
<1>3. \A j \in 1..m : j \in 1..(m + n)
  BY <1>1
<1>4. \A j \in 1..n : m + j \in 1..(m + n)
  BY <1>1
<1>5. \A j \in 1..m : F(c)[j] = F(a)[j]
  BY <1>1, <1>3
<1>6. \A j \in 1..n : F(b)[j] = F(c)[m + j]
  BY <1>1, <1>4
<1>7. /\ CountedTotal(c, k, mu) = SumUpTo(F(c), m + n)
      /\ CountedTotal(a, k, mu) = SumUpTo(F(a), m)
      /\ CountedTotal(b, k, mu) = SumUpTo(F(b), n)
  BY <1>1 DEF CountedTotal
<1> HIDE DEF F, c, m, n
<1>8. /\ IntTerms(F(c), m + n) /\ IntTerms(F(c), m)
      /\ SameTerms(F(c), F(a), m) /\ Follows(F(b), F(c), m, n)
  BY <1>2, <1>3, <1>5, <1>6 DEF IntTerms, SameTerms, Follows
<1>9. SumUpTo(F(c), m + n) = SumUpTo(F(c), m) + SumUpTo(F(b), n)
  BY <1>1, <1>8, SumShift
<1>10. SumUpTo(F(c), m) = SumUpTo(F(a), m)
  BY <1>1, <1>8, SumCongruence
<1> QED
  BY <1>7, <1>9, <1>10 DEF c

\* A posted batch without count rows.
LEMMA NothingCounted ==
  ASSUME StockTypeOK, NEW b \in Seq(Row), Posted(b), NEW k, NEW mu \in [Row -> Int],
         \A j \in (Len(ledger) + 1)..Len(ledger') : ledger'[j].type \notin CountTypes
  PROVE  CountedTotal(ledger', k, mu) = CountedTotal(ledger, k, mu)
<1>1. /\ ledger \in Seq(Row) /\ ledger' = ledger \o Rows(b) /\ Rows(b) \in Seq(Row)
      /\ Len(ledger) \in Nat /\ Len(Rows(b)) \in Nat
  BY RowsOfBatch DEF StockTypeOK, Posted
<1>2. ASSUME NEW p \in 1..Len(Rows(b)) PROVE Rows(b)[p].type \notin CountTypes
  <2>1. /\ Len(ledger) + p \in (Len(ledger) + 1)..Len(ledger')
        /\ ledger'[Len(ledger) + p] = Rows(b)[p]
    BY <1>1
  <2> QED
    BY <2>1
<1>3. CountedTotal(Rows(b), k, mu) = 0
  BY <1>1, <1>2, CountedType
<1>4. CountedTotal(ledger, k, mu) \in Int
  BY <1>1, CountedType
<1> QED
  BY <1>1, <1>3, <1>4, CountedConcat

-----------------------------------------------------------------------------
(* The stock is what the posted receipts and counts brought *)

\* What a receipt brings into key k, in quantity and in value.
GoodsIn(k) == [r \in Receipt |->
                  SumUpTo([l \in Lines |-> LineGoods(r, k, l)], LineCount)]
WorthIn(k) == [r \in Receipt |->
                  SumUpTo([l \in Lines |-> LineWorth(r, k, l)], LineCount)]

StockIsDocuments ==
    \A k \in Keys :
        /\ balance[k].quantity
              = PostedTotal(receipts, GoodsIn(k)) + CountedTotal(ledger, k, RowGoods)
        /\ balance[k].total_amount
              = PostedTotal(receipts, WorthIn(k)) + CountedTotal(ledger, k, RowWorth)

\* Amounts and quantities of a line.
LEMMA LineTypes ==
  ASSUME NEW r \in Receipt, NEW k, NEW l \in Lines
  PROVE  /\ r.quantity[l] \in Nat /\ PriceOf[l] \in Nat
         /\ LineAmount(r.quantity[l], PriceOf[l]) \in Nat
         /\ LineGoods(r, k, l) \in Nat /\ LineWorth(r, k, l) \in Nat
<1>1. r.quantity \in [Lines -> Nat]
  BY DEF Receipt
<1>2. r.quantity[l] \in Nat /\ PriceOf[l] \in Nat
  BY <1>1, ProcurementAssumption
<1>3. LineAmount(r.quantity[l], PriceOf[l]) \in Nat
  BY <1>2, CostType
<1> QED
  BY <1>2, <1>3 DEF LineGoods, LineWorth

LEMMA GoodsType ==
  ASSUME NEW k
  PROVE  GoodsIn(k) \in [Receipt -> Nat] /\ WorthIn(k) \in [Receipt -> Nat]
<1>1. LineCount \in Nat /\ Lines = 1..LineCount
  BY ProcurementAssumption DEF Lines
<1>2. ASSUME NEW r \in Receipt
      PROVE  /\ SumUpTo([l \in Lines |-> LineGoods(r, k, l)], LineCount) \in Nat
             /\ SumUpTo([l \in Lines |-> LineWorth(r, k, l)], LineCount) \in Nat
  <2> DEFINE f == [l \in Lines |-> LineGoods(r, k, l)]
             g == [l \in Lines |-> LineWorth(r, k, l)]
  <2>1. \A l \in 1..LineCount : f[l] \in Nat /\ g[l] \in Nat
    BY <1>1, LineTypes
  <2> HIDE DEF f, g
  <2>2. SumUpTo(f, LineCount) \in Nat /\ SumUpTo(g, LineCount) \in Nat
    BY <1>1, <2>1, SumNat
  <2> QED
    BY <2>2 DEF f, g
<1> QED
  BY <1>2 DEF GoodsIn, WorthIn

\* The batch of create_receipt moves the goods of the receipt.
LEMMA ReceiptTotals ==
  ASSUME NEW i \in Nat, NEW r \in Receipt, NEW k
  PROVE  LET b == ReceiptBatch(i, r.warehouse, r.quantity)
         IN  QuantityOf(b, k) = GoodsIn(k)[r] /\ AmountOf(b, k) = WorthIn(k)[r]
<1> DEFINE q == r.quantity
           w == r.warehouse
           mv == ReceiptMoves(i, w, q)
           b == ReceiptBatch(i, w, q)
           f == [l \in 1..LineCount |-> LineQuantity(mv, k, l)]
           g == [l \in 1..LineCount |-> LineValue(mv, k, l)]
<1>1. w \in Warehouses /\ q \in [Lines -> Nat]
  BY DEF Receipt
<1>2. /\ mv \in [LinesIn(q) -> Row] /\ LineCount \in Nat
      /\ b = InLineOrder(LineCount, mv) /\ Lines = 1..LineCount
  BY <1>1, ReceiptMovesType DEF Lines
<1>3. ASSUME NEW l \in Lines
      PROVE  /\ LineQuantity(mv, k, l) = LineGoods(r, k, l)
             /\ LineValue(mv, k, l) = LineWorth(r, k, l)
  <2>1. /\ DOMAIN mv = LinesIn(q)
        /\ l \in LinesIn(q) <=> q[l] > 0
    BY DEF ReceiptMoves, LinesIn
  <2>2. l \in LinesIn(q) => /\ mv[l].key = <<w, MaterialOf[l]>>
                            /\ mv[l].quantity = q[l]
                            /\ mv[l].amount = LineAmount(q[l], PriceOf[l])
    BY DEF ReceiptMoves, Movement
  <2> HIDE DEF mv
  <2> QED
    BY <2>1, <2>2 DEF LineQuantity, LineValue, LineGoods, LineWorth
<1>4. /\ f = [l \in Lines |-> LineGoods(r, k, l)]
      /\ g = [l \in Lines |-> LineWorth(r, k, l)]
  BY <1>2, <1>3
<1> HIDE DEF mv, b
<1>5. QuantityOf(b, k) = SumUpTo(f, LineCount) /\ AmountOf(b, k) = SumUpTo(g, LineCount)
  BY <1>2, InLineOrderTotals
<1>6. /\ GoodsIn(k)[r] = SumUpTo([l \in Lines |-> LineGoods(r, k, l)], LineCount)
      /\ WorthIn(k)[r] = SumUpTo([l \in Lines |-> LineWorth(r, k, l)], LineCount)
  BY DEF GoodsIn, WorthIn
<1> QED
  BY <1>4, <1>5, <1>6 DEF b

\* The batch of reverse_receipt takes them back, at the same amounts.
LEMMA ReversalTotals ==
  ASSUME IInv, HInv, NEW s \in Sessions, NEW i \in 1..Len(receipts),
         ReverseReceipt(s, i), NEW k
  PROVE  /\ QuantityOf(ReversalBatch(i), k) = -GoodsIn(k)[receipts[i]]
         /\ AmountOf(ReversalBatch(i), k) = -WorthIn(k)[receipts[i]]
<1> DEFINE r == receipts[i]
           q == r.quantity
           w == r.warehouse
           mv == ReversalMoves(i)
           b == ReversalBatch(i)
           n == LineCount
           f == [l \in 1..n |-> LineQuantity(mv, k, l)]
           g == [l \in 1..n |-> LineValue(mv, k, l)]
           F == [l \in Lines |-> LineGoods(r, k, l)]
           G == [l \in Lines |-> LineWorth(r, k, l)]
<1>1. r \in Receipt
  BY DEF IInv, DocsOK
<1>2. /\ mv \in [LinesIn(q) -> Row] /\ n \in Nat
      /\ b = InLineOrder(n, mv) /\ Lines = 1..n
      /\ \A l \in LinesIn(q) : /\ OriginalRow(i, l) \in 1..Len(ledger)
                               /\ IsOriginal(OriginalRow(i, l), i, l)
  BY ReversalMovesType DEF Lines
<1>3. ASSUME NEW l \in LinesIn(q)
      PROVE  ledger[OriginalRow(i, l)].amount = LineAmount(q[l], PriceOf[l])
  <2> DEFINE j == OriginalRow(i, l)
  <2>1. j \in 1..Len(ledger) /\ IsOriginal(j, i, l)
    BY <1>2
  <2> HIDE DEF j
  <2>2. /\ ledger[j].type = "PURCHASE_IN" /\ ledger[j].source = i
        /\ ledger[j].item = l
    BY <2>1 DEF IsOriginal
  <2>3. /\ ledger[j].quantity = receipts[ledger[j].source].quantity[ledger[j].item]
        /\ ledger[j].amount
              = LineAmount(ledger[j].quantity, PriceOf[ledger[j].item])
    BY <2>1, <2>2, Zenon DEF HInv, OriginalsOK
  <2>4. ledger[j].amount = LineAmount(q[l], PriceOf[l])
    BY <2>2, <2>3, Zenon
  <2> QED
    BY <2>4 DEF j
<1>4. ASSUME NEW l \in Lines
      PROVE  /\ LineQuantity(mv, k, l) = -LineGoods(r, k, l)
             /\ LineValue(mv, k, l) = -LineWorth(r, k, l)
  <2>0. (\A x, y \in Int : x + y = 0 => x = -y) /\ 0 + 0 = 0 /\ 0 \in Int
    OBVIOUS
  <2>1. DOMAIN mv = LinesIn(q) /\ (l \in LinesIn(q) <=> q[l] > 0)
    BY DEF ReversalMoves, LinesIn
  <2>2. l \in LinesIn(q) => /\ mv[l].key = <<w, MaterialOf[l]>>
                            /\ mv[l].quantity = -q[l]
                            /\ mv[l].amount = -LineAmount(q[l], PriceOf[l])
    <3> HAVE l \in LinesIn(q)
    <3>1. /\ mv[l].key = <<w, MaterialOf[l]>> /\ mv[l].quantity = -q[l]
          /\ mv[l].amount = -ledger[OriginalRow(i, l)].amount
      BY DEF ReversalMoves, Movement
    <3> QED
      BY <1>3, <3>1
  <2> HIDE DEF mv, r
  <2>3. q[l] \in Nat /\ LineAmount(q[l], PriceOf[l]) \in Nat
    BY <1>1, LineTypes
  <2>4. CASE q[l] > 0 /\ <<w, MaterialOf[l]>> = k
    <3>1. /\ LineQuantity(mv, k, l) = -q[l]
          /\ LineValue(mv, k, l) = -LineAmount(q[l], PriceOf[l])
      BY <2>1, <2>2, <2>4, Zenon DEF LineQuantity, LineValue
    <3>2. /\ LineGoods(r, k, l) = q[l]
          /\ LineWorth(r, k, l) = LineAmount(q[l], PriceOf[l])
      BY <2>4, Zenon DEF LineGoods, LineWorth
    <3> QED
      BY <3>1, <3>2, Zenon
  <2>5. CASE ~(q[l] > 0 /\ <<w, MaterialOf[l]>> = k)
    <3>1. LineQuantity(mv, k, l) = 0 /\ LineValue(mv, k, l) = 0
      BY <2>1, <2>2, <2>5, Zenon DEF LineQuantity, LineValue
    <3>2. LineGoods(r, k, l) = 0 /\ LineWorth(r, k, l) = 0
      BY <2>5, Zenon DEF LineGoods, LineWorth
    <3> QED
      BY <2>0, <3>1, <3>2, Zenon
  <2> QED
    BY <2>4, <2>5
<1>5. \A l \in 1..n : LineGoods(r, k, l) \in Nat /\ LineWorth(r, k, l) \in Nat
  BY <1>1, <1>2, LineTypes
<1>6. \A l \in 1..n : /\ f[l] = LineQuantity(mv, k, l) /\ g[l] = LineValue(mv, k, l)
                      /\ F[l] = LineGoods(r, k, l) /\ G[l] = LineWorth(r, k, l)
  BY <1>2
<1>7. /\ GoodsIn(k)[r] = SumUpTo(F, n)
      /\ WorthIn(k)[r] = SumUpTo(G, n)
  BY <1>1 DEF GoodsIn, WorthIn
<1> HIDE DEF mv, b
<1>8. QuantityOf(b, k) = SumUpTo(f, n) /\ AmountOf(b, k) = SumUpTo(g, n)
  BY <1>2, InLineOrderTotals
<1> HIDE DEF f, g, F, G, r, n
<1>9. IntTerms(F, n) /\ IntTerms(G, n) /\ Negates(f, F, n) /\ Negates(g, G, n)
  <2>1. \A l \in 1..n : F[l] \in Nat /\ G[l] \in Nat
    BY <1>5, <1>6, Zenon
  <2>2. \A l \in 1..n : F[l] \in Int /\ G[l] \in Int
    BY <2>1
  <2>3. \A l \in 1..n : f[l] = -F[l] /\ g[l] = -G[l]
    BY <1>2, <1>4, <1>6, Zenon
  <2> QED
    BY <2>2, <2>3, Zenon DEF IntTerms, Negates
<1>10. SumUpTo(f, n) = -SumUpTo(F, n) /\ SumUpTo(g, n) = -SumUpTo(G, n)
  BY <1>2, <1>9, SumNegated
<1> QED
  BY <1>7, <1>8, <1>10 DEF b, r

LEMMA CreateReceiptStock ==
  ASSUME IInv, StockIsDocuments, NEW s \in Sessions, NEW o \in Orders,
         NEW w \in Warehouses, NEW q \in ReceiptRequests(o),
         CreateReceipt(s, o, w, q)
  PROVE  StockIsDocuments'
<1> DEFINE n == Len(receipts) + 1
           b == ReceiptBatch(n, w, q)
           new == [order |-> o, warehouse |-> w, quantity |-> q,
                   status |-> "POSTED"]
<1>1. /\ q \in [Lines -> Nat] /\ receipts \in Seq(Receipt) /\ n \in Nat
      /\ StockTypeOK
  BY DEF ReceiptRequests, IInv, DocsOK, StockInv
<1>2. PostInbound(b) /\ receipts' = Append(receipts, new)
  BY DEF CreateReceipt
<1>3. b \in Seq(Row) /\ Posted(b)
  BY <1>1, <1>2, ReceiptIsPosted
<1>4. /\ new \in Receipt /\ new.status = "POSTED" /\ new.warehouse = w
      /\ new.quantity = q
  BY <1>1 DEF Receipt
<1> HIDE DEF new, b
<1>6. \A j \in (Len(ledger) + 1)..Len(ledger') : ledger'[j].type \notin CountTypes
  BY ReceiptRows DEF CountTypes
<1>5. ASSUME NEW k \in Keys
      PROVE  /\ balance'[k].quantity = PostedTotal(receipts', GoodsIn(k))
                                          + CountedTotal(ledger', k, RowGoods)
             /\ balance'[k].total_amount = PostedTotal(receipts', WorthIn(k))
                                              + CountedTotal(ledger', k, RowWorth)
  <2>1. /\ balance'[k].quantity = balance[k].quantity + QuantityOf(b, k)
        /\ balance'[k].total_amount = balance[k].total_amount + AmountOf(b, k)
    BY <1>3 DEF Posted
  <2>2. QuantityOf(b, k) = GoodsIn(k)[new] /\ AmountOf(b, k) = WorthIn(k)[new]
    BY <1>1, <1>4, ReceiptTotals DEF b
  <2>3. GoodsIn(k) \in [Receipt -> Nat] /\ WorthIn(k) \in [Receipt -> Nat]
    BY GoodsType
  <2>4. /\ PostedTotal(receipts', GoodsIn(k))
              = PostedTotal(receipts, GoodsIn(k)) + GoodsIn(k)[new]
        /\ PostedTotal(receipts', WorthIn(k))
              = PostedTotal(receipts, WorthIn(k)) + WorthIn(k)[new]
    BY <1>1, <1>2, <1>4, <2>3, PostedAppend
  <2>5. /\ balance[k].quantity = PostedTotal(receipts, GoodsIn(k))
                                    + CountedTotal(ledger, k, RowGoods)
        /\ balance[k].total_amount = PostedTotal(receipts, WorthIn(k))
                                        + CountedTotal(ledger, k, RowWorth)
    BY DEF StockIsDocuments
  <2>6. /\ CountedTotal(ledger', k, RowGoods) = CountedTotal(ledger, k, RowGoods)
        /\ CountedTotal(ledger', k, RowWorth) = CountedTotal(ledger, k, RowWorth)
    BY <1>1, <1>3, <1>6, NothingCounted, RowMeasures
  <2>7. /\ GoodsIn(k)[new] \in Nat /\ WorthIn(k)[new] \in Nat
        /\ PostedTotal(receipts, GoodsIn(k)) \in Nat
        /\ PostedTotal(receipts, WorthIn(k)) \in Nat
        /\ CountedTotal(ledger, k, RowGoods) \in Int
        /\ CountedTotal(ledger, k, RowWorth) \in Int
    BY <1>1, <1>4, <2>3, PostedTotalType, CountedType, RowMeasures DEF StockTypeOK
  <2> DEFINE P == PostedTotal(receipts, GoodsIn(k))
             V == PostedTotal(receipts, WorthIn(k))
             C == CountedTotal(ledger, k, RowGoods)
             D == CountedTotal(ledger, k, RowWorth)
             g == GoodsIn(k)[new]
             v == WorthIn(k)[new]
  <2>8. /\ balance'[k].quantity = (P + C) + g
        /\ PostedTotal(receipts', GoodsIn(k)) + CountedTotal(ledger', k, RowGoods) = (P + g) + C
        /\ balance'[k].total_amount = (V + D) + v
        /\ PostedTotal(receipts', WorthIn(k)) + CountedTotal(ledger', k, RowWorth) = (V + v) + D
    BY <2>1, <2>2, <2>4, <2>5, <2>6, Zenon
  <2>9. /\ P \in Nat /\ V \in Nat /\ C \in Int /\ D \in Int /\ g \in Nat /\ v \in Nat
    BY <2>7
  <2> HIDE DEF P, V, C, D, g, v
  <2>10. (P + C) + g = (P + g) + C /\ (V + D) + v = (V + v) + D
    BY <2>9
  <2> QED
    BY <2>8, <2>10, Zenon
<1> QED
  BY <1>5 DEF StockIsDocuments, GoodsIn, WorthIn, RowGoods, RowWorth, CountedTotal

LEMMA ReverseReceiptStock ==
  ASSUME IInv, HInv, StockIsDocuments, NEW s \in Sessions,
         NEW i \in 1..Len(receipts), ReverseReceipt(s, i)
  PROVE  StockIsDocuments'
<1> DEFINE b == ReversalBatch(i)
<1>1. receipts \in Seq(Receipt) /\ StockTypeOK
  BY DEF IInv, DocsOK, StockInv
<1>2. /\ receipts' = [receipts EXCEPT ![i].status = "REVERSED"]
      /\ receipts[i].status = "POSTED"
  BY DEF ReverseReceipt, ClaimOK
<1>3. /\ receipts' \in Seq(Receipt) /\ Len(receipts') = Len(receipts)
      /\ \A h \in 1..Len(receipts) : h # i => receipts'[h] = receipts[h]
      /\ receipts'[i].status = "REVERSED"
  BY <1>1, <1>2, ReversedReceipt
<1>4. b \in Seq(Row) /\ Posted(b)
  BY ReversalIsPosted
<1>6. \A j \in (Len(ledger) + 1)..Len(ledger') : ledger'[j].type \notin CountTypes
  BY ReversalRows DEF CountTypes
<1> HIDE DEF b
<1>5. ASSUME NEW k \in Keys
      PROVE  /\ balance'[k].quantity = PostedTotal(receipts', GoodsIn(k))
                                          + CountedTotal(ledger', k, RowGoods)
             /\ balance'[k].total_amount = PostedTotal(receipts', WorthIn(k))
                                              + CountedTotal(ledger', k, RowWorth)
  <2> DEFINE g == GoodsIn(k)[receipts[i]]
             v == WorthIn(k)[receipts[i]]
  <2>1. /\ balance'[k].quantity = balance[k].quantity + QuantityOf(b, k)
        /\ balance'[k].total_amount = balance[k].total_amount + AmountOf(b, k)
    BY <1>4 DEF Posted
  <2>2. QuantityOf(b, k) = -g /\ AmountOf(b, k) = -v
    BY ReversalTotals DEF b
  <2>3. GoodsIn(k) \in [Receipt -> Nat] /\ WorthIn(k) \in [Receipt -> Nat]
    BY GoodsType
  <2>4. PostedTotal(receipts', GoodsIn(k)) = PostedTotal(receipts, GoodsIn(k)) - g
    BY <1>1, <1>2, <1>3, <2>3, PostedReverse
  <2>5. PostedTotal(receipts', WorthIn(k)) = PostedTotal(receipts, WorthIn(k)) - v
    BY <1>1, <1>2, <1>3, <2>3, PostedReverse
  <2>6. /\ balance[k].quantity = PostedTotal(receipts, GoodsIn(k))
                                    + CountedTotal(ledger, k, RowGoods)
        /\ balance[k].total_amount = PostedTotal(receipts, WorthIn(k))
                                        + CountedTotal(ledger, k, RowWorth)
    BY DEF StockIsDocuments
  <2>7. /\ g \in Nat /\ v \in Nat
        /\ CountedTotal(ledger, k, RowGoods) \in Int
        /\ CountedTotal(ledger, k, RowWorth) \in Int
    BY <1>1, <2>3, CountedType, RowMeasures DEF StockTypeOK
  <2>8. PostedTotal(receipts, GoodsIn(k)) \in Nat
        /\ PostedTotal(receipts, WorthIn(k)) \in Nat
    BY <1>1, <2>3, PostedTotalType
  <2>9. /\ CountedTotal(ledger', k, RowGoods) = CountedTotal(ledger, k, RowGoods)
        /\ CountedTotal(ledger', k, RowWorth) = CountedTotal(ledger, k, RowWorth)
    BY <1>1, <1>4, <1>6, NothingCounted, RowMeasures
  <2> DEFINE P == PostedTotal(receipts, GoodsIn(k))
             V == PostedTotal(receipts, WorthIn(k))
             C == CountedTotal(ledger, k, RowGoods)
             D == CountedTotal(ledger, k, RowWorth)
  <2> HIDE DEF g, v
  <2>10. /\ balance'[k].quantity = (P + C) + (-g)
         /\ PostedTotal(receipts', GoodsIn(k)) + CountedTotal(ledger', k, RowGoods)
               = (P - g) + C
         /\ balance'[k].total_amount = (V + D) + (-v)
         /\ PostedTotal(receipts', WorthIn(k)) + CountedTotal(ledger', k, RowWorth)
               = (V - v) + D
    BY <2>1, <2>2, <2>4, <2>5, <2>6, <2>9, Zenon
  <2>11. /\ P \in Nat /\ V \in Nat /\ C \in Int /\ D \in Int
    BY <2>7, <2>8
  <2> HIDE DEF P, V, C, D
  <2>12. (P + C) + (-g) = (P - g) + C /\ (V + D) + (-v) = (V - v) + D
    BY <2>7, <2>11
  <2> QED
    BY <2>10, <2>12, Zenon
<1> QED
  BY <1>5 DEF StockIsDocuments, GoodsIn, WorthIn, RowGoods, RowWorth, CountedTotal

LEMMA PostCountStock ==
  ASSUME IInv, StockIsDocuments, NEW s \in Sessions, NEW c \in Keys, NEW n \in Nat,
         NEW rate \in CountRates, PostCount(s, c, n, rate)
  PROVE  StockIsDocuments'
<1>1. PICK m \in Row : /\ <<m>> \in Seq(Row) /\ Posted(<<m>>)
                      /\ m.type \in CountTypes /\ m.reversed = 0
  BY CountIsPosted
<1>2. /\ receipts' = receipts /\ receipts \in Seq(Receipt) /\ StockTypeOK
  BY DEF PostCount, documents, IInv, DocsOK, StockInv
<1> DEFINE b == <<m>>
           r == Rows(b)
<1>3. b = Append(<< >>, m) /\ << >> \in Seq(Row) /\ Len(b) = 1 /\ b[1] = m
  OBVIOUS
<1>4. /\ r \in Seq(Row) /\ Len(r) = 1 /\ r[1] \in Row
      /\ r[1].key = m.key /\ r[1].quantity = m.quantity /\ r[1].amount = m.amount
      /\ r[1].type = m.type
  <2> HIDE DEF b
  <2>1. b \in Seq(Row) /\ Posted(b)
    BY <1>1 DEF b
  <2>2. r \in Seq(Row) /\ Len(r) = Len(b)
    BY <1>2, <2>1, RowsOfBatch, Zenon
  <2>3. r[1] = [b[1] EXCEPT !.balance_after = BalanceAfter(b, 1)]
    BY <1>3 DEF Rows
  <2> HIDE DEF r
  <2>4. Len(r) = 1 /\ r[1] \in Row
    BY <1>3, <2>2
  <2>5. /\ r[1].key = m.key /\ r[1].quantity = m.quantity /\ r[1].amount = m.amount
        /\ r[1].type = m.type
    BY <1>3, <2>3 DEF Row
  <2> QED
    BY <2>2, <2>4, <2>5
<1>5. ledger' = ledger \o r /\ ledger \in Seq(Row)
  BY <1>1, <1>2 DEF Posted, StockTypeOK
<1>6. \A x \in Row : RowGoods[x] = x.quantity /\ RowWorth[x] = x.amount
  BY DEF RowGoods, RowWorth
<1> HIDE DEF r, b
<1>7. ASSUME NEW k \in Keys
      PROVE  /\ balance'[k].quantity = PostedTotal(receipts', GoodsIn(k))
                                          + CountedTotal(ledger', k, RowGoods)
             /\ balance'[k].total_amount = PostedTotal(receipts', WorthIn(k))
                                              + CountedTotal(ledger', k, RowWorth)
  <2> DEFINE g == IF m.key = k THEN m.quantity ELSE 0
             v == IF m.key = k THEN m.amount ELSE 0
  <2>1. /\ balance'[k].quantity = balance[k].quantity + QuantityOf(b, k)
        /\ balance'[k].total_amount = balance[k].total_amount + AmountOf(b, k)
    BY <1>1 DEF Posted, b
  <2>2. g \in Int /\ v \in Int
    BY DEF Row
  <2>3. QuantityOf(b, k) = g /\ AmountOf(b, k) = v
    <3>1. /\ QuantityOf(b, k) = QuantityOf(<< >>, k) + g
          /\ AmountOf(b, k) = AmountOf(<< >>, k) + v
      BY <1>3, AppendTotals
    <3>2. \A f : SumUpTo(f, 0) = 0
      <4>1. \A f : IntTerms(f, 0)
        BY DEF IntTerms
      <4> QED
        BY <4>1, SumType
    <3>3. QuantityOf(<< >>, k) = 0 /\ AmountOf(<< >>, k) = 0
      BY <3>2 DEF QuantityOf, AmountOf, QuantityUpTo, AmountUpTo
    <3> QED
      BY <2>2, <3>1, <3>3
  <2>4. /\ CountedTotal(r, k, RowGoods) = g
        /\ CountedTotal(r, k, RowWorth) = v
    <3>1. \A mu \in [Row -> Int] :
             CountedTotal(r, k, mu) = IF r[1].key = k THEN mu[r[1]] ELSE 0
      BY <1>1, <1>4, CountedType
    <3>2. RowGoods[r[1]] = m.quantity /\ RowWorth[r[1]] = m.amount
      BY <1>4, <1>6
    <3> QED
      BY <1>4, <3>1, <3>2, RowMeasures, Zenon
  <2>5. /\ CountedTotal(ledger', k, RowGoods) = CountedTotal(ledger, k, RowGoods) + g
        /\ CountedTotal(ledger', k, RowWorth) = CountedTotal(ledger, k, RowWorth) + v
    BY <1>4, <1>5, <2>4, CountedConcat, RowMeasures
  <2>6. GoodsIn(k) \in [Receipt -> Nat] /\ WorthIn(k) \in [Receipt -> Nat]
    BY GoodsType
  <2>7. /\ PostedTotal(receipts, GoodsIn(k)) \in Nat
        /\ PostedTotal(receipts, WorthIn(k)) \in Nat
        /\ CountedTotal(ledger, k, RowGoods) \in Int
        /\ CountedTotal(ledger, k, RowWorth) \in Int
    BY <1>2, <1>5, <2>6, PostedTotalType, CountedType, RowMeasures
  <2>8. /\ balance[k].quantity = PostedTotal(receipts, GoodsIn(k))
                                    + CountedTotal(ledger, k, RowGoods)
        /\ balance[k].total_amount = PostedTotal(receipts, WorthIn(k))
                                        + CountedTotal(ledger, k, RowWorth)
    BY DEF StockIsDocuments
  <2> DEFINE P == PostedTotal(receipts, GoodsIn(k))
             V == PostedTotal(receipts, WorthIn(k))
             C == CountedTotal(ledger, k, RowGoods)
             D == CountedTotal(ledger, k, RowWorth)
  <2> HIDE DEF g, v
  <2>9. /\ balance'[k].quantity = (P + C) + g
        /\ PostedTotal(receipts', GoodsIn(k)) + CountedTotal(ledger', k, RowGoods)
              = P + (C + g)
        /\ balance'[k].total_amount = (V + D) + v
        /\ PostedTotal(receipts', WorthIn(k)) + CountedTotal(ledger', k, RowWorth)
              = V + (D + v)
    BY <1>2, <2>1, <2>3, <2>5, <2>8, Zenon
  <2> HIDE DEF P, V, C, D
  <2>10. (P + C) + g = P + (C + g) /\ (V + D) + v = V + (D + v)
    BY <2>2, <2>7 DEF P, V, C, D
  <2> QED
    BY <2>9, <2>10, Zenon
<1> QED
  BY <1>7 DEF StockIsDocuments, GoodsIn, WorthIn, RowGoods, RowWorth, CountedTotal

LEMMA InitStockIsDocuments == Init => StockIsDocuments
<1> SUFFICES ASSUME Init, NEW k \in Keys
             PROVE  /\ balance[k].quantity = PostedTotal(receipts, GoodsIn(k))
                                                + CountedTotal(ledger, k, RowGoods)
                    /\ balance[k].total_amount = PostedTotal(receipts, WorthIn(k))
                                                    + CountedTotal(ledger, k, RowWorth)
  BY DEF StockIsDocuments
<1>1. receipts = << >> /\ Len(receipts) = 0 /\ ledger = << >> /\ Len(ledger) = 0
  BY DEF Init, StockInit
<1>2. balance[k].quantity = 0 /\ balance[k].total_amount = 0
  BY DEF Init, StockInit, EmptyBalance
<1>3. \A f : SumUpTo(f, 0) = 0
  <2>1. \A f : IntTerms(f, 0)
    BY DEF IntTerms
  <2> QED
    BY <2>1, SumType
<1>4. \A mu : PostedTotal(receipts, mu) = 0 /\ CountedTotal(ledger, k, mu) = 0
  BY <1>1, <1>3 DEF PostedTotal, CountedTotal
<1> QED
  BY <1>2, <1>4

\* What a step does to the receipts and the ledger.
LEMMA HistorySteps ==
  ASSUME [Next]_vars
  PROVE  \/ UNCHANGED <<receipts, stockVars>>
         \/ \E s \in Sessions, o \in Orders, w \in Warehouses :
               \E q \in ReceiptRequests(o) : CreateReceipt(s, o, w, q)
         \/ \E s \in Sessions : \E i \in 1..Len(receipts) : ReverseReceipt(s, i)
         \/ \E s \in Sessions, k \in Keys, n \in Nat, rate \in CountRates :
               PostCount(s, k, n, rate)
<1>1. CASE UNCHANGED vars
  BY <1>1 DEF vars, documents, stockVars
<1>2. CASE Next
  BY <1>2 DEF Next, Begin, Rollback, DisableWarehouse, EnableWarehouse,
         DisableMaterial, EnableMaterial, DisableSupplier, EnableSupplier,
         Disable, Enable, CreatePo, ConfirmPo, CancelPo, CancelPr,
         documents, stockVars
<1> QED
  BY <1>1, <1>2

LEMMA NextStockIsDocuments ==
  IInv /\ HInv /\ StockIsDocuments /\ [Next]_vars => StockIsDocuments'
<1> SUFFICES ASSUME IInv, HInv, StockIsDocuments, [Next]_vars
             PROVE  StockIsDocuments'
  OBVIOUS
<1>1. CASE UNCHANGED <<receipts, stockVars>>
  <2>1. receipts' = receipts /\ balance' = balance /\ ledger' = ledger
    BY <1>1 DEF stockVars
  <2>2. \A k \in Keys :
           /\ balance'[k].quantity = PostedTotal(receipts', GoodsIn(k))
                                        + CountedTotal(ledger', k, RowGoods)
           /\ balance'[k].total_amount = PostedTotal(receipts', WorthIn(k))
                                            + CountedTotal(ledger', k, RowWorth)
    BY <2>1, Zenon DEF StockIsDocuments
  <2> QED
    BY <2>2 DEF StockIsDocuments, GoodsIn, WorthIn, RowGoods, RowWorth, CountedTotal
<1>2. ASSUME NEW s \in Sessions, NEW o \in Orders, NEW w \in Warehouses,
             NEW q \in ReceiptRequests(o), CreateReceipt(s, o, w, q)
      PROVE  StockIsDocuments'
  BY <1>2, CreateReceiptStock
<1>3. ASSUME NEW s \in Sessions, NEW i \in 1..Len(receipts),
             ReverseReceipt(s, i)
      PROVE  StockIsDocuments'
  BY <1>3, ReverseReceiptStock
<1>4. ASSUME NEW s \in Sessions, NEW k \in Keys, NEW n \in Nat,
             NEW rate \in CountRates, PostCount(s, k, n, rate)
      PROVE  StockIsDocuments'
  BY <1>4, PostCountStock
<1> QED
  BY <1>1, <1>2, <1>3, <1>4, HistorySteps

LEMMA StockFollowsDocuments == Spec => [](IInv /\ HInv /\ StockIsDocuments)
<1>1. Init => IInv /\ HInv /\ StockIsDocuments
  BY InitIInv, InitHInv, InitStockIsDocuments
<1>2. IInv /\ HInv /\ StockIsDocuments /\ [Next]_vars
         => (IInv /\ HInv /\ StockIsDocuments)'
  BY NextIInv, NextHInv, NextStockIsDocuments
<1> QED
  BY <1>1, <1>2, PTL DEF Spec

\* If no goods are left under a key, no posted receipt has a line there, so
\* none has an amount there.
LEMMA NoGoodsNoWorth ==
  ASSUME receipts \in Seq(Receipt), NEW k,
         PostedTotal(receipts, GoodsIn(k)) = 0
  PROVE  PostedTotal(receipts, WorthIn(k)) = 0
<1>1. LineCount \in Nat /\ Lines = 1..LineCount
  BY ProcurementAssumption DEF Lines
<1>2. GoodsIn(k) \in [Receipt -> Nat] /\ WorthIn(k) \in [Receipt -> Nat]
  BY GoodsType
<1>3. ASSUME NEW r \in Receipt, GoodsIn(k)[r] = 0 PROVE WorthIn(k)[r] = 0
  <2> DEFINE f == [l \in Lines |-> LineGoods(r, k, l)]
             g == [l \in Lines |-> LineWorth(r, k, l)]
  <2>1. SumUpTo(f, LineCount) = 0 /\ WorthIn(k)[r] = SumUpTo(g, LineCount)
    BY <1>3 DEF GoodsIn, WorthIn
  <2>2. \A l \in 1..LineCount : /\ f[l] = LineGoods(r, k, l) /\ f[l] \in Nat
                                /\ g[l] = LineWorth(r, k, l)
    BY <1>1, LineTypes
  <2> HIDE DEF f, g
  <2>3. \A l \in 1..LineCount : f[l] <= SumUpTo(f, LineCount)
    BY <1>1, <2>2, SumBound
  <2>4. \A l \in 1..LineCount : LineGoods(r, k, l) = 0
    BY <2>1, <2>2, <2>3
  <2>5. ASSUME NEW l \in 1..LineCount PROVE LineWorth(r, k, l) = 0
    <3>1. LineGoods(r, k, l) = 0 /\ r.quantity[l] \in Nat
      BY <1>1, <2>4, LineTypes
    <3>2. \A x \in Nat : x > 0 => x # 0
      OBVIOUS
    <3> QED
      BY <3>1, <3>2, Zenon DEF LineGoods, LineWorth
  <2>6. SumUpTo(g, LineCount) = 0
    BY <1>1, <2>2, <2>5, SumOfZeros
  <2> QED
    BY <2>1, <2>6
<1> DEFINE n == Len(receipts)
           h == [i \in 1..n |-> IF receipts[i].status = "POSTED"
                                THEN WorthIn(k)[receipts[i]] ELSE 0]
<1>4. n \in Nat /\ \A i \in 1..n : receipts[i] \in Receipt
  OBVIOUS
<1>5. ASSUME NEW i \in 1..n PROVE h[i] = 0
  <2>1. CASE receipts[i].status = "POSTED"
    <3>1. GoodsIn(k)[receipts[i]] <= PostedTotal(receipts, GoodsIn(k))
      BY <1>2, <2>1, PostedTotalType
    <3>2. GoodsIn(k)[receipts[i]] \in Nat
      BY <1>2, <1>4
    <3>3. GoodsIn(k)[receipts[i]] = 0
      BY <3>1, <3>2
    <3>4. WorthIn(k)[receipts[i]] = 0
      BY <1>3, <1>4, <3>3
    <3> QED
      BY <2>1, <3>4
  <2>2. CASE receipts[i].status # "POSTED"
    BY <2>2
  <2> QED
    BY <2>1, <2>2
<1>6. PostedTotal(receipts, WorthIn(k)) = SumUpTo(h, n)
  BY DEF PostedTotal
<1> HIDE DEF h, n
<1>7. SumUpTo(h, n) = 0
  BY <1>4, <1>5, SumOfZeros
<1> QED
  BY <1>6, <1>7

\* A key that was never counted has no value left when its goods are gone,
\* whatever the prices, the rounding of the line amounts and the order of the
\* transactions: a reversal takes out exactly the amount its receipt brought in
\* (reverse_receipt, apply_outbound).
THEOREM NoStrandedValue == Spec => []NoResidue
<1>1. ASSUME IInv, StockIsDocuments, NEW k \in Keys,
             \A j \in CountRows : ledger[j].key # k, balance[k].quantity = 0
      PROVE  balance[k].total_amount = 0
  <2>1. receipts \in Seq(Receipt) /\ ledger \in Seq(Row)
    BY <1>1 DEF IInv, DocsOK, StockInv, StockTypeOK
  <2>2. \A j \in 1..Len(ledger) : ledger[j].type \in CountTypes => ledger[j].key # k
    BY <1>1 DEF CountRows
  <2>3. CountedTotal(ledger, k, RowGoods) = 0 /\ CountedTotal(ledger, k, RowWorth) = 0
    BY <2>1, <2>2, CountedType, RowMeasures
  <2>4. GoodsIn(k) \in [Receipt -> Nat] /\ WorthIn(k) \in [Receipt -> Nat]
    BY GoodsType
  <2>5. PostedTotal(receipts, GoodsIn(k)) \in Nat /\ PostedTotal(receipts, WorthIn(k)) \in Nat
    BY <2>1, <2>4, PostedTotalType
  <2>6. /\ balance[k].quantity = PostedTotal(receipts, GoodsIn(k))
        /\ balance[k].total_amount = PostedTotal(receipts, WorthIn(k))
    <3>1. \A x \in Nat : x + 0 = x
      OBVIOUS
    <3> QED
      BY <1>1, <2>3, <2>5, <3>1, Zenon DEF StockIsDocuments
  <2> QED
    BY <1>1, <2>1, <2>6, NoGoodsNoWorth
<1>2. IInv /\ StockIsDocuments => NoResidue
  BY <1>1 DEF NoResidue
<1> QED
  BY <1>2, StockFollowsDocuments, PTL

-----------------------------------------------------------------------------
(* One session at a time *)

\* What follows holds when requests do not overlap; with two sessions a stale
\* write-back breaks it (run lost_receipt).
Serial == \A s, t \in Sessions : s = t

\* A session that is open sees the current state.
Fresh == \A s \in Sessions : IsOpen(s) => snap[s] = View

LEMMA FreshInit == Init => Fresh
  BY DEF Init, Fresh, IsOpen

LEMMA FreshNext ==
  ASSUME Serial, IInv, Fresh, [Next]_vars
  PROVE  Fresh'
<1>1. snap \in [Sessions -> Snapshot \cup {NoSnapshot}]
  BY DEF IInv, SnapOK
<1>2. CASE UNCHANGED vars
  <2>1. snap' = snap /\ View' = View
    BY <1>2 DEF vars, documents, View, PostedReceipts, StockedWarehouses
  <2> QED
    BY <2>1 DEF Fresh, IsOpen
<1>3. ASSUME NEW s \in Sessions, Begin(s) PROVE Fresh'
  <2>1. View' = View
    BY <1>3 DEF Begin, documents, stockVars, View, PostedReceipts,
                StockedWarehouses
  <2>2. snap' = [snap EXCEPT ![s] = View]
    BY <1>3 DEF Begin
  <2> HIDE DEF View
  <2>3. ASSUME NEW t \in Sessions PROVE snap'[t] = View
    <3>1. t = s
      BY DEF Serial
    <3> QED
      BY <1>1, <2>2, <3>1
  <2> QED
    BY <2>1, <2>3 DEF Fresh
<1>4. ASSUME NEW s \in Sessions, Commit(s) PROVE Fresh'
  <2>1. ASSUME NEW t \in Sessions PROVE snap'[t] = NoSnapshot
    <3>1. t = s
      BY DEF Serial
    <3> QED
      BY <1>1, <1>4, <3>1 DEF Commit
  <2> QED
    BY <2>1 DEF Fresh, IsOpen
<1>5. ASSUME NEW s \in Sessions
      PROVE  /\ Rollback(s) => Commit(s)
             /\ \A d : Disable(s, d) \/ Enable(s, d) => Commit(s)
             /\ \A o, src : CreatePo(s, o, src) => Commit(s)
             /\ \A o : ConfirmPo(s, o) \/ CancelPo(s, o) => Commit(s)
             /\ \A r : CancelPr(s, r) => Commit(s)
  BY DEF Rollback, Disable, Enable, CreatePo, ConfirmPo, CancelPo, CancelPr
<1>6. ASSUME NEW s \in Sessions, NEW o, NEW w, NEW q, CreateReceipt(s, o, w, q)
      PROVE  Commit(s)
  BY <1>6 DEF CreateReceipt
<1>7. ASSUME NEW s \in Sessions, NEW i, ReverseReceipt(s, i) PROVE Commit(s)
  BY <1>7, Zenon DEF ReverseReceipt
<1>9. ASSUME NEW s \in Sessions, NEW k, NEW n, NEW rate, PostCount(s, k, n, rate)
      PROVE  Commit(s)
  BY <1>9 DEF PostCount
<1>8. ASSUME Next PROVE \E s \in Sessions : Begin(s) \/ Commit(s)
  BY <1>5, <1>6, <1>7, <1>8, <1>9, Zenon
     DEF Next, DisableWarehouse, EnableWarehouse, DisableMaterial,
         EnableMaterial, DisableSupplier, EnableSupplier
<1> QED
  BY <1>2, <1>3, <1>4, <1>8

\* What an open session sees of the documents.
LEMMA FreshView ==
  ASSUME Fresh, NEW s \in Sessions, IsOpen(s)
  PROVE  /\ snap[s].prStatus = prStatus /\ snap[s].poStatus = poStatus
         /\ snap[s].received = received /\ snap[s].disabled = disabled
         /\ snap[s].stocked = StockedWarehouses
<1>1. snap[s] = View
  BY DEF Fresh
<1>2. /\ View.prStatus = prStatus /\ View.poStatus = poStatus
      /\ View.received = received /\ View.disabled = disabled
      /\ View.stocked = StockedWarehouses
  BY DEF View
<1> QED
  BY <1>1, <1>2, Zenon

\* Every receipt has a line, and only lines of its order.
LinesInOrder ==
    \A i \in 1..Len(receipts) :
        /\ LinesIn(receipts[i].quantity) # {}
        /\ LinesIn(receipts[i].quantity) \subseteq LinesOf(receipts[i].order)

\* Nothing is received before an order is confirmed or after it is cancelled.
NoEarlyGoods ==
    \A o \in Orders : poStatus[o] \in {"NONE", "DRAFT", "CANCELLED"} =>
        \A l \in LinesOf(o) : received[l] = 0

\* The status of an order follows from its received quantities.
StatusFollows ==
    \A o \in Orders :
        poStatus[o] \in {"CONFIRMED", "PARTIALLY_RECEIVED", "RECEIVED"} =>
            poStatus[o] = StatusFrom(received, o)

ChainInv == /\ LinesInOrder /\ NoEarlyGoods /\ StatusFollows
            /\ ReceivedMatchesReceipts

\* The quantity of line l as a measure of receipts.
QuantityIn(l) == [r \in Receipt |-> r.quantity[l]]

LEMMA QuantitySum ==
  ASSUME NEW rs \in Seq(Receipt), NEW l \in Lines
  PROVE  /\ QuantityIn(l) \in [Receipt -> Nat]
         /\ \A r \in Receipt : QuantityIn(l)[r] = r.quantity[l]
         /\ SumUpTo([i \in 1..Len(rs) |-> IF rs[i].status = "POSTED"
                                          THEN rs[i].quantity[l] ELSE 0], Len(rs))
               = PostedTotal(rs, QuantityIn(l))
<1>1. \A r \in Receipt : r.quantity \in [Lines -> Nat]
  BY DEF Receipt
<1>2. \A r \in Receipt : r.quantity[l] \in Nat
  BY <1>1
<1>3. /\ QuantityIn(l) \in [Receipt -> Nat]
      /\ \A r \in Receipt : QuantityIn(l)[r] = r.quantity[l]
  BY <1>2 DEF QuantityIn
<1> DEFINE n == Len(rs)
           f == [i \in 1..n |-> IF rs[i].status = "POSTED"
                                THEN rs[i].quantity[l] ELSE 0]
           g == [i \in 1..n |-> IF rs[i].status = "POSTED"
                                THEN QuantityIn(l)[rs[i]] ELSE 0]
<1>4. ASSUME NEW i \in 1..n PROVE QuantityIn(l)[rs[i]] = rs[i].quantity[l]
  <2>1. rs[i] \in Receipt
    OBVIOUS
  <2> QED
    BY <1>3, <2>1
<1>5. f = g
  BY <1>4
<1> QED
  BY <1>3, <1>5 DEF PostedTotal

LEMMA ReceiptQuantityIs ==
  ASSUME receipts \in Seq(Receipt), NEW l \in Lines
  PROVE  /\ QuantityIn(l) \in [Receipt -> Nat]
         /\ \A r \in Receipt : QuantityIn(l)[r] = r.quantity[l]
         /\ ReceiptQuantity(l) = PostedTotal(receipts, QuantityIn(l))
  BY QuantitySum DEF ReceiptQuantity

LEMMA ReceiptQuantityNext ==
  ASSUME receipts' \in Seq(Receipt), NEW l \in Lines
  PROVE  ReceiptQuantity(l)' = PostedTotal(receipts', QuantityIn(l))
  BY QuantitySum DEF ReceiptQuantity

\* Goods are on record only against orders past their confirmation.
LEMMA GoodsNeedConfirmation ==
  ASSUME IInv, ChainInv, NEW i \in 1..Len(receipts),
         receipts[i].status = "POSTED"
  PROVE  /\ receipts[i].order \in Orders
         /\ poStatus[receipts[i].order]
               \in {"CONFIRMED", "PARTIALLY_RECEIVED", "RECEIVED"}
<1>1. receipts \in Seq(Receipt) /\ receipts[i] \in Receipt
  BY DEF IInv, DocsOK
<1>2. receipts[i].order \in Orders /\ receipts[i].quantity \in [Lines -> Nat]
  BY <1>1 DEF Receipt
<1>3. PICK l \in LinesIn(receipts[i].quantity) : l \in LinesOf(receipts[i].order)
  BY DEF ChainInv, LinesInOrder
<1>4. l \in Lines /\ receipts[i].quantity[l] > 0
  BY DEF LinesIn
<1>5. QuantityIn(l)[receipts[i]] <= PostedTotal(receipts, QuantityIn(l))
  BY <1>1, <1>4, ReceiptQuantityIs, PostedTotalType
<1>6. /\ QuantityIn(l)[receipts[i]] = receipts[i].quantity[l]
      /\ received[l] = PostedTotal(receipts, QuantityIn(l))
  BY <1>1, <1>4, ReceiptQuantityIs DEF ChainInv, ReceivedMatchesReceipts
<1>7. received[l] # 0
  BY <1>2, <1>4, <1>5, <1>6
<1>8. poStatus[receipts[i].order] \in PoStatus
  BY <1>2 DEF IInv, DocsOK
<1>9. poStatus[receipts[i].order] \notin {"NONE", "DRAFT", "CANCELLED"}
  BY <1>2, <1>3, <1>7, Zenon DEF ChainInv, NoEarlyGoods
<1> QED
  BY <1>2, <1>8, <1>9 DEF PoStatus

\* The derived status of an order whose lines do not change.
LEMMA SameLinesSameStatus ==
  ASSUME NEW o, \A l \in LinesOf(o) : /\ received'[l] = received[l]
                                      /\ source'[l] = source[l]
  PROVE  StatusFrom(received, o)' = StatusFrom(received, o)
  BY Zenon DEF StatusFrom, LinesOf, Ordered

\* A step that leaves the receipts and the received quantities alone.
LEMMA SameReceipts ==
  ASSUME ChainInv, receipts' = receipts, received' = received
  PROVE  LinesInOrder' /\ ReceivedMatchesReceipts'
<1>1. LinesInOrder'
  BY Zenon DEF ChainInv, LinesInOrder, LinesIn, LinesOf
<1>2. ReceivedMatchesReceipts'
  BY Zenon DEF ChainInv, ReceivedMatchesReceipts, ReceiptQuantity
<1> QED
  BY <1>1, <1>2

LEMMA ChainUnchanged ==
  ASSUME ChainInv, receipts' = receipts, received' = received,
         poStatus' = poStatus, source' = source
  PROVE  ChainInv'
<1>1. NoEarlyGoods'
  BY Zenon DEF ChainInv, NoEarlyGoods, LinesOf
<1>2. StatusFollows'
  <2> SUFFICES ASSUME NEW o \in Orders,
                      poStatus[o] \in {"CONFIRMED", "PARTIALLY_RECEIVED", "RECEIVED"}
               PROVE  poStatus[o] = StatusFrom(received, o)'
    BY DEF StatusFollows
  <2>1. StatusFrom(received, o)' = StatusFrom(received, o)
    BY SameLinesSameStatus
  <2> QED
    BY <2>1 DEF ChainInv, StatusFollows
<1> QED
  BY <1>1, <1>2, SameReceipts DEF ChainInv

\* One order changes its status, and no other changes its lines.
LEMMA StatusStep ==
  ASSUME IInv, ChainInv, NEW o \in Orders, NEW st \in PoStatus,
         poStatus' = [poStatus EXCEPT ![o] = st],
         \A l \in Lines : OrderOf[l] # o => /\ received'[l] = received[l]
                                            /\ source'[l] = source[l],
         st \in {"NONE", "DRAFT", "CANCELLED"} =>
             \A l \in LinesOf(o) : received'[l] = 0,
         st \in {"CONFIRMED", "PARTIALLY_RECEIVED", "RECEIVED"} =>
             st = StatusFrom(received, o)'
  PROVE  NoEarlyGoods' /\ StatusFollows'
<1>1. /\ poStatus \in [Orders -> PoStatus] /\ poStatus'[o] = st
      /\ \A p \in Orders : p # o => poStatus'[p] = poStatus[p]
  BY DEF IInv, DocsOK
<1>2. ASSUME NEW p \in Orders, p # o
      PROVE  \A l \in LinesOf(p) : /\ received'[l] = received[l]
                                   /\ source'[l] = source[l]
  BY <1>2 DEF LinesOf
<1>3. NoEarlyGoods'
  <2> SUFFICES ASSUME NEW p \in Orders,
                      poStatus'[p] \in {"NONE", "DRAFT", "CANCELLED"},
                      NEW l \in LinesOf(p)
               PROVE  received'[l] = 0
    BY DEF NoEarlyGoods, LinesOf
  <2>1. CASE p = o
    BY <1>1, <2>1
  <2>2. CASE p # o
    <3>1. poStatus[p] \in {"NONE", "DRAFT", "CANCELLED"}
      BY <1>1, <2>2
    <3>2. received[l] = 0 /\ received'[l] = received[l]
      BY <1>2, <2>2, <3>1, Zenon DEF ChainInv, NoEarlyGoods
    <3> QED
      BY <3>2
  <2> QED
    BY <2>1, <2>2
<1>4. StatusFollows'
  <2> SUFFICES ASSUME NEW p \in Orders,
                      poStatus'[p] \in {"CONFIRMED", "PARTIALLY_RECEIVED", "RECEIVED"}
               PROVE  poStatus'[p] = StatusFrom(received, p)'
    BY DEF StatusFollows
  <2>1. CASE p = o
    BY <1>1, <2>1
  <2>2. CASE p # o
    <3>1. StatusFrom(received, p)' = StatusFrom(received, p)
      BY <1>2, <2>2, SameLinesSameStatus
    <3>2. poStatus'[p] = poStatus[p]
      BY <1>1, <2>2
    <3> QED
      BY <3>1, <3>2 DEF ChainInv, StatusFollows
  <2> QED
    BY <2>1, <2>2
<1> QED
  BY <1>3, <1>4

LEMMA CreatePoChain ==
  ASSUME IInv, ChainInv, NEW s \in Sessions, NEW o \in Orders, NEW src,
         CreatePo(s, o, src)
  PROVE  ChainInv'
<1>1. /\ poStatus' = [poStatus EXCEPT ![o] = "DRAFT"] /\ poStatus[o] = "NONE"
      /\ received' = received /\ receipts' = receipts
      /\ source' = [l \in Lines |-> IF OrderOf[l] = o THEN src[l] ELSE source[l]]
  BY DEF CreatePo
<1>2. \A l \in LinesOf(o) : received'[l] = 0
  BY <1>1 DEF ChainInv, NoEarlyGoods
<1>3. \A l \in Lines : OrderOf[l] # o => /\ received'[l] = received[l]
                                         /\ source'[l] = source[l]
  BY <1>1
<1>4. "DRAFT" \in PoStatus
  BY DEF PoStatus
<1>5. NoEarlyGoods' /\ StatusFollows'
  BY <1>1, <1>2, <1>3, <1>4, StatusStep
<1> QED
  BY <1>1, <1>5, SameReceipts DEF ChainInv

LEMMA ConfirmPoChain ==
  ASSUME IInv, ChainInv, NEW s \in Sessions, NEW o \in Orders, ConfirmPo(s, o)
  PROVE  ChainInv'
<1>1. /\ poStatus' = [poStatus EXCEPT ![o] = "CONFIRMED"]
      /\ poStatus[o] = "DRAFT" /\ received' = received
      /\ receipts' = receipts /\ source' = source
  BY DEF ConfirmPo
<1>2. \A l \in LinesOf(o) : received'[l] = 0
  BY <1>1 DEF ChainInv, NoEarlyGoods
<1>3. StatusFrom(received, o)' = "CONFIRMED"
  BY <1>2 DEF StatusFrom, LinesOf
<1>4. "CONFIRMED" \in PoStatus
  BY DEF PoStatus
<1>5. NoEarlyGoods' /\ StatusFollows'
  BY <1>1, <1>3, <1>4, StatusStep
<1> QED
  BY <1>1, <1>5, SameReceipts DEF ChainInv

LEMMA CancelPoChain ==
  ASSUME IInv, Fresh, ChainInv, NEW s \in Sessions, NEW o \in Orders,
         CancelPo(s, o)
  PROVE  ChainInv'
<1>1. /\ poStatus' = [poStatus EXCEPT ![o] = "CANCELLED"]
      /\ received' = received /\ receipts' = receipts /\ source' = source
      /\ IsOpen(s)
  BY DEF CancelPo
<1>2. snap[s].received = received
  BY <1>1, FreshView
<1>3. \A l \in LinesOf(o) : received'[l] = 0
  BY <1>1, <1>2 DEF CancelPo
<1>4. "CANCELLED" \in PoStatus
  BY DEF PoStatus
<1>5. NoEarlyGoods' /\ StatusFollows'
  BY <1>1, <1>3, <1>4, StatusStep
<1> QED
  BY <1>1, <1>5, SameReceipts DEF ChainInv

\* In a fresh session recompute_po_status always leaves the derived status.
LEMMA Recomputed ==
  ASSUME IInv, Fresh, NEW s \in Sessions, IsOpen(s), NEW o \in Orders, NEW rcv
  PROVE  /\ RecomputePoStatus(s, o, rcv)
               = [poStatus EXCEPT ![o] = StatusFrom(rcv, o)]
         /\ StatusFrom(rcv, o) \in {"CONFIRMED", "PARTIALLY_RECEIVED", "RECEIVED"}
<1>1. snap[s].poStatus = poStatus /\ poStatus \in [Orders -> PoStatus]
  BY FreshView DEF IInv, DocsOK
<1>2. StatusFrom(rcv, o) \in {"CONFIRMED", "PARTIALLY_RECEIVED", "RECEIVED"}
  BY DEF StatusFrom
<1> QED
  BY <1>1, <1>2 DEF RecomputePoStatus

\* The received quantities a fresh session writes for lines L.
LEMMA WrittenBack ==
  ASSUME IInv, Fresh, NEW s \in Sessions, IsOpen(s),
         NEW delta \in [Lines -> Int], NEW L,
         \A l \in Lines : l \notin L => delta[l] = 0,
         received' = [l \in Lines |-> IF l \in L THEN SeenReceived(s, delta)[l]
                                     ELSE received[l]]
  PROVE  /\ received' = SeenReceived(s, delta)
         /\ \A l \in Lines : received'[l] = received[l] + delta[l]
<1>1. snap[s].received = received /\ received \in [Lines -> Nat]
  BY FreshView DEF IInv, DocsOK
<1>2. /\ SeenReceived(s, delta) = [l \in Lines |-> received[l] + delta[l]]
      /\ \A l \in Lines : SeenReceived(s, delta)[l] = received[l] + delta[l]
  BY <1>1 DEF SeenReceived
<1>3. \A l \in Lines : received'[l] = received[l] + delta[l]
  BY <1>1, <1>2
<1> QED
  BY <1>2, <1>3

LEMMA CreateReceiptChain ==
  ASSUME IInv, Fresh, ChainInv, NEW s \in Sessions, NEW o \in Orders,
         NEW w \in Warehouses, NEW q \in ReceiptRequests(o),
         CreateReceipt(s, o, w, q)
  PROVE  ChainInv'
<1> DEFINE L == LinesIn(q)
           n == Len(receipts) + 1
           seen == SeenReceived(s, q)
           new == [order |-> o, warehouse |-> w, quantity |-> q,
                   status |-> "POSTED"]
<1>1. q \in [Lines -> Nat] /\ receipts \in Seq(Receipt) /\ IsOpen(s)
  <2>1. IsOpen(s)
    BY DEF CreateReceipt
  <2> QED
    BY <2>1 DEF ReceiptRequests, IInv, DocsOK
<1>2. /\ receipts' = Append(receipts, new) /\ source' = source
      /\ received' = [l \in Lines |-> IF l \in L THEN seen[l] ELSE received[l]]
      /\ poStatus' = RecomputePoStatus(s, o, seen)
      /\ L # {} /\ L \subseteq LinesOf(o)
  BY DEF CreateReceipt
<1>3. /\ new \in Receipt /\ new.status = "POSTED" /\ new.order = o
      /\ new.quantity = q
  BY <1>1 DEF Receipt
<1>4. /\ q \in [Lines -> Int]
      /\ \A l \in Lines : l \notin L => q[l] = 0
  BY <1>1 DEF LinesIn
<1> HIDE DEF new, seen, L
<1>5. received' = seen /\ \A l \in Lines : received'[l] = received[l] + q[l]
  BY <1>1, <1>2, <1>4, WrittenBack DEF seen
<1>6. /\ Len(receipts) \in Nat /\ Len(receipts') = n /\ receipts'[n] = new
      /\ \A i \in 1..Len(receipts) : receipts'[i] = receipts[i]
      /\ receipts' \in Seq(Receipt)
  BY <1>1, <1>2, <1>3, AppendedSeq
<1>7. LinesInOrder'
  <2> SUFFICES ASSUME NEW i \in 1..n
               PROVE  /\ LinesIn(receipts'[i].quantity) # {}
                      /\ LinesIn(receipts'[i].quantity)
                            \subseteq LinesOf(receipts'[i].order)
    BY <1>6, Zenon DEF LinesInOrder, LinesIn, LinesOf
  <2>1. CASE i \in 1..Len(receipts)
    BY <1>6, <2>1 DEF ChainInv, LinesInOrder
  <2>2. CASE i = n
    BY <1>2, <1>3, <1>6, <2>2 DEF L
  <2> QED
    BY <1>6, <2>1, <2>2
<1>8. ReceivedMatchesReceipts'
  <2> SUFFICES ASSUME NEW l \in Lines PROVE received'[l] = ReceiptQuantity(l)'
    BY DEF ReceivedMatchesReceipts
  <2>1. /\ QuantityIn(l) \in [Receipt -> Nat] /\ QuantityIn(l)[new] = q[l]
        /\ ReceiptQuantity(l) = PostedTotal(receipts, QuantityIn(l))
    BY <1>1, <1>3, ReceiptQuantityIs
  <2>2. ReceiptQuantity(l)' = PostedTotal(receipts', QuantityIn(l))
    BY <1>6, ReceiptQuantityNext
  <2>3. PostedTotal(receipts', QuantityIn(l))
           = PostedTotal(receipts, QuantityIn(l)) + QuantityIn(l)[new]
    BY <1>1, <1>2, <1>3, <2>1, PostedAppend
  <2>4. received[l] = ReceiptQuantity(l)
    BY DEF ChainInv, ReceivedMatchesReceipts
  <2> QED
    BY <1>5, <2>1, <2>2, <2>3, <2>4
<1>9. /\ poStatus' = [poStatus EXCEPT ![o] = StatusFrom(seen, o)]
      /\ StatusFrom(seen, o) \in {"CONFIRMED", "PARTIALLY_RECEIVED", "RECEIVED"}
  BY <1>1, <1>2, Recomputed
<1>10. StatusFrom(received, o)' = StatusFrom(seen, o)
  BY <1>2, <1>5 DEF StatusFrom, LinesOf, Ordered
<1>11. ASSUME NEW l \in Lines, OrderOf[l] # o
       PROVE  received'[l] = received[l] /\ source'[l] = source[l]
  BY <1>2, <1>11 DEF LinesOf
<1>12. NoEarlyGoods' /\ StatusFollows'
  <2> DEFINE st == StatusFrom(seen, o)
  <2>1. /\ st \in PoStatus /\ st \notin {"NONE", "DRAFT", "CANCELLED"}
        /\ st = StatusFrom(received, o)' /\ poStatus' = [poStatus EXCEPT ![o] = st]
    BY <1>9, <1>10 DEF PoStatus
  <2> HIDE DEF st
  <2> QED
    BY <1>11, <2>1, StatusStep
<1> QED
  BY <1>7, <1>8, <1>12 DEF ChainInv

LEMMA ReverseReceiptChain ==
  ASSUME IInv, Fresh, ChainInv, NEW s \in Sessions,
         NEW i \in 1..Len(receipts), ReverseReceipt(s, i)
  PROVE  ChainInv'
<1> DEFINE q == receipts[i].quantity
           L == LinesIn(q)
           delta == [l \in Lines |-> -q[l]]
           seen == SeenReceived(s, delta)
<1>1. receipts \in Seq(Receipt) /\ receipts[i] \in Receipt
  BY DEF IInv, DocsOK
<1>2. q \in [Lines -> Nat] /\ receipts[i].order \in Orders
  BY <1>1 DEF Receipt
<1>0. PICK o \in Orders : o = receipts[i].order
  BY <1>2
<1>3. /\ IsOpen(s) /\ source' = source /\ receipts[i].status = "POSTED"
      /\ receipts' = [receipts EXCEPT ![i].status = "REVERSED"]
  BY DEF ReverseReceipt, ClaimOK
<1>4. /\ received' = [l \in Lines |-> IF l \in L THEN seen[l] ELSE received[l]]
      /\ poStatus' = RecomputePoStatus(s, o, seen)
  BY <1>0 DEF ReverseReceipt
<1>5. /\ delta \in [Lines -> Int] /\ \A l \in Lines : delta[l] = -q[l]
      /\ \A l \in Lines : l \notin L => delta[l] = 0
  <2>1. \A l \in Lines : l \notin L => q[l] = 0
    BY <1>2 DEF LinesIn
  <2>2. delta \in [Lines -> Int] /\ \A l \in Lines : delta[l] = -q[l]
    BY <1>2
  <2>3. ASSUME NEW l \in Lines, l \notin L PROVE delta[l] = 0
    <3>1. q[l] = 0 /\ delta[l] = -q[l] /\ delta[l] \in Int
      BY <2>1, <2>2, <2>3
    <3>2. \A x \in Int, y \in Nat : x = -y => x + y = 0
      OBVIOUS
    <3>3. delta[l] + q[l] = 0
      BY <1>2, <3>1, <3>2
    <3> QED
      BY <3>1, <3>3
  <2> QED
    BY <2>2, <2>3
<1>6. /\ receipts' \in Seq(Receipt) /\ Len(receipts') = Len(receipts)
      /\ receipts'[i].status = "REVERSED"
      /\ \A k \in 1..Len(receipts) : k # i => receipts'[k] = receipts[k]
      /\ \A k \in 1..Len(receipts) :
            /\ receipts'[k].quantity = receipts[k].quantity
            /\ receipts'[k].order = receipts[k].order
  BY <1>1, <1>3, ReversedReceipt
<1> HIDE DEF L, delta, seen
<1>7. received' = seen /\ \A l \in Lines : received'[l] = received[l] + delta[l]
  BY <1>3, <1>4, <1>5, WrittenBack DEF seen
<1>8. LinesInOrder'
  <2> SUFFICES ASSUME NEW k \in 1..Len(receipts)
               PROVE  /\ LinesIn(receipts'[k].quantity) # {}
                      /\ LinesIn(receipts'[k].quantity)
                            \subseteq LinesOf(receipts'[k].order)
    BY <1>6, Zenon DEF LinesInOrder, LinesIn, LinesOf
  <2> QED
    BY <1>6 DEF ChainInv, LinesInOrder
<1>9. ReceivedMatchesReceipts'
  <2> SUFFICES ASSUME NEW l \in Lines PROVE received'[l] = ReceiptQuantity(l)'
    BY DEF ReceivedMatchesReceipts
  <2> DEFINE x == QuantityIn(l)[receipts[i]]
             P == PostedTotal(receipts, QuantityIn(l))
  <2>1. QuantityIn(l) \in [Receipt -> Nat] /\ x = q[l] /\ ReceiptQuantity(l) = P
    BY <1>1, ReceiptQuantityIs
  <2>2. ReceiptQuantity(l)' = PostedTotal(receipts', QuantityIn(l))
    BY <1>6, ReceiptQuantityNext
  <2>3. PostedTotal(receipts', QuantityIn(l)) = P - x
    BY <1>1, <1>3, <1>6, <2>1, PostedReverse
  <2>4. received[l] = P /\ received[l] \in Nat
    BY <2>1 DEF ChainInv, ReceivedMatchesReceipts, IInv, DocsOK
  <2>5. received'[l] = received[l] + (-q[l]) /\ q[l] \in Nat
    BY <1>2, <1>5, <1>7
  <2> HIDE DEF x, P, q
  <2> QED
    BY <2>1, <2>2, <2>3, <2>4, <2>5
<1>10. /\ poStatus' = [poStatus EXCEPT ![o] = StatusFrom(seen, o)]
       /\ StatusFrom(seen, o) \in {"CONFIRMED", "PARTIALLY_RECEIVED", "RECEIVED"}
  BY <1>3, <1>4, Recomputed
<1> HIDE DEF q
<1>11. StatusFrom(received, o)' = StatusFrom(seen, o)
  BY <1>3, <1>7 DEF StatusFrom, LinesOf, Ordered
<1>12. ASSUME NEW l \in Lines, OrderOf[l] # o
       PROVE  received'[l] = received[l] /\ source'[l] = source[l]
  <2>1. L \subseteq LinesOf(o)
    BY <1>0 DEF ChainInv, LinesInOrder, L, q
  <2>2. l \notin L
    BY <1>12, <2>1 DEF LinesOf
  <2> QED
    BY <1>3, <1>4, <2>2
<1>13. NoEarlyGoods' /\ StatusFollows'
  <2> DEFINE st == StatusFrom(seen, o)
  <2>1. /\ st \in PoStatus /\ st \notin {"NONE", "DRAFT", "CANCELLED"}
        /\ st = StatusFrom(received, o)' /\ poStatus' = [poStatus EXCEPT ![o] = st]
    BY <1>10, <1>11 DEF PoStatus
  <2> HIDE DEF st
  <2> QED
    BY <1>12, <2>1, StatusStep
<1> QED
  BY <1>8, <1>9, <1>13 DEF ChainInv

LEMMA InitChain == Init => ChainInv
<1> SUFFICES ASSUME Init PROVE ChainInv
  OBVIOUS
<1>1. receipts = << >> /\ Len(receipts) = 0 /\ received = [l \in Lines |-> 0]
  BY DEF Init
<1>2. LinesInOrder
  BY <1>1 DEF LinesInOrder
<1>3. NoEarlyGoods
  BY <1>1 DEF NoEarlyGoods, LinesOf
<1>4. StatusFollows
  BY DEF Init, StatusFollows
<1>5. ReceivedMatchesReceipts
  <2>1. \A f : IntTerms(f, 0)
    BY DEF IntTerms
  <2>2. \A f : SumUpTo(f, 0) = 0
    BY <2>1, SumType
  <2>3. \A l \in Lines : ReceiptQuantity(l) = 0
    BY <1>1, <2>2 DEF ReceiptQuantity
  <2> QED
    BY <1>1, <2>3 DEF ReceivedMatchesReceipts
<1> QED
  BY <1>2, <1>3, <1>4, <1>5 DEF ChainInv

LEMMA NextChain == ASSUME IInv, Fresh, ChainInv, [Next]_vars PROVE ChainInv'
<1>1. CASE UNCHANGED <<receipts, received, poStatus, source>>
  BY <1>1, ChainUnchanged
<1>2. ASSUME NEW s \in Sessions, NEW o \in Orders, NEW src, CreatePo(s, o, src)
      PROVE  ChainInv'
  BY <1>2, CreatePoChain
<1>3. ASSUME NEW s \in Sessions, NEW o \in Orders, ConfirmPo(s, o) PROVE ChainInv'
  BY <1>3, ConfirmPoChain
<1>4. ASSUME NEW s \in Sessions, NEW o \in Orders, CancelPo(s, o) PROVE ChainInv'
  BY <1>4, CancelPoChain
<1>5. ASSUME NEW s \in Sessions, NEW o \in Orders, NEW w \in Warehouses,
             NEW q \in ReceiptRequests(o), CreateReceipt(s, o, w, q)
      PROVE  ChainInv'
  BY <1>5, CreateReceiptChain
<1>6. ASSUME NEW s \in Sessions, NEW i \in 1..Len(receipts), ReverseReceipt(s, i)
      PROVE  ChainInv'
  BY <1>6, ReverseReceiptChain
<1>7. CASE UNCHANGED vars
  BY <1>1, <1>7 DEF vars, documents
<1>8. ASSUME NEW s \in Sessions
      PROVE  /\ Begin(s) \/ Rollback(s)
                   => UNCHANGED <<receipts, received, poStatus, source>>
             /\ \A d : Disable(s, d) \/ Enable(s, d)
                   => UNCHANGED <<receipts, received, poStatus, source>>
             /\ \A r : CancelPr(s, r)
                   => UNCHANGED <<receipts, received, poStatus, source>>
             /\ \A k, n, rate : PostCount(s, k, n, rate)
                   => UNCHANGED <<receipts, received, poStatus, source>>
  BY DEF Begin, Rollback, Disable, Enable, CancelPr, PostCount, documents
<1>9. CASE Next
  BY <1>1, <1>2, <1>3, <1>4, <1>5, <1>6, <1>8, <1>9, Zenon
     DEF Next, DisableWarehouse, EnableWarehouse, DisableMaterial,
         EnableMaterial, DisableSupplier, EnableSupplier
<1> QED
  BY <1>7, <1>9

LEMMA SerialChain == ASSUME Serial PROVE Spec => [](IInv /\ Fresh /\ ChainInv)
<1>1. Init => IInv /\ Fresh /\ ChainInv
  BY InitIInv, FreshInit, InitChain
<1>2. IInv /\ Fresh /\ ChainInv /\ [Next]_vars => (IInv /\ Fresh /\ ChainInv)'
  <2> SUFFICES ASSUME IInv, Fresh, ChainInv, [Next]_vars
               PROVE  (IInv /\ Fresh /\ ChainInv)'
    OBVIOUS
  <2>1. IInv'
    BY NextIInv
  <2>2. Fresh'
    BY FreshNext
  <2>3. ChainInv'
    BY NextChain
  <2> QED
    BY <2>1, <2>2, <2>3
<1> QED
  BY <1>1, <1>2, PTL DEF Spec

\* As long as requests do not overlap, received_quantity of every order line
\* is what the posted receipts of the line add up to (create_receipt,
\* reverse_receipt).
THEOREM ReceiptsAddUp == ASSUME Serial PROVE Spec => []ReceivedMatchesReceipts
<1>1. ChainInv => ReceivedMatchesReceipts
  BY DEF ChainInv
<1> QED
  BY <1>1, SerialChain, PTL

\* As long as requests do not overlap, the status of an order is, from its
\* confirmation on, the one its posted receipts imply (recompute_po_status).
THEOREM StatusAddsUp == ASSUME Serial PROVE Spec => []PoStatusDerived
<1>1. IInv /\ ChainInv => PoStatusDerived
  <2> SUFFICES ASSUME IInv, ChainInv PROVE PoStatusDerived
    OBVIOUS
  <2>1. received = [l \in Lines |-> ReceiptQuantity(l)]
    BY DEF IInv, DocsOK, ChainInv, ReceivedMatchesReceipts
  <2>2. StatusFollows
    BY DEF ChainInv
  <2> QED
    BY <2>1, <2>2, Zenon DEF StatusFollows, PoStatusDerived
<1> QED
  BY <1>1, SerialChain, PTL

\* As long as requests do not overlap, no goods are on record against a
\* cancelled order (cancel_po, rule R14).
THEOREM CancelledOrdersAreEmpty == ASSUME Serial PROVE Spec => []CancelledHasNoGoods
<1>1. IInv /\ ChainInv => CancelledHasNoGoods
  BY GoodsNeedConfirmation DEF CancelledHasNoGoods, PostedReceipts
<1> QED
  BY <1>1, SerialChain, PTL

-----------------------------------------------------------------------------
(* Cancelled requisitions *)

\* The lines of order o have the same sources.
SameSourcesFor(o, a, b) == \A l \in LinesOf(o) : a[l] = b[l]

\* What an order draws depends on the sources of its own lines only.
LEMMA SameSources ==
  ASSUME NEW a, NEW b, NEW o, SameSourcesFor(o, a, b)
  PROVE  /\ \A p : Drawn(a, o, p) = Drawn(b, o, p)
         /\ RequisitionsOf(a, o) = RequisitionsOf(b, o)
<1>1. ASSUME NEW p PROVE Drawn(a, o, p) = Drawn(b, o, p)
  <2>1. [l \in Lines |-> IF OrderOf[l] = o THEN a[l][p] ELSE 0]
           = [l \in Lines |-> IF OrderOf[l] = o THEN b[l][p] ELSE 0]
    BY DEF LinesOf, SameSourcesFor
  <2> QED
    BY <2>1, Zenon DEF Drawn
<1> QED
  BY <1>1 DEF RequisitionsOf

\* Receipts and reversals neither activate nor deactivate an order.
LEMMA ReceiptsKeepActive ==
  ASSUME IInv, Fresh, ChainInv, NEW s \in Sessions,
         \/ \E o \in Orders, w \in Warehouses :
               \E q \in ReceiptRequests(o) : CreateReceipt(s, o, w, q)
         \/ \E i \in 1..Len(receipts) : ReverseReceipt(s, i)
  PROVE  /\ \A o \in Orders : Active(poStatus'[o]) <=> Active(poStatus[o])
         /\ source' = source /\ prStatus' = prStatus /\ converted' = converted
<1>1. ASSUME NEW o \in Orders, NEW rcv, Active(poStatus[o]), IsOpen(s),
             poStatus' = RecomputePoStatus(s, o, rcv)
      PROVE  \A p \in Orders : Active(poStatus'[p]) <=> Active(poStatus[p])
  <2>1. /\ poStatus' = [poStatus EXCEPT ![o] = StatusFrom(rcv, o)]
        /\ StatusFrom(rcv, o) \in {"CONFIRMED", "PARTIALLY_RECEIVED", "RECEIVED"}
        /\ poStatus \in [Orders -> PoStatus]
    BY <1>1, Recomputed DEF IInv, DocsOK
  <2> DEFINE st == StatusFrom(rcv, o)
  <2> HIDE DEF st
  <2>2. st \in {"CONFIRMED", "PARTIALLY_RECEIVED", "RECEIVED"}
        /\ poStatus' = [poStatus EXCEPT ![o] = st]
    BY <2>1 DEF st
  <2> QED
    BY <1>1, <2>1, <2>2 DEF Active
<1>2. ASSUME NEW o \in Orders, NEW w \in Warehouses, NEW q \in ReceiptRequests(o),
             CreateReceipt(s, o, w, q)
      PROVE  /\ \A p \in Orders : Active(poStatus'[p]) <=> Active(poStatus[p])
             /\ source' = source /\ prStatus' = prStatus /\ converted' = converted
  <2>1. /\ IsOpen(s) /\ snap[s].poStatus[o] \in Receivable
        /\ poStatus' = RecomputePoStatus(s, o, SeenReceived(s, q))
        /\ source' = source /\ prStatus' = prStatus /\ converted' = converted
    BY <1>2 DEF CreateReceipt
  <2>2. Active(poStatus[o])
    BY <2>1, FreshView DEF Receivable, Active
  <2> QED
    BY <1>1, <2>1, <2>2
<1>3. ASSUME NEW i \in 1..Len(receipts), ReverseReceipt(s, i)
      PROVE  /\ \A p \in Orders : Active(poStatus'[p]) <=> Active(poStatus[p])
             /\ source' = source /\ prStatus' = prStatus /\ converted' = converted
  <2>1. IsOpen(s) /\ receipts[i].status = "POSTED"
        /\ source' = source /\ prStatus' = prStatus /\ converted' = converted
    BY <1>3 DEF ReverseReceipt, ClaimOK
  <2>2. /\ receipts[i].order \in Orders
        /\ poStatus[receipts[i].order]
              \in {"CONFIRMED", "PARTIALLY_RECEIVED", "RECEIVED"}
    BY <2>1, GoodsNeedConfirmation
  <2>3. PICK o \in Orders : o = receipts[i].order
    BY <2>2
  <2>4. Active(poStatus[o])
    BY <2>2, <2>3 DEF Active
  <2>5. PICK rcv : poStatus' = RecomputePoStatus(s, o, rcv)
    BY <1>3, <2>3 DEF ReverseReceipt
  <2> QED
    BY <1>1, <2>1, <2>4, <2>5
<1> QED
  BY <1>2, <1>3

\* A step that activates no order and cancels no requisition.
LEMMA SameCancelled ==
  ASSUME CancelledPrHasNoActivePo, source' = source,
         \A r \in Requisitions : prStatus'[r] = "CANCELLED"
                                    => prStatus[r] = "CANCELLED",
         \A o \in Orders : Active(poStatus'[o]) => Active(poStatus[o])
  PROVE  CancelledPrHasNoActivePo'
<1> SUFFICES ASSUME NEW r \in Requisitions, NEW o \in Orders,
                    prStatus'[r] = "CANCELLED", Active(poStatus'[o])
             PROVE  r \notin RequisitionsOf(source', o)
  BY DEF CancelledPrHasNoActivePo, RequisitionsOf, Active, Drawn
<1>1. prStatus[r] = "CANCELLED" /\ Active(poStatus[o])
  OBVIOUS
<1> QED
  BY <1>1 DEF CancelledPrHasNoActivePo

LEMMA CreatePoCancelled ==
  ASSUME IInv, Fresh, CancelledPrHasNoActivePo, NEW s \in Sessions,
         NEW o \in Orders, NEW src, CreatePo(s, o, src)
  PROVE  CancelledPrHasNoActivePo'
<1> SUFFICES ASSUME NEW r \in Requisitions, NEW p \in Orders,
                    prStatus'[r] = "CANCELLED", Active(poStatus'[p])
             PROVE  r \notin RequisitionsOf(source', p)
  BY DEF CancelledPrHasNoActivePo, RequisitionsOf, Active, Drawn
<1>1. /\ prStatus' = FlipToConverted(converted', RequisitionsOf(src, o))
      /\ source' = [l \in Lines |-> IF OrderOf[l] = o THEN src[l] ELSE source[l]]
      /\ poStatus' = [poStatus EXCEPT ![o] = "DRAFT"] /\ IsOpen(s)
      /\ \A x \in RequisitionsOf(src, o) : snap[s].prStatus[x] = "APPROVED"
  BY DEF CreatePo
<1>2. prStatus[r] = "CANCELLED"
  BY <1>1 DEF FlipToConverted
<1>3. CASE p = o
  <2>1. \A l \in LinesOf(o) : source'[l] = src[l]
    BY <1>1 DEF LinesOf
  <2>2. RequisitionsOf(source', o) = RequisitionsOf(src, o)
    BY <2>1, SameSources DEF SameSourcesFor
  <2>3. \A x \in RequisitionsOf(src, o) : prStatus[x] = "APPROVED"
    BY <1>1, FreshView
  <2> QED
    BY <1>2, <1>3, <2>2, <2>3
<1>4. CASE p # o
  <2>1. \A l \in LinesOf(p) : source'[l] = source[l]
    BY <1>1, <1>4 DEF LinesOf
  <2>2. RequisitionsOf(source', p) = RequisitionsOf(source, p)
    BY <2>1, SameSources DEF SameSourcesFor
  <2>3. poStatus'[p] = poStatus[p]
    BY <1>1, <1>4 DEF IInv, DocsOK
  <2> QED
    BY <1>2, <2>2, <2>3 DEF CancelledPrHasNoActivePo
<1> QED
  BY <1>3, <1>4

LEMMA CancelPrCancelled ==
  ASSUME IInv, Fresh, CancelledPrHasNoActivePo, NEW s \in Sessions,
         NEW r \in Requisitions, CancelPr(s, r)
  PROVE  CancelledPrHasNoActivePo'
<1> SUFFICES ASSUME NEW x \in Requisitions, NEW o \in Orders,
                    prStatus'[x] = "CANCELLED", Active(poStatus'[o])
             PROVE  x \notin RequisitionsOf(source', o)
  BY DEF CancelledPrHasNoActivePo, RequisitionsOf, Active, Drawn
<1>1. /\ IsOpen(s) /\ poStatus' = poStatus /\ source' = source
      /\ prStatus' = [prStatus EXCEPT ![r] = "CANCELLED"] /\ NoActivePo(s, r)
  BY DEF CancelPr
<1>2. CASE x = r
  BY <1>1, <1>2, FreshView DEF NoActivePo
<1>3. CASE x # r
  <2>1. prStatus[x] = "CANCELLED"
    BY <1>1, <1>3 DEF IInv, DocsOK
  <2> QED
    BY <1>1, <2>1 DEF CancelledPrHasNoActivePo
<1> QED
  BY <1>2, <1>3

LEMMA NextCancelled ==
  ASSUME IInv, Fresh, ChainInv, CancelledPrHasNoActivePo, [Next]_vars
  PROVE  CancelledPrHasNoActivePo'
<1>1. CASE UNCHANGED <<prStatus, poStatus, source>>
  BY <1>1, SameCancelled
<1>2. ASSUME NEW s \in Sessions, NEW o \in Orders, NEW src, CreatePo(s, o, src)
      PROVE  CancelledPrHasNoActivePo'
  BY <1>2, CreatePoCancelled
<1>3. ASSUME NEW s \in Sessions, NEW o \in Orders, ConfirmPo(s, o)
      PROVE  CancelledPrHasNoActivePo'
  <2>1. /\ poStatus' = [poStatus EXCEPT ![o] = "CONFIRMED"]
        /\ poStatus[o] = "DRAFT" /\ source' = source /\ prStatus' = prStatus
        /\ poStatus \in [Orders -> PoStatus]
    BY <1>3 DEF ConfirmPo, IInv, DocsOK
  <2>2. \A p \in Orders : Active(poStatus'[p]) => Active(poStatus[p])
    BY <2>1 DEF Active
  <2> QED
    BY <2>1, <2>2, SameCancelled
<1>4. ASSUME NEW s \in Sessions, NEW o \in Orders, CancelPo(s, o)
      PROVE  CancelledPrHasNoActivePo'
  <2>1. /\ poStatus' = [poStatus EXCEPT ![o] = "CANCELLED"] /\ source' = source
        /\ prStatus' = FlipBackToApproved(converted', RequisitionsOf(source, o))
        /\ poStatus \in [Orders -> PoStatus]
    BY <1>4 DEF CancelPo, IInv, DocsOK
  <2>2. \A p \in Orders : Active(poStatus'[p]) => Active(poStatus[p])
    BY <2>1 DEF Active
  <2>3. \A r \in Requisitions : prStatus'[r] = "CANCELLED"
                                    => prStatus[r] = "CANCELLED"
    BY <2>1 DEF FlipBackToApproved
  <2> QED
    BY <2>1, <2>2, <2>3, SameCancelled
<1>5. ASSUME NEW s \in Sessions, NEW r \in Requisitions, CancelPr(s, r)
      PROVE  CancelledPrHasNoActivePo'
  BY <1>5, CancelPrCancelled
<1>6. ASSUME NEW s \in Sessions,
             \/ \E o \in Orders, w \in Warehouses :
                   \E q \in ReceiptRequests(o) : CreateReceipt(s, o, w, q)
             \/ \E i \in 1..Len(receipts) : ReverseReceipt(s, i)
      PROVE  CancelledPrHasNoActivePo'
  BY <1>6, ReceiptsKeepActive, SameCancelled
<1>7. CASE UNCHANGED vars
  BY <1>1, <1>7 DEF vars, documents
<1>8. ASSUME NEW s \in Sessions
      PROVE  /\ Begin(s) \/ Rollback(s) => UNCHANGED <<prStatus, poStatus, source>>
             /\ \A d : Disable(s, d) \/ Enable(s, d)
                   => UNCHANGED <<prStatus, poStatus, source>>
             /\ \A k, n, rate : PostCount(s, k, n, rate)
                   => UNCHANGED <<prStatus, poStatus, source>>
  BY DEF Begin, Rollback, Disable, Enable, PostCount, documents
<1>9. CASE Next
  BY <1>1, <1>2, <1>3, <1>4, <1>5, <1>6, <1>8, <1>9, Zenon
     DEF Next, DisableWarehouse, EnableWarehouse, DisableMaterial,
         EnableMaterial, DisableSupplier, EnableSupplier
<1> QED
  BY <1>7, <1>9

\* As long as requests do not overlap, a cancelled requisition has no active
\* order (cancel_pr and its has_active_po query, create_po).
THEOREM CancelledRequisitionsAreFree ==
  ASSUME Serial PROVE Spec => []CancelledPrHasNoActivePo
<1>1. Init => CancelledPrHasNoActivePo
  BY DEF Init, CancelledPrHasNoActivePo
<1>2. IInv /\ Fresh /\ ChainInv /\ CancelledPrHasNoActivePo /\ [Next]_vars
         => CancelledPrHasNoActivePo'
  BY NextCancelled
<1> QED
  BY <1>1, <1>2, SerialChain, PTL DEF Spec

-----------------------------------------------------------------------------
(* Disabled warehouses *)

\* A step that brings no goods into a disabled warehouse.
LEMMA ClosedPosted ==
  ASSUME StockTypeOK, NEW b \in Seq(Row), Posted(b), NoGoodsLockedUp,
         disabled' = disabled,
         \A j \in (Len(ledger) + 1)..Len(ledger') :
            ledger'[j].type = "PURCHASE_IN" => ledger'[j].key[1] \notin disabled
  PROVE  NoGoodsLockedUp'
<1> SUFFICES ASSUME NEW k \in Keys, k[1] \in disabled, NEW j \in 1..Len(ledger'),
                    ledger'[j].key = k, ledger'[j].type = "PURCHASE_IN"
             PROVE  \E n \in j..Len(ledger') : QuantityUpTo(ledger', k, n) = 0
  BY DEF NoGoodsLockedUp
<1>1. /\ ledger \in Seq(Row) /\ Rows(b) \in Seq(Row) /\ ledger' = ledger \o Rows(b)
      /\ Len(ledger) \in Nat /\ Len(ledger') \in Nat /\ Len(ledger') >= Len(ledger)
      /\ \A i \in 1..Len(ledger) : ledger'[i] = ledger[i]
  BY RowsOfBatch DEF StockTypeOK, Posted
<1>2. j \in 1..Len(ledger)
  BY <1>1
<1>3. PICK n \in j..Len(ledger) : QuantityUpTo(ledger, k, n) = 0
  BY <1>1, <1>2, Zenon DEF NoGoodsLockedUp
<1>4. n \in 0..Len(ledger) /\ n \in j..Len(ledger')
  BY <1>1, <1>2
<1>5. QuantityUpTo(ledger', k, n) = QuantityUpTo(ledger, k, n)
  BY <1>1, <1>4, PrefixTotals
<1> QED
  BY <1>3, <1>4, <1>5

LEMMA CreateReceiptClosed ==
  ASSUME IInv, Fresh, NoGoodsLockedUp, NEW s \in Sessions,
         NEW o \in Orders, NEW w \in Warehouses, NEW q \in ReceiptRequests(o),
         CreateReceipt(s, o, w, q)
  PROVE  NoGoodsLockedUp'
<1> DEFINE b == ReceiptBatch(Len(receipts) + 1, w, q)
<1>1. q \in [Lines -> Nat] /\ Len(receipts) + 1 \in Nat /\ StockTypeOK
  BY DEF ReceiptRequests, IInv, DocsOK, StockInv
<1>2. PostInbound(b) /\ disabled' = disabled /\ w \notin disabled
  BY FreshView DEF CreateReceipt
<1>3. Posted(b) /\ b \in Seq(Row)
  BY <1>1, <1>2, ReceiptIsPosted
<1>4. ASSUME NEW j \in (Len(ledger) + 1)..Len(ledger')
      PROVE  ledger'[j].key[1] \notin disabled
  BY <1>2, ReceiptRows
<1> QED
  BY <1>1, <1>2, <1>3, <1>4, ClosedPosted

LEMMA ReverseReceiptClosed ==
  ASSUME IInv, NoGoodsLockedUp, NEW s \in Sessions, NEW i \in 1..Len(receipts),
         ReverseReceipt(s, i)
  PROVE  NoGoodsLockedUp'
<1> DEFINE b == ReversalBatch(i)
<1>1. disabled' = disabled /\ Posted(b) /\ b \in Seq(Row) /\ StockTypeOK
  BY ReversalIsPosted DEF ReverseReceipt, IInv, StockInv
<1>2. ASSUME NEW j \in (Len(ledger) + 1)..Len(ledger')
      PROVE  ledger'[j].type # "PURCHASE_IN"
  <2>1. ledger'[j].type = "PURCHASE_IN_REVERSAL"
    BY ReversalRows
  <2> QED
    BY <2>1
<1> QED
  BY <1>1, <1>2, ClosedPosted

LEMMA PostCountClosed ==
  ASSUME IInv, NoGoodsLockedUp, NEW s \in Sessions, NEW k \in Keys, NEW n \in Nat,
         NEW rate \in CountRates, PostCount(s, k, n, rate)
  PROVE  NoGoodsLockedUp'
<1>1. PICK m \in Row : <<m>> \in Seq(Row) /\ Posted(<<m>>) /\ m.type \in CountTypes
  BY CountIsPosted
<1>2. disabled' = disabled /\ StockTypeOK
  BY DEF PostCount, documents, IInv, StockInv
<1>3. ASSUME NEW j \in (Len(ledger) + 1)..Len(ledger')
      PROVE  ledger'[j].type # "PURCHASE_IN"
  <2>1. /\ Len(ledger) \in Nat /\ Len(ledger') = Len(ledger) + 1
        /\ SameMove(ledger'[Len(ledger) + 1], m)
    BY <1>1, <1>2, CountRow
  <2>2. ledger'[j].type = m.type
    BY <2>1 DEF SameMove
  <2> QED
    BY <1>1, <2>2 DEF CountTypes
<1> QED
  BY <1>1, <1>2, <1>3, ClosedPosted

\* A warehouse is disabled when the stock of all of its keys is zero.
LEMMA DisableWarehouseClosed ==
  ASSUME IInv, Fresh, NoGoodsLockedUp, NEW s \in Sessions, NEW w \in Warehouses,
         DisableWarehouse(s, w)
  PROVE  NoGoodsLockedUp'
<1>1. /\ disabled' = disabled \cup {w} /\ ledger' = ledger
      /\ w \notin StockedWarehouses
  BY FreshView DEF DisableWarehouse, NoStock, Disable, stockVars
<1> SUFFICES ASSUME NEW k \in Keys, k[1] \in disabled', NEW j \in 1..Len(ledger),
                    ledger[j].key = k, ledger[j].type = "PURCHASE_IN"
             PROVE  \E n \in j..Len(ledger) : QuantityUpTo(ledger, k, n) = 0
  BY <1>1, Zenon DEF NoGoodsLockedUp
<1>2. CASE k[1] \in disabled
  BY <1>2 DEF NoGoodsLockedUp
<1>3. CASE k[1] = w
  <2>1. PICK m \in Materials : k = <<w, m>>
    BY <1>3 DEF Keys
  <2>2. balance[k].quantity = 0
    BY <1>1, <2>1 DEF StockedWarehouses
  <2>3. QuantityOf(ledger, k) = 0
    BY <2>2 DEF IInv, StockInv, BalanceIsLedgerSum
  <2>4. Len(ledger) \in j..Len(ledger)
    BY DEF IInv, StockInv, StockTypeOK
  <2> QED
    BY <2>3, <2>4 DEF QuantityOf
<1> QED
  BY <1>1, <1>2, <1>3

LEMMA NextClosed ==
  ASSUME IInv, Fresh, NoGoodsLockedUp, [Next]_vars
  PROVE  NoGoodsLockedUp'
<1>1. CASE UNCHANGED <<disabled, ledger>>
  BY <1>1 DEF NoGoodsLockedUp
<1>2. ASSUME NEW s \in Sessions, NEW d, Enable(s, d)
      PROVE  NoGoodsLockedUp'
  <2>1. disabled' = disabled \ {d} /\ ledger' = ledger
    BY <1>2 DEF Enable, stockVars
  <2> QED
    BY <2>1 DEF NoGoodsLockedUp
<1>3. ASSUME NEW s \in Sessions, NEW d \in Materials \cup Suppliers, Disable(s, d)
      PROVE  NoGoodsLockedUp'
  <2>1. disabled' = disabled \cup {d} /\ ledger' = ledger /\ d \notin Warehouses
    BY <1>3, ProcurementAssumption DEF Disable, stockVars
  <2>2. \A k \in Keys : k[1] \in Warehouses
    BY DEF Keys
  <2> QED
    BY <2>1, <2>2 DEF NoGoodsLockedUp
<1>4. ASSUME NEW s \in Sessions, NEW w \in Warehouses, DisableWarehouse(s, w)
      PROVE  NoGoodsLockedUp'
  BY <1>4, DisableWarehouseClosed
<1>5. ASSUME NEW s \in Sessions, NEW o \in Orders, NEW w \in Warehouses,
             NEW q \in ReceiptRequests(o), CreateReceipt(s, o, w, q)
      PROVE  NoGoodsLockedUp'
  BY <1>5, CreateReceiptClosed
<1>6. ASSUME NEW s \in Sessions, NEW i \in 1..Len(receipts), ReverseReceipt(s, i)
      PROVE  NoGoodsLockedUp'
  BY <1>6, ReverseReceiptClosed
<1>7. CASE UNCHANGED vars
  BY <1>1, <1>7 DEF vars, documents
<1>8. ASSUME NEW s \in Sessions
      PROVE  /\ Begin(s) \/ Rollback(s) => UNCHANGED <<disabled, ledger>>
             /\ \A o, src : CreatePo(s, o, src) => UNCHANGED <<disabled, ledger>>
             /\ \A o : ConfirmPo(s, o) \/ CancelPo(s, o)
                   => UNCHANGED <<disabled, ledger>>
             /\ \A r : CancelPr(s, r) => UNCHANGED <<disabled, ledger>>
  BY DEF Begin, Rollback, CreatePo, ConfirmPo, CancelPo, CancelPr, documents,
         stockVars
<1>10. ASSUME NEW s \in Sessions, NEW k \in Keys, NEW n \in 0..MaxQuantity,
              NEW rate \in CountRates, PostCount(s, k, n, rate)
       PROVE  NoGoodsLockedUp'
  <2>1. n \in Nat
    OBVIOUS
  <2> QED
    BY <1>10, <2>1, PostCountClosed
<1>9. CASE Next
  BY <1>1, <1>2, <1>3, <1>4, <1>5, <1>6, <1>8, <1>9, <1>10, Zenon
     DEF Next, EnableWarehouse, DisableMaterial, EnableMaterial,
         DisableSupplier, EnableSupplier
<1> QED
  BY <1>7, <1>9

\* As long as requests do not overlap, no received goods are locked up in a
\* disabled warehouse: it was empty when it was disabled (_assert_no_stock of
\* warehouse_service), no receipt enters it afterwards (_active_warehouse of
\* create_receipt), and what a count posted later finds was never received.
THEOREM DisabledWarehousesAreClosed ==
  ASSUME Serial PROVE Spec => []NoGoodsLockedUp
<1>1. Init => NoGoodsLockedUp
  <2>1. Init => 1..Len(ledger) = {}
    BY DEF Init, StockInit
  <2> QED
    BY <2>1, Zenon DEF NoGoodsLockedUp
<1>2. IInv /\ Fresh /\ NoGoodsLockedUp /\ [Next]_vars => NoGoodsLockedUp'
  BY NextClosed
<1> QED
  BY <1>1, <1>2, SerialChain, PTL DEF Spec

-----------------------------------------------------------------------------
(* Conversion: what active orders draw from requisition items.  Whatever     *)
(* transactions overlap, it adds up as long as no cancelled order is brought *)
(* back, which only the stale write-back of a receipt does (lost_receipt).   *)

\* What the lines of active orders draw from item p.
Taken(st, src, p) ==
    SumUpTo([l \in Lines |-> IF Active(st[OrderOf[l]]) THEN src[l][p] ELSE 0],
            LineCount)

LEMMA TakenIs ==
  /\ \A p : ActiveSources(p) = Taken(poStatus, source, p)
  /\ \A p : ActiveSources(p)' = Taken(poStatus', source', p)
  BY DEF ActiveSources, Taken, Active

LEMMA TakenType ==
  ASSUME NEW st, NEW src \in [Lines -> [Items -> Nat]], NEW p \in Items
  PROVE  Taken(st, src, p) \in Nat
<1> DEFINE f == [l \in Lines |-> IF Active(st[OrderOf[l]]) THEN src[l][p] ELSE 0]
<1>1. LineCount \in Nat /\ Lines = 1..LineCount
  BY ProcurementAssumption DEF Lines
<1>2. \A l \in 1..LineCount : f[l] \in Nat
  BY <1>1
<1>3. Taken(st, src, p) = SumUpTo(f, LineCount)
  BY DEF Taken
<1> HIDE DEF f
<1> QED
  BY <1>1, <1>2, <1>3, SumNat

LEMMA TakenSame ==
  ASSUME NEW st, NEW st2, NEW src, NEW p,
         \A o \in Orders : Active(st2[o]) <=> Active(st[o])
  PROVE  Taken(st2, src, p) = Taken(st, src, p)
<1>1. \A l \in Lines : OrderOf[l] \in Orders
  BY ProcurementAssumption
<1>2. [l \in Lines |-> IF Active(st2[OrderOf[l]]) THEN src[l][p] ELSE 0]
         = [l \in Lines |-> IF Active(st[OrderOf[l]]) THEN src[l][p] ELSE 0]
  BY <1>1
<1> QED
  BY <1>2, Zenon DEF Taken

\* Of two maps of order states, st2 has o active as well.
Activates(st, st2, o) ==
    /\ ~Active(st[o]) /\ Active(st2[o])
    /\ \A x \in Orders : x # o => (Active(st2[x]) <=> Active(st[x]))

\* The sources of the lines of other orders are the same.
SameElsewhere(src, src2, o) == \A l \in Lines : OrderOf[l] # o => src2[l] = src[l]

\* An order that becomes active adds what its lines draw.
LEMMA TakenActivated ==
  ASSUME NEW st, NEW st2, NEW src \in [Lines -> [Items -> Nat]],
         NEW src2 \in [Lines -> [Items -> Nat]], NEW o \in Orders,
         Activates(st, st2, o), SameElsewhere(src, src2, o), NEW p \in Items
  PROVE  Taken(st2, src2, p) = Taken(st, src, p) + Drawn(src2, o, p)
<1> DEFINE f == [l \in Lines |-> IF Active(st[OrderOf[l]]) THEN src[l][p] ELSE 0]
           g == [l \in Lines |-> IF OrderOf[l] = o THEN src2[l][p] ELSE 0]
           h == [l \in Lines |-> IF Active(st2[OrderOf[l]]) THEN src2[l][p] ELSE 0]
<1>1. LineCount \in Nat /\ Lines = 1..LineCount
  BY ProcurementAssumption DEF Lines
<1>2. ASSUME NEW l \in Lines
      PROVE  f[l] \in Int /\ g[l] \in Int /\ h[l] = f[l] + g[l]
  <2>1. /\ OrderOf[l] \in Orders /\ src[l][p] \in Nat /\ src2[l][p] \in Nat
    BY ProcurementAssumption
  <2>2. CASE OrderOf[l] = o
    <3>1. f[l] = 0 /\ g[l] = src2[l][p] /\ h[l] = src2[l][p]
      BY <2>2 DEF Activates
    <3> QED
      BY <2>1, <3>1
  <2>3. CASE OrderOf[l] # o
    <3>1. g[l] = 0 /\ h[l] = f[l]
      BY <2>1, <2>3 DEF Activates, SameElsewhere
    <3>2. f[l] \in Int
      BY <2>1
    <3> QED
      BY <3>1, <3>2
  <2> QED
    BY <2>2, <2>3
<1>3. /\ Taken(st, src, p) = SumUpTo(f, LineCount)
      /\ Taken(st2, src2, p) = SumUpTo(h, LineCount)
      /\ Drawn(src2, o, p) = SumUpTo(g, LineCount)
  BY DEF Taken, Drawn
<1> HIDE DEF f, g, h
<1>4. IntTerms(f, LineCount) /\ IntTerms(g, LineCount) /\ TermsAdd(h, f, g, LineCount)
  BY <1>1, <1>2 DEF IntTerms, TermsAdd
<1>5. SumUpTo(h, LineCount) = SumUpTo(f, LineCount) + SumUpTo(g, LineCount)
  BY <1>1, <1>4, SumAdd
<1> QED
  BY <1>3, <1>5

\* An order draws nothing from the items of a requisition it has no source in.
LEMMA NotDrawn ==
  ASSUME NEW src, NEW o, NEW p \in Items, Drawn(src, o, p) \in Nat,
         RequisitionOf[p] \notin RequisitionsOf(src, o)
  PROVE  Drawn(src, o, p) = 0
<1>1. ~(Drawn(src, o, p) > 0)
  BY DEF RequisitionsOf
<1> QED
  BY <1>1

\* An order that a session saw, or that has receipts, exists.
NoGhosts ==
    /\ \A s \in Sessions : IsOpen(s) =>
          \A o \in Orders : snap[s].poStatus[o] # "NONE" => poStatus[o] # "NONE"
    /\ \A i \in 1..Len(receipts) : poStatus[receipts[i].order] # "NONE"

\* No item is converted beyond what was requested.
WithinRequest == \A p \in Items : converted[p] <= Requested[p]

ConversionInv == /\ NoGhosts
                 /\ WithinRequest
                 /\ ConvertedMatchesSources
                 /\ PrStatusDerived

\* What CancelledIsTerminal says of a step.
StaysCancelled ==
    \A o \in Orders : poStatus[o] = "CANCELLED" => poStatus'[o] = "CANCELLED"

\* recompute_po_status leaves an order as it is or gives it a status of a
\* confirmed order.
LEMMA RecomputedAny ==
  ASSUME NEW s, NEW o \in Orders, NEW rcv, poStatus \in [Orders -> PoStatus],
         poStatus' = RecomputePoStatus(s, o, rcv)
  PROVE  /\ \A x \in Orders : x # o => poStatus'[x] = poStatus[x]
         /\ \/ poStatus'[o] = poStatus[o]
            \/ poStatus'[o] \in {"CONFIRMED", "PARTIALLY_RECEIVED", "RECEIVED"}
<1>1. PICK st : st = StatusFrom(rcv, o)
  OBVIOUS
<1>2. st \in {"CONFIRMED", "PARTIALLY_RECEIVED", "RECEIVED"}
  BY <1>1 DEF StatusFrom
<1>3. poStatus' = poStatus \/ poStatus' = [poStatus EXCEPT ![o] = st]
  BY <1>1 DEF RecomputePoStatus
<1> QED
  BY <1>2, <1>3

\* What receipts and reversals do to the orders, and which order they touch.
LEMMA ReceiptEffect ==
  ASSUME IInv, NoGhosts, NEW s \in Sessions,
         \/ \E o \in Orders, w \in Warehouses :
               \E q \in ReceiptRequests(o) : CreateReceipt(s, o, w, q)
         \/ \E i \in 1..Len(receipts) : ReverseReceipt(s, i)
  PROVE  /\ source' = source /\ prStatus' = prStatus /\ converted' = converted
         /\ Commit(s)
         /\ \E o \in Orders : \E rcv :
               /\ poStatus[o] # "NONE"
               /\ poStatus' = RecomputePoStatus(s, o, rcv)
               /\ \A i \in 1..Len(receipts') :
                     \/ receipts'[i].order = o
                     \/ i \in 1..Len(receipts) /\ receipts'[i].order = receipts[i].order
<1>1. receipts \in Seq(Receipt)
  BY DEF IInv, DocsOK
<1>2. ASSUME NEW o \in Orders, NEW w \in Warehouses, NEW q \in ReceiptRequests(o),
             CreateReceipt(s, o, w, q)
      PROVE  /\ source' = source /\ prStatus' = prStatus /\ converted' = converted
             /\ Commit(s) /\ poStatus[o] # "NONE"
             /\ poStatus' = RecomputePoStatus(s, o, SeenReceived(s, q))
             /\ \A i \in 1..Len(receipts') :
                   \/ receipts'[i].order = o
                   \/ i \in 1..Len(receipts) /\ receipts'[i].order = receipts[i].order
  <2>1. /\ source' = source /\ prStatus' = prStatus /\ converted' = converted
        /\ Commit(s) /\ IsOpen(s) /\ snap[s].poStatus[o] \in Receivable
        /\ poStatus' = RecomputePoStatus(s, o, SeenReceived(s, q))
    BY <1>2 DEF CreateReceipt
  <2>2. poStatus[o] # "NONE"
    BY <2>1 DEF NoGhosts, Receivable
  <2>3. PICK new : /\ new = [order |-> o, warehouse |-> w, quantity |-> q,
                             status |-> "POSTED"]
                   /\ receipts' = Append(receipts, new)
    BY <1>2 DEF CreateReceipt
  <2>4. new.order = o
    BY <2>3
  <2>5. ASSUME NEW i \in 1..Len(receipts')
        PROVE  \/ receipts'[i] = new
               \/ i \in 1..Len(receipts) /\ receipts'[i] = receipts[i]
    BY <1>1, <2>3
  <2> QED
    BY <2>1, <2>2, <2>4, <2>5, Zenon
<1>3. ASSUME NEW i \in 1..Len(receipts), ReverseReceipt(s, i)
      PROVE  /\ source' = source /\ prStatus' = prStatus /\ converted' = converted
             /\ Commit(s)
             /\ \E o \in Orders : \E rcv :
                   /\ poStatus[o] # "NONE"
                   /\ poStatus' = RecomputePoStatus(s, o, rcv)
             /\ \A h \in 1..Len(receipts') :
                   h \in 1..Len(receipts) /\ receipts'[h].order = receipts[h].order
  <2>1. /\ source' = source /\ prStatus' = prStatus /\ converted' = converted
        /\ Commit(s) /\ receipts' = [receipts EXCEPT ![i].status = "REVERSED"]
    BY <1>3 DEF ReverseReceipt
  <2>2. PICK o : o = receipts[i].order
    OBVIOUS
  <2>3. o \in Orders /\ poStatus[o] # "NONE"
    <3>1. receipts[i] \in Receipt
      BY <1>1
    <3> QED
      BY <2>2, <3>1 DEF Receipt, NoGhosts
  <2>4. PICK rcv : poStatus' = RecomputePoStatus(s, o, rcv)
    BY <1>3, <2>2 DEF ReverseReceipt
  <2>5. /\ Len(receipts') = Len(receipts)
        /\ \A h \in 1..Len(receipts) : receipts'[h].order = receipts[h].order
    BY <1>1, <2>1 DEF Receipt
  <2> QED
    BY <2>1, <2>3, <2>4, <2>5
<1> QED
  BY <1>2, <1>3, Zenon

\* A step that changes no order, source, converted quantity or requisition,
\* whose receipts keep their orders and whose sessions see what is there.
LEMMA ConversionUnchanged ==
  ASSUME ConversionInv, UNCHANGED <<prStatus, converted, poStatus, source>>,
         NoGhosts'
  PROVE  ConversionInv'
<1>1. WithinRequest'
  BY DEF ConversionInv, WithinRequest
<1>2. ConvertedMatchesSources'
  BY TakenIs DEF ConversionInv, ConvertedMatchesSources
<1>3. PrStatusDerived'
  BY DEF ConversionInv, PrStatusDerived, FullyConverted
<1> QED
  BY <1>1, <1>2, <1>3 DEF ConversionInv

\* Sessions close, and orders that exist go on existing.
LEMMA GhostsCommit ==
  ASSUME IInv, NoGhosts, NEW s \in Sessions, Commit(s),
         \A o \in Orders : poStatus[o] # "NONE" => poStatus'[o] # "NONE",
         \A i \in 1..Len(receipts') : poStatus'[receipts'[i].order] # "NONE"
  PROVE  NoGhosts'
<1>1. snap \in [Sessions -> Snapshot \cup {NoSnapshot}]
  BY DEF IInv, SnapOK
<1>2. ASSUME NEW t \in Sessions, snap'[t] # NoSnapshot
      PROVE  snap[t] # NoSnapshot /\ snap'[t] = snap[t]
  BY <1>1, <1>2 DEF Commit
<1> QED
  BY <1>2 DEF NoGhosts, IsOpen

\* The receipts stay as they are.
LEMMA GhostsKept ==
  ASSUME IInv, NoGhosts, NEW s \in Sessions, Commit(s), receipts' = receipts,
         \A o \in Orders : poStatus[o] # "NONE" => poStatus'[o] # "NONE"
  PROVE  NoGhosts'
<1>1. \A i \in 1..Len(receipts) : receipts[i] \in Receipt
  BY DEF IInv, DocsOK
<1>2. \A i \in 1..Len(receipts) : receipts[i].order \in Orders
  BY <1>1 DEF Receipt
<1>3. \A i \in 1..Len(receipts) : poStatus'[receipts[i].order] # "NONE"
  BY <1>2 DEF NoGhosts
<1> QED
  BY <1>3, GhostsCommit

LEMMA CreatePoConversion ==
  ASSUME IInv, IInv', ConversionInv, NEW s \in Sessions, NEW o \in Orders,
         NEW src \in OrderRequests(o), CreatePo(s, o, src)
  PROVE  ConversionInv'
<1> DEFINE rs == RequisitionsOf(src, o)
<1>1. /\ converted' = [p \in Items |-> converted[p] + Drawn(src, o, p)]
      /\ prStatus' = FlipToConverted(converted', rs)
      /\ source' = [l \in Lines |-> IF OrderOf[l] = o THEN src[l] ELSE source[l]]
      /\ poStatus' = [poStatus EXCEPT ![o] = "DRAFT"] /\ poStatus[o] = "NONE"
      /\ ConvertOK(src, o) /\ Commit(s) /\ receipts' = receipts
  BY DEF CreatePo
<1>2. /\ converted \in [Items -> Nat] /\ poStatus \in [Orders -> PoStatus]
      /\ source \in [Lines -> [Items -> Nat]]
      /\ source' \in [Lines -> [Items -> Nat]]
      /\ prStatus \in [Requisitions -> PrStatus]
      /\ Requested \in [Items -> Nat \ {0}] /\ RequisitionOf \in [Items -> Requisitions]
  BY ProcurementAssumption DEF IInv, DocsOK
<1>3. /\ LinesOf(o) \subseteq Lines /\ \A l \in LinesOf(o) : source'[l] = src[l]
  BY <1>1 DEF LinesOf
<1>4. ASSUME NEW p \in Items
      PROVE  Drawn(source', o, p) = Drawn(src, o, p) /\ Drawn(src, o, p) \in Nat
  <2>1. PICK n \in [Lines -> [Items -> Nat]] : n = source'
    BY <1>2
  <2>2. Drawn(n, o, p) = Drawn(src, o, p)
    <3>1. SameSourcesFor(o, n, src)
      BY <1>3, <2>1 DEF SameSourcesFor
    <3>2. \A x : Drawn(n, o, x) = Drawn(src, o, x)
      BY <3>1, SameSources
    <3> QED
      BY <3>2, Zenon
  <2>3. Drawn(n, o, p) \in Nat
    BY <1>3, DrawnType
  <2> QED
    BY <2>1, <2>2, <2>3
<1>5. NoGhosts'
  <2>1. \A x \in Orders : poStatus[x] # "NONE" => poStatus'[x] # "NONE"
    BY <1>1, <1>2
  <2> QED
    BY <1>1, <2>1, GhostsKept DEF ConversionInv
<1>6. ASSUME NEW p \in Items PROVE converted'[p] <= Requested[p]
  <2>1. /\ converted[p] <= Requested[p] /\ converted[p] \in Nat
        /\ converted'[p] = converted[p] + Drawn(src, o, p)
    BY <1>1, <1>2 DEF ConversionInv, WithinRequest
  <2>2. Drawn(src, o, p) > 0 => converted[p] + Drawn(src, o, p) <= Requested[p]
    BY <1>1 DEF ConvertOK
  <2> QED
    BY <1>2, <1>4, <2>1, <2>2
<1>7. ASSUME NEW p \in Items PROVE converted'[p] = ActiveSources(p)'
  <2>1. ~Active(poStatus[o]) /\ Active(poStatus'[o])
    BY <1>1, <1>2 DEF Active
  <2>2. \A x \in Orders : x # o => (Active(poStatus'[x]) <=> Active(poStatus[x]))
    BY <1>1, <1>2
  <2>3. \A l \in Lines : OrderOf[l] # o => source'[l] = source[l]
    BY <1>1
  <2>4. Taken(poStatus', source', p)
           = Taken(poStatus, source, p) + Drawn(source', o, p)
    <3>1. PICK n \in [Lines -> [Items -> Nat]] : n = source'
      BY <1>2
    <3>2. PICK st : st = poStatus'
      OBVIOUS
    <3>3. Activates(poStatus, st, o) /\ SameElsewhere(source, n, o)
      BY <2>1, <2>2, <2>3, <3>1, <3>2 DEF Activates, SameElsewhere
    <3>4. Taken(st, n, p) = Taken(poStatus, source, p) + Drawn(n, o, p)
      BY <1>2, <3>3, TakenActivated
    <3> QED
      BY <3>1, <3>2, <3>4
  <2>5. converted[p] = Taken(poStatus, source, p)
    BY TakenIs DEF ConversionInv, ConvertedMatchesSources
  <2>6. converted'[p] = converted[p] + Drawn(src, o, p)
    BY <1>1
  <2>7. ActiveSources(p)' = Taken(poStatus', source', p)
    BY TakenIs
  <2> QED
    BY <1>4, <2>4, <2>5, <2>6, <2>7
<1>8. ASSUME NEW r \in Requisitions
      PROVE  /\ prStatus'[r] = "CONVERTED" => FullyConverted(converted', r)
             /\ prStatus'[r] = "APPROVED" => ~FullyConverted(converted', r)
  <2>1. prStatus'[r] = IF r \in rs /\ prStatus[r] = "APPROVED"
                          /\ FullyConverted(converted', r)
                       THEN "CONVERTED" ELSE prStatus[r]
    BY <1>1 DEF FlipToConverted
  <2>2. FullyConverted(converted, r) => FullyConverted(converted', r)
    <3>1. ASSUME NEW p \in Items
          PROVE  converted'[p] \in Nat /\ converted'[p] >= converted[p]
      <4>1. converted'[p] = converted[p] + Drawn(src, o, p)
        BY <1>1
      <4> QED
        BY <1>2, <1>4, <4>1
    <3> QED
      BY <1>2, <3>1 DEF FullyConverted
  <2>3. r \notin rs => (FullyConverted(converted', r) => FullyConverted(converted, r))
    <3>1. ASSUME r \notin rs, NEW p \in Items, RequisitionOf[p] = r
          PROVE  converted'[p] = converted[p]
      <4>1. Drawn(src, o, p) = 0
        BY <1>4, <3>1, NotDrawn
      <4> QED
        BY <1>1, <1>2, <4>1
    <3> QED
      BY <3>1 DEF FullyConverted
  <2>4. /\ prStatus[r] = "CONVERTED" => FullyConverted(converted, r)
        /\ prStatus[r] = "APPROVED" => ~FullyConverted(converted, r)
    BY DEF ConversionInv, PrStatusDerived
  <2> HIDE DEF rs
  <2> QED
    BY <2>1, <2>2, <2>3, <2>4
<1> QED
  BY <1>5, <1>6, <1>7, <1>8 DEF ConversionInv, WithinRequest,
     ConvertedMatchesSources, PrStatusDerived, FullyConverted

LEMMA CancelPoConversion ==
  ASSUME IInv, ConversionInv, NEW s \in Sessions, NEW o \in Orders, CancelPo(s, o)
  PROVE  ConversionInv'
<1> DEFINE rs == RequisitionsOf(source, o)
<1>1. /\ converted' = [p \in Items |-> converted[p] - Drawn(source, o, p)]
      /\ prStatus' = FlipBackToApproved(converted', rs)
      /\ source' = source /\ poStatus[o] \in {"DRAFT", "CONFIRMED"}
      /\ poStatus' = [poStatus EXCEPT ![o] = "CANCELLED"]
      /\ Commit(s) /\ receipts' = receipts
  BY DEF CancelPo, Unconverted
<1>2. /\ converted \in [Items -> Nat] /\ poStatus \in [Orders -> PoStatus]
      /\ source \in [Lines -> [Items -> Nat]]
      /\ prStatus \in [Requisitions -> PrStatus]
      /\ Requested \in [Items -> Nat \ {0}] /\ RequisitionOf \in [Items -> Requisitions]
  BY ProcurementAssumption DEF IInv, DocsOK
<1>3. ASSUME NEW p \in Items PROVE Drawn(source, o, p) \in Nat
  <2>1. LinesOf(o) \subseteq Lines
    BY DEF LinesOf
  <2> QED
    BY <1>2, <2>1, DrawnType
<1>4. NoGhosts'
  <2>1. \A x \in Orders : poStatus[x] # "NONE" => poStatus'[x] # "NONE"
    BY <1>1, <1>2
  <2> QED
    BY <1>1, <2>1, GhostsKept DEF ConversionInv
<1>5. ASSUME NEW p \in Items
      PROVE  /\ converted'[p] = converted[p] - Drawn(source, o, p)
             /\ converted'[p] \in Int /\ converted'[p] <= converted[p]
  BY <1>1, <1>2, <1>3
<1>6. ASSUME NEW p \in Items PROVE converted'[p] <= Requested[p]
  <2>1. converted[p] <= Requested[p] /\ converted[p] \in Nat
    BY <1>2 DEF ConversionInv, WithinRequest
  <2> QED
    BY <1>2, <1>5, <2>1
<1>7. ASSUME NEW p \in Items PROVE converted'[p] = ActiveSources(p)'
  <2>1. Active(poStatus[o]) /\ ~Active(poStatus'[o])
    BY <1>1, <1>2 DEF Active
  <2>2. \A x \in Orders : x # o => (Active(poStatus[x]) <=> Active(poStatus'[x]))
    BY <1>1, <1>2
  <2>3. Taken(poStatus, source, p)
           = Taken(poStatus', source, p) + Drawn(source, o, p)
    <3>1. PICK st : st = poStatus'
      OBVIOUS
    <3>2. Activates(st, poStatus, o) /\ SameElsewhere(source, source, o)
      BY <2>1, <2>2, <3>1 DEF Activates, SameElsewhere
    <3>3. Taken(poStatus, source, p) = Taken(st, source, p) + Drawn(source, o, p)
      BY <1>2, <3>2, TakenActivated
    <3> QED
      BY <3>1, <3>3
  <2>4. converted[p] = Taken(poStatus, source, p)
    BY TakenIs DEF ConversionInv, ConvertedMatchesSources
  <2>5. ActiveSources(p)' = Taken(poStatus', source, p)
    BY <1>1, TakenIs
  <2>6. Taken(poStatus', source, p) \in Nat
    BY <1>2, TakenType
  <2> QED
    BY <1>3, <1>5, <2>3, <2>4, <2>5, <2>6
<1>8. ASSUME NEW r \in Requisitions
      PROVE  /\ prStatus'[r] = "CONVERTED" => FullyConverted(converted', r)
             /\ prStatus'[r] = "APPROVED" => ~FullyConverted(converted', r)
  <2>1. prStatus'[r] = IF r \in rs /\ prStatus[r] = "CONVERTED"
                          /\ ~FullyConverted(converted', r)
                       THEN "APPROVED" ELSE prStatus[r]
    BY <1>1 DEF FlipBackToApproved
  <2>2. FullyConverted(converted', r) => FullyConverted(converted, r)
    BY <1>2, <1>5 DEF FullyConverted
  <2>3. r \notin rs => (FullyConverted(converted, r) => FullyConverted(converted', r))
    <3>1. ASSUME r \notin rs, NEW p \in Items, RequisitionOf[p] = r
          PROVE  converted'[p] = converted[p]
      <4>1. Drawn(source, o, p) = 0
        BY <1>3, <3>1, NotDrawn
      <4> QED
        BY <1>1, <1>2, <4>1
    <3> QED
      BY <3>1 DEF FullyConverted
  <2>4. /\ prStatus[r] = "CONVERTED" => FullyConverted(converted, r)
        /\ prStatus[r] = "APPROVED" => ~FullyConverted(converted, r)
    BY DEF ConversionInv, PrStatusDerived
  <2> HIDE DEF rs
  <2> QED
    BY <2>1, <2>2, <2>3, <2>4
<1> QED
  BY <1>4, <1>6, <1>7, <1>8 DEF ConversionInv, WithinRequest,
     ConvertedMatchesSources, PrStatusDerived, FullyConverted

\* Receipts and reversals, when they bring no cancelled order back.
LEMMA ReceiptsConversion ==
  ASSUME IInv, ConversionInv, StaysCancelled, NEW s \in Sessions,
         \/ \E o \in Orders, w \in Warehouses :
               \E q \in ReceiptRequests(o) : CreateReceipt(s, o, w, q)
         \/ \E i \in 1..Len(receipts) : ReverseReceipt(s, i)
  PROVE  ConversionInv'
<1>1. /\ source' = source /\ prStatus' = prStatus /\ converted' = converted
      /\ Commit(s)
  BY ReceiptEffect DEF ConversionInv
<1>2. PICK o \in Orders : \E rcv :
         /\ poStatus[o] # "NONE"
         /\ poStatus' = RecomputePoStatus(s, o, rcv)
         /\ \A i \in 1..Len(receipts') :
               \/ receipts'[i].order = o
               \/ i \in 1..Len(receipts) /\ receipts'[i].order = receipts[i].order
  BY ReceiptEffect DEF ConversionInv
<1>3. poStatus \in [Orders -> PoStatus] /\ receipts \in Seq(Receipt)
  BY DEF IInv, DocsOK
<1>4. /\ \A x \in Orders : x # o => poStatus'[x] = poStatus[x]
      /\ \/ poStatus'[o] = poStatus[o]
         \/ poStatus'[o] \in {"CONFIRMED", "PARTIALLY_RECEIVED", "RECEIVED"}
  BY <1>2, <1>3, RecomputedAny
<1>5. \A x \in Orders : Active(poStatus'[x]) <=> Active(poStatus[x])
  BY <1>2, <1>4 DEF StaysCancelled, Active
<1>6. \A x \in Orders : poStatus[x] # "NONE" => poStatus'[x] # "NONE"
  BY <1>4
<1>7. NoGhosts'
  <2>1. \A i \in 1..Len(receipts) : receipts[i] \in Receipt
    BY <1>3
  <2>2. \A i \in 1..Len(receipts) :
           receipts[i].order \in Orders /\ poStatus[receipts[i].order] # "NONE"
    BY <2>1 DEF Receipt, ConversionInv, NoGhosts
  <2>3. \A i \in 1..Len(receipts') : poStatus'[receipts'[i].order] # "NONE"
    BY <1>2, <1>6, <2>2
  <2> QED
    BY <1>1, <1>6, <2>3, GhostsCommit DEF ConversionInv
<1>8. WithinRequest' /\ PrStatusDerived'
  BY <1>1 DEF ConversionInv, WithinRequest, PrStatusDerived, FullyConverted
<1>9. ConvertedMatchesSources'
  <2>1. \A p \in Items : Taken(poStatus', source, p) = Taken(poStatus, source, p)
    BY <1>5, TakenSame
  <2> QED
    BY <1>1, <2>1, TakenIs DEF ConversionInv, ConvertedMatchesSources
<1> QED
  BY <1>7, <1>8, <1>9 DEF ConversionInv

LEMMA ConfirmPoConversion ==
  ASSUME IInv, ConversionInv, NEW s \in Sessions, NEW o \in Orders, ConfirmPo(s, o)
  PROVE  ConversionInv'
<1>1. /\ poStatus' = [poStatus EXCEPT ![o] = "CONFIRMED"] /\ poStatus[o] = "DRAFT"
      /\ source' = source /\ prStatus' = prStatus /\ converted' = converted
      /\ receipts' = receipts /\ Commit(s) /\ poStatus \in [Orders -> PoStatus]
  BY DEF ConfirmPo, IInv, DocsOK
<1>2. \A x \in Orders : /\ Active(poStatus'[x]) <=> Active(poStatus[x])
                        /\ poStatus[x] # "NONE" => poStatus'[x] # "NONE"
  BY <1>1 DEF Active
<1>3. NoGhosts'
  BY <1>1, <1>2, GhostsKept DEF ConversionInv
<1>4. WithinRequest' /\ PrStatusDerived'
  BY <1>1 DEF ConversionInv, WithinRequest, PrStatusDerived, FullyConverted
<1>5. ConvertedMatchesSources'
  <2>1. \A p \in Items : Taken(poStatus', source, p) = Taken(poStatus, source, p)
    BY <1>2, TakenSame
  <2> QED
    BY <1>1, <2>1, TakenIs DEF ConversionInv, ConvertedMatchesSources
<1> QED
  BY <1>3, <1>4, <1>5 DEF ConversionInv

LEMMA CancelPrConversion ==
  ASSUME IInv, ConversionInv, NEW s \in Sessions, NEW r \in Requisitions,
         CancelPr(s, r)
  PROVE  ConversionInv'
<1>1. /\ prStatus' = [prStatus EXCEPT ![r] = "CANCELLED"]
      /\ UNCHANGED <<converted, poStatus, source, receipts>> /\ Commit(s)
      /\ prStatus \in [Requisitions -> PrStatus]
  BY DEF CancelPr, IInv, DocsOK
<1>2. NoGhosts'
  BY <1>1, GhostsKept DEF ConversionInv
<1>3. WithinRequest'
  BY <1>1 DEF ConversionInv, WithinRequest
<1>4. PrStatusDerived'
  BY <1>1 DEF ConversionInv, PrStatusDerived, FullyConverted
<1>5. ConvertedMatchesSources'
  BY <1>1, TakenIs DEF ConversionInv, ConvertedMatchesSources
<1> QED
  BY <1>2, <1>3, <1>4, <1>5 DEF ConversionInv

LEMMA BeginConversion ==
  ASSUME IInv, ConversionInv, NEW s \in Sessions, Begin(s)
  PROVE  ConversionInv'
<1>1. /\ UNCHANGED <<prStatus, converted, poStatus, source, receipts>>
      /\ snap' = [snap EXCEPT ![s] = View]
      /\ snap \in [Sessions -> Snapshot \cup {NoSnapshot}]
  BY DEF Begin, documents, IInv, SnapOK
<1>2. View.poStatus = poStatus
  BY DEF View
<1> HIDE DEF View
<1>3. ASSUME NEW t \in Sessions, snap'[t] # NoSnapshot, NEW o \in Orders,
             snap'[t].poStatus[o] # "NONE"
      PROVE  poStatus[o] # "NONE"
  <2>1. CASE t = s
    BY <1>1, <1>2, <1>3, <2>1
  <2>2. CASE t # s
    BY <1>1, <1>3, <2>2 DEF ConversionInv, NoGhosts, IsOpen
  <2> QED
    BY <2>1, <2>2
<1>4. NoGhosts'
  BY <1>1, <1>3 DEF ConversionInv, NoGhosts, IsOpen
<1> QED
  BY <1>1, <1>4, ConversionUnchanged

LEMMA InitConversion == Init => ConversionInv
<1> SUFFICES ASSUME Init PROVE ConversionInv
  OBVIOUS
<1>1. /\ receipts = << >> /\ Len(receipts) = 0 /\ snap = [s \in Sessions |-> NoSnapshot]
      /\ converted = [p \in Items |-> 0] /\ poStatus = [o \in Orders |-> "NONE"]
      /\ prStatus = [r \in Requisitions |-> "APPROVED"]
  BY DEF Init
<1>2. NoGhosts
  BY <1>1 DEF NoGhosts, IsOpen
<1>3. WithinRequest
  BY <1>1, ProcurementAssumption DEF WithinRequest
<1>4. PrStatusDerived
  <2>1. ASSUME NEW r \in Requisitions PROVE ~FullyConverted(converted, r)
    <3>1. PICK p \in Items : RequisitionOf[p] = r
      BY ProcurementAssumption
    <3>2. converted[p] = 0 /\ Requested[p] \in Nat \ {0}
      BY <1>1, ProcurementAssumption
    <3>3. ~(converted[p] >= Requested[p])
      BY <3>2
    <3> QED
      BY <3>1, <3>3 DEF FullyConverted
  <2> QED
    BY <1>1, <2>1 DEF PrStatusDerived
<1>5. ConvertedMatchesSources
  <2>1. ASSUME NEW p \in Items PROVE ActiveSources(p) = 0
    <3> DEFINE f == [l \in Lines |-> IF Active(poStatus[OrderOf[l]])
                                     THEN source[l][p] ELSE 0]
    <3>1. LineCount \in Nat /\ Lines = 1..LineCount
      BY ProcurementAssumption DEF Lines
    <3>2. \A l \in Lines : ~Active(poStatus[OrderOf[l]])
      BY <1>1, ProcurementAssumption DEF Active
    <3>3. \A l \in 1..LineCount : f[l] = 0
      BY <3>1, <3>2
    <3>4. ActiveSources(p) = SumUpTo(f, LineCount)
      BY DEF ActiveSources
    <3> HIDE DEF f
    <3> QED
      BY <3>1, <3>3, <3>4, SumOfZeros
  <2> QED
    BY <1>1, <2>1 DEF ConvertedMatchesSources
<1> QED
  BY <1>2, <1>3, <1>4, <1>5 DEF ConversionInv

LEMMA NextConversion ==
  ASSUME IInv, ConversionInv, [Next]_vars, [StaysCancelled]_vars
  PROVE  ConversionInv'
<1>1. CASE UNCHANGED vars
  <2>1. NoGhosts'
    BY <1>1 DEF ConversionInv, NoGhosts, IsOpen, vars, documents
  <2> QED
    BY <1>1, <2>1, ConversionUnchanged DEF vars, documents
<1>2. CASE Next /\ StaysCancelled
  <2>1. IInv'
    BY NextIInv
  <2>2. ASSUME NEW s \in Sessions, Commit(s),
               UNCHANGED <<prStatus, converted, poStatus, source, receipts>>
        PROVE  ConversionInv'
    BY <2>2, GhostsKept, ConversionUnchanged DEF ConversionInv
  <2>3. ASSUME NEW s \in Sessions
        PROVE  /\ Rollback(s) => Commit(s)
                     /\ UNCHANGED <<prStatus, converted, poStatus, source, receipts>>
               /\ \A d : Disable(s, d) \/ Enable(s, d) => Commit(s)
                     /\ UNCHANGED <<prStatus, converted, poStatus, source, receipts>>
               /\ \A k, n, rate : PostCount(s, k, n, rate) => Commit(s)
                     /\ UNCHANGED <<prStatus, converted, poStatus, source, receipts>>
    BY DEF Rollback, Disable, Enable, PostCount, documents
  <2>4. ASSUME NEW s \in Sessions, NEW o \in Orders, NEW src \in OrderRequests(o),
               CreatePo(s, o, src)
        PROVE  ConversionInv'
    BY <2>1, <2>4, CreatePoConversion
  <2>5. ASSUME NEW s \in Sessions,
               \/ \E o \in Orders, w \in Warehouses :
                     \E q \in ReceiptRequests(o) : CreateReceipt(s, o, w, q)
               \/ \E i \in 1..Len(receipts) : ReverseReceipt(s, i)
        PROVE  ConversionInv'
    BY <1>2, <2>5, ReceiptsConversion
  <2>6. ASSUME NEW s \in Sessions
        PROVE  /\ Begin(s) => ConversionInv'
               /\ \A o \in Orders : ConfirmPo(s, o) \/ CancelPo(s, o)
                                       => ConversionInv'
               /\ \A r \in Requisitions : CancelPr(s, r) => ConversionInv'
    BY BeginConversion, ConfirmPoConversion, CancelPoConversion, CancelPrConversion
  <2> QED
    BY <1>2, <2>2, <2>3, <2>4, <2>5, <2>6, Zenon
       DEF Next, DisableWarehouse, EnableWarehouse, DisableMaterial,
           EnableMaterial, DisableSupplier, EnableSupplier
<1> QED
  BY <1>1, <1>2

LEMMA ConversionInvariance ==
  Spec /\ CancelledIsTerminal => [](IInv /\ ConversionInv)
<1>1. Init => IInv /\ ConversionInv
  BY InitIInv, InitConversion
<1>2. IInv /\ ConversionInv /\ [Next]_vars /\ [StaysCancelled]_vars
         => (IInv /\ ConversionInv)'
  BY NextIInv, NextConversion
<1>3. CancelledIsTerminal => [][StaysCancelled]_vars
  BY DEF CancelledIsTerminal, StaysCancelled
<1> QED
  BY <1>1, <1>2, <1>3, PTL DEF Spec

\* Whatever transactions overlap, as long as no cancelled order is brought
\* back, converted_quantity of every requisition item is what the lines of
\* active orders draw from it (create_po, cancel_po).
THEOREM ConversionsAddUp ==
  Spec /\ CancelledIsTerminal => []ConvertedMatchesSources
<1>1. ConversionInv => ConvertedMatchesSources
  BY DEF ConversionInv
<1> QED
  BY <1>1, ConversionInvariance, PTL

\* Under the same condition, active orders never draw more from a requisition
\* item than was requested (the compare-and-set of create_po).
THEOREM ConversionsAreBounded == Spec /\ CancelledIsTerminal => []NoOverConversion
<1>1. ConversionInv => NoOverConversion
  BY DEF ConversionInv, ConvertedMatchesSources, WithinRequest, NoOverConversion
<1> QED
  BY <1>1, ConversionInvariance, PTL

\* Under the same condition, a requisition that is not cancelled is CONVERTED
\* exactly when all of its items are (_flip_pr_to_converted,
\* _flip_pr_back_to_approved).
THEOREM HeadersFollowItems == Spec /\ CancelledIsTerminal => []PrStatusDerived
<1>1. ConversionInv => PrStatusDerived
  BY DEF ConversionInv
<1> QED
  BY <1>1, ConversionInvariance, PTL

\* The condition holds when requests do not overlap: CANCELLED is then
\* terminal (_TRANSITIONS), because a receipt sees that its order is cancelled.
THEOREM CancelledStays == ASSUME Serial PROVE Spec => CancelledIsTerminal
<1>1. ASSUME IInv, Fresh, ChainInv, [Next]_vars, NEW o \in Orders,
             poStatus[o] = "CANCELLED"
      PROVE  poStatus'[o] = "CANCELLED"
  <2>1. poStatus \in [Orders -> PoStatus]
    BY <1>1 DEF IInv, DocsOK
  <2>2. ASSUME NEW s \in Sessions
        PROVE  /\ Begin(s) \/ Rollback(s) => poStatus' = poStatus
               /\ \A d : Disable(s, d) \/ Enable(s, d) => poStatus' = poStatus
               /\ \A r : CancelPr(s, r) => poStatus' = poStatus
               /\ \A k, n, rate : PostCount(s, k, n, rate) => poStatus' = poStatus
    BY DEF Begin, Rollback, Disable, Enable, CancelPr, PostCount, documents
  <2>3. ASSUME NEW s \in Sessions, NEW x \in Orders
        PROVE  /\ \A src : CreatePo(s, x, src) => poStatus'[o] = "CANCELLED"
               /\ ConfirmPo(s, x) \/ CancelPo(s, x) => poStatus'[o] = "CANCELLED"
    BY <1>1, <2>1 DEF CreatePo, ConfirmPo, CancelPo
  <2>4. ASSUME NEW s \in Sessions, NEW x \in Orders, NEW w \in Warehouses,
               NEW q \in ReceiptRequests(x), CreateReceipt(s, x, w, q)
        PROVE  poStatus'[o] = "CANCELLED"
    <3>1. /\ IsOpen(s) /\ snap[s].poStatus[x] \in Receivable
          /\ poStatus' = RecomputePoStatus(s, x, SeenReceived(s, q))
      BY <2>4 DEF CreateReceipt
    <3>2. o # x
      BY <1>1, <3>1, FreshView DEF Receivable
    <3> QED
      BY <1>1, <2>1, <3>1, <3>2, RecomputedAny
  <2>5. ASSUME NEW s \in Sessions, NEW i \in 1..Len(receipts), ReverseReceipt(s, i)
        PROVE  poStatus'[o] = "CANCELLED"
    <3>1. receipts[i].status = "POSTED"
      BY <2>5 DEF ReverseReceipt, ClaimOK
    <3>2. /\ receipts[i].order \in Orders
          /\ poStatus[receipts[i].order]
                \in {"CONFIRMED", "PARTIALLY_RECEIVED", "RECEIVED"}
      BY <1>1, <3>1, GoodsNeedConfirmation
    <3>3. PICK x \in Orders : x = receipts[i].order
      BY <3>2
    <3>4. o # x
      BY <1>1, <3>2, <3>3
    <3>5. PICK rcv : poStatus' = RecomputePoStatus(s, x, rcv)
      BY <2>5, <3>3 DEF ReverseReceipt
    <3> QED
      BY <1>1, <2>1, <3>4, <3>5, RecomputedAny
  <2>6. CASE UNCHANGED vars
    BY <1>1, <2>6 DEF vars, documents
  <2>7. CASE Next
    BY <1>1, <2>2, <2>3, <2>4, <2>5, <2>7, Zenon
       DEF Next, DisableWarehouse, EnableWarehouse, DisableMaterial,
           EnableMaterial, DisableSupplier, EnableSupplier
  <2> QED
    BY <1>1, <2>6, <2>7
<1>2. IInv /\ Fresh /\ ChainInv /\ [Next]_vars => [StaysCancelled]_vars
  BY <1>1 DEF StaysCancelled
<1>3. [][StaysCancelled]_vars => CancelledIsTerminal
  BY DEF CancelledIsTerminal, StaysCancelled
<1> QED
  BY <1>2, <1>3, SerialChain, PTL DEF Spec

-----------------------------------------------------------------------------
(* Goods within the order *)

\* An order exists only with lines, and every line orders something.
OrdersFilled ==
    \A o \in Orders : poStatus[o] # "NONE" =>
        /\ LinesOf(o) # {}
        /\ \A l \in LinesOf(o) : Ordered(source[l]) > 0

\* received_quantity stays within ordered_quantity.
ReceivedWithinOrder == \A l \in Lines : received[l] <= Ordered(source[l])

LEMMA OrderedType ==
  ASSUME NEW src \in [Lines -> [Items -> Nat]], NEW l \in Lines
  PROVE  Ordered(src[l]) \in Nat
<1>1. ItemCount \in Nat /\ \A p \in 1..ItemCount : src[l][p] \in Nat
  BY ProcurementAssumption DEF Items
<1> QED
  BY <1>1, SumNat DEF Ordered

\* A step that creates no order and writes received quantities within it.
LEMMA FilledKept ==
  ASSUME OrdersFilled, source' = source,
         \A o \in Orders : poStatus'[o] # "NONE" => poStatus[o] # "NONE",
         \A l \in Lines : received'[l] <= Ordered(source[l])
  PROVE  OrdersFilled' /\ ReceivedWithinOrder'
<1>1. OrdersFilled'
  BY Zenon DEF OrdersFilled, LinesOf, Ordered
<1>2. ReceivedWithinOrder'
  BY Zenon DEF ReceivedWithinOrder, Ordered
<1> QED
  BY <1>1, <1>2

LEMMA CreatePoFilled ==
  ASSUME IInv, IInv', ChainInv, OrdersFilled, ReceivedWithinOrder,
         NEW s \in Sessions, NEW o \in Orders, NEW src, CreatePo(s, o, src)
  PROVE  OrdersFilled' /\ ReceivedWithinOrder'
<1>1. /\ poStatus' = [poStatus EXCEPT ![o] = "DRAFT"] /\ poStatus[o] = "NONE"
      /\ received' = received /\ LinesOf(o) # {}
      /\ source' = [l \in Lines |-> IF OrderOf[l] = o THEN src[l] ELSE source[l]]
      /\ \A l \in LinesOf(o) : Ordered(src[l]) > 0
  BY DEF CreatePo
<1>2. /\ poStatus \in [Orders -> PoStatus]
      /\ source' \in [Lines -> [Items -> Nat]]
  BY DEF IInv, DocsOK
<1>3. \A l \in Lines : /\ OrderOf[l] = o => source'[l] = src[l]
                       /\ OrderOf[l] # o => source'[l] = source[l]
  BY <1>1
<1>4. \A l \in Lines : Ordered(source'[l]) \in Nat
  BY <1>2, OrderedType
<1>5. ASSUME NEW l \in LinesOf(o) PROVE Ordered(source'[l]) > 0 /\ l \in Lines
  <2>1. l \in Lines /\ OrderOf[l] = o
    BY DEF LinesOf
  <2> QED
    BY <1>1, <1>3, <2>1
<1>6. OrdersFilled'
  <2> SUFFICES ASSUME NEW x \in Orders, poStatus'[x] # "NONE"
               PROVE  LinesOf(x) # {} /\ \A l \in LinesOf(x) : Ordered(source'[l]) > 0
    BY Zenon DEF OrdersFilled, LinesOf, Ordered
  <2>1. CASE x = o
    BY <1>1, <1>5, <2>1
  <2>2. CASE x # o
    <3>1. poStatus[x] # "NONE"
      BY <1>1, <1>2, <2>2
    <3>2. \A l \in LinesOf(x) : source'[l] = source[l]
      BY <1>3, <2>2 DEF LinesOf
    <3> QED
      BY <3>1, <3>2 DEF OrdersFilled
  <2> QED
    BY <2>1, <2>2
<1>7. ReceivedWithinOrder'
  <2> SUFFICES ASSUME NEW l \in Lines PROVE received'[l] <= Ordered(source'[l])
    BY Zenon DEF ReceivedWithinOrder, Ordered
  <2>1. CASE OrderOf[l] = o
    <3>1. l \in LinesOf(o)
      BY <2>1 DEF LinesOf
    <3>2. received'[l] = 0
      BY <1>1, <3>1, Zenon DEF ChainInv, NoEarlyGoods
    <3> QED
      BY <1>4, <1>5, <3>1, <3>2
  <2>2. CASE OrderOf[l] # o
    BY <1>1, <1>3, <2>2 DEF ReceivedWithinOrder
  <2> QED
    BY <2>1, <2>2
<1> QED
  BY <1>6, <1>7

LEMMA CreateReceiptFilled ==
  ASSUME IInv, Fresh, OrdersFilled, ReceivedWithinOrder, NEW s \in Sessions,
         NEW o \in Orders, NEW w \in Warehouses, NEW q \in ReceiptRequests(o),
         CreateReceipt(s, o, w, q)
  PROVE  OrdersFilled' /\ ReceivedWithinOrder'
<1> DEFINE seen == SeenReceived(s, q)
<1>1. /\ IsOpen(s) /\ source' = source /\ snap[s].poStatus[o] \in Receivable
      /\ received' = [l \in Lines |-> IF l \in LinesIn(q) THEN seen[l]
                                      ELSE received[l]]
      /\ poStatus' = RecomputePoStatus(s, o, seen)
      /\ \A l \in LinesIn(q) : seen[l] <= Ordered(source[l])
  BY DEF CreateReceipt, LineCheck
<1> HIDE DEF seen
<1>2. poStatus[o] # "NONE" /\ poStatus \in [Orders -> PoStatus]
  BY <1>1, FreshView DEF Receivable, IInv, DocsOK
<1>3. \A x \in Orders : poStatus'[x] # "NONE" => poStatus[x] # "NONE"
  BY <1>1, <1>2, Recomputed
<1>4. \A l \in Lines : received'[l] <= Ordered(source[l])
  BY <1>1 DEF ReceivedWithinOrder
<1> QED
  BY <1>1, <1>3, <1>4, FilledKept

LEMMA ReverseReceiptFilled ==
  ASSUME IInv, Fresh, ChainInv, OrdersFilled, ReceivedWithinOrder,
         NEW s \in Sessions, NEW i \in 1..Len(receipts), ReverseReceipt(s, i)
  PROVE  OrdersFilled' /\ ReceivedWithinOrder'
<1> DEFINE q == receipts[i].quantity
           seen == SeenReceived(s, [l \in Lines |-> -q[l]])
<1>1. /\ IsOpen(s) /\ source' = source /\ receipts[i].status = "POSTED"
      /\ received' = [l \in Lines |-> IF l \in LinesIn(q) THEN seen[l]
                                      ELSE received[l]]
      /\ poStatus' = RecomputePoStatus(s, receipts[i].order, seen)
      /\ \A l \in LinesIn(q) : seen[l] <= Ordered(source[l])
  BY DEF ReverseReceipt, ClaimOK, LineCheck
<1> HIDE DEF seen, q
<1>2. /\ receipts[i].order \in Orders /\ poStatus[receipts[i].order] # "NONE"
      /\ poStatus \in [Orders -> PoStatus]
  BY <1>1, GoodsNeedConfirmation DEF IInv, DocsOK
<1>3. \A x \in Orders : poStatus'[x] # "NONE" => poStatus[x] # "NONE"
  BY <1>1, <1>2, Recomputed
<1>4. \A l \in Lines : received'[l] <= Ordered(source[l])
  BY <1>1 DEF ReceivedWithinOrder
<1> QED
  BY <1>1, <1>3, <1>4, FilledKept

LEMMA NextFilled ==
  ASSUME IInv, IInv', Fresh, ChainInv, OrdersFilled, ReceivedWithinOrder,
         [Next]_vars
  PROVE  OrdersFilled' /\ ReceivedWithinOrder'
<1>0. poStatus \in [Orders -> PoStatus]
  BY DEF IInv, DocsOK
<1>1. CASE UNCHANGED <<received, poStatus, source>>
  BY <1>1, FilledKept DEF ReceivedWithinOrder
<1>2. ASSUME NEW s \in Sessions, NEW o \in Orders, NEW src, CreatePo(s, o, src)
      PROVE  OrdersFilled' /\ ReceivedWithinOrder'
  BY <1>2, CreatePoFilled
<1>3. ASSUME NEW s \in Sessions, NEW o \in Orders, ConfirmPo(s, o) \/ CancelPo(s, o)
      PROVE  OrdersFilled' /\ ReceivedWithinOrder'
  <2>1. /\ received' = received /\ source' = source /\ poStatus[o] # "NONE"
        /\ \E st : poStatus' = [poStatus EXCEPT ![o] = st]
    BY <1>3 DEF ConfirmPo, CancelPo
  <2>2. \A x \in Orders : poStatus'[x] # "NONE" => poStatus[x] # "NONE"
    BY <1>0, <2>1
  <2>3. \A l \in Lines : received'[l] <= Ordered(source[l])
    BY <2>1 DEF ReceivedWithinOrder
  <2> QED
    BY <2>1, <2>2, <2>3, FilledKept
<1>5. ASSUME NEW s \in Sessions, NEW o \in Orders, NEW w \in Warehouses,
             NEW q \in ReceiptRequests(o), CreateReceipt(s, o, w, q)
      PROVE  OrdersFilled' /\ ReceivedWithinOrder'
  BY <1>5, CreateReceiptFilled
<1>6. ASSUME NEW s \in Sessions, NEW i \in 1..Len(receipts), ReverseReceipt(s, i)
      PROVE  OrdersFilled' /\ ReceivedWithinOrder'
  BY <1>6, ReverseReceiptFilled
<1>7. CASE UNCHANGED vars
  BY <1>1, <1>7 DEF vars, documents
<1>8. ASSUME NEW s \in Sessions
      PROVE  /\ Begin(s) \/ Rollback(s) => UNCHANGED <<received, poStatus, source>>
             /\ \A d : Disable(s, d) \/ Enable(s, d)
                   => UNCHANGED <<received, poStatus, source>>
             /\ \A r : CancelPr(s, r) => UNCHANGED <<received, poStatus, source>>
             /\ \A k, n, rate : PostCount(s, k, n, rate)
                   => UNCHANGED <<received, poStatus, source>>
  BY DEF Begin, Rollback, Disable, Enable, CancelPr, PostCount, documents
<1>9. CASE Next
  BY <1>1, <1>2, <1>3, <1>5, <1>6, <1>8, <1>9, Zenon
     DEF Next, DisableWarehouse, EnableWarehouse, DisableMaterial,
         EnableMaterial, DisableSupplier, EnableSupplier
<1> QED
  BY <1>7, <1>9

LEMMA SerialFilled ==
  ASSUME Serial
  PROVE  Spec => [](IInv /\ ChainInv /\ OrdersFilled /\ ReceivedWithinOrder)
<1>1. Init => OrdersFilled /\ ReceivedWithinOrder
  <2> SUFFICES ASSUME Init PROVE OrdersFilled /\ ReceivedWithinOrder
    OBVIOUS
  <2>1. /\ poStatus = [o \in Orders |-> "NONE"] /\ received = [l \in Lines |-> 0]
        /\ source \in [Lines -> [Items -> Nat]]
    BY DEF Init
  <2>2. \A l \in Lines : Ordered(source[l]) \in Nat
    BY <2>1, OrderedType
  <2> QED
    BY <2>1, <2>2 DEF OrdersFilled, ReceivedWithinOrder
<1>2. /\ IInv /\ Fresh /\ ChainInv /\ IInv' /\ [Next]_vars
      /\ OrdersFilled /\ ReceivedWithinOrder
      => OrdersFilled' /\ ReceivedWithinOrder'
  BY NextFilled
<1> QED
  BY <1>1, <1>2, SerialChain, PTL DEF Spec

\* As long as requests do not overlap, no more goods are posted against an
\* order line than were ordered (the compare-and-set of create_receipt).
THEOREM ReceiptsAreBounded == ASSUME Serial PROVE Spec => []NoOverReceipt
<1>1. ChainInv /\ ReceivedWithinOrder => NoOverReceipt
  BY DEF ChainInv, ReceivedMatchesReceipts, ReceivedWithinOrder, NoOverReceipt
<1> QED
  BY <1>1, SerialFilled, PTL

-----------------------------------------------------------------------------
(* The todo list of the dashboard *)

LEMMA RolesOfTodos ==
  /\ Holders("pr:view") = RoleCode \ {"WAREHOUSE"} /\ Holders("po:view") = RoleCode
  /\ Holders("po:confirm") = {"ADMIN", "BUYER"}
<1>1. "pr:view" # "po:view" /\ "pr:view" # "po:confirm" /\ "po:view" # "po:confirm"
      /\ "pr:view" # "inventory:view" /\ "po:view" # "inventory:view"
      /\ "po:confirm" # "inventory:view"
  OBVIOUS
<1> QED
  BY <1>1, Zenon DEF Holders

LEMMA TodoEntries ==
  ASSUME NEW v \in Viewers
  PROVE  /\ RoleOf[v] \in {"ADMIN", "BUYER"} => /\ Todos(v)["PR_TO_PO"] = PendingPurchase(v)
                                                /\ Todos(v)["PO_CONFIRM"] = DraftPos(v)
         /\ RoleOf[v] \notin {"ADMIN", "BUYER"} => Todos(v)["PO_CONFIRM"] = {}
         /\ RoleOf[v] \in FullScope => /\ Todos(v)["PO_RECEIVE"] = PendingPos(v)
                                       /\ PoScope(v) = Existing
         /\ RoleOf[v] \in {"ADMIN", "BUYER"} => VisiblePrs(v) = Requisitions
<1>1. "PR_TO_PO" # "PO_CONFIRM" /\ "PR_TO_PO" # "PO_RECEIVE" /\ "PO_CONFIRM" # "PO_RECEIVE"
  OBVIOUS
<1>2. RoleOf[v] \in {"ADMIN", "BUYER"} => Todos(v)["PR_TO_PO"] = PendingPurchase(v)
  BY <1>1, Zenon DEF Todos
<1>3. RoleOf[v] \in {"ADMIN", "BUYER"} => Todos(v)["PO_CONFIRM"] = DraftPos(v)
  BY <1>1, Zenon DEF Todos
<1>4. RoleOf[v] \notin {"ADMIN", "BUYER"} => Todos(v)["PO_CONFIRM"] = {}
  BY <1>1, Zenon DEF Todos
<1>5. RoleOf[v] \in FullScope => Todos(v)["PO_RECEIVE"] = PendingPos(v)
  BY <1>1, Zenon DEF Todos
<1>6. RoleOf[v] \in FullScope => RoleOf[v] # "APPLICANT" /\ RoleOf[v] # "DEPT_MANAGER"
  BY DEF FullScope
<1>7. RoleOf[v] \in FullScope => PoScope(v) = Existing
  BY <1>6, Zenon DEF PoScope
<1>8. RoleOf[v] \in {"ADMIN", "BUYER"} => VisiblePrs(v) = Requisitions
  <2> SUFFICES ASSUME RoleOf[v] \in {"ADMIN", "BUYER"} PROVE VisiblePrs(v) = Requisitions
    OBVIOUS
  <2>1. RoleOf[v] # "APPLICANT" /\ RoleOf[v] # "DEPT_MANAGER"
    OBVIOUS
  <2>2. \A r \in Requisitions : r \in VisiblePrs(v)
    BY <2>1, Zenon DEF VisiblePrs
  <2>3. VisiblePrs(v) \subseteq Requisitions
    BY Zenon DEF VisiblePrs
  <2> QED
    BY <2>2, <2>3
<1> QED
  BY <1>2, <1>3, <1>4, <1>5, <1>7, <1>8

\* Orders that wait for goods are exactly those whose status says so.
LEMMA WaitingOrders ==
  ASSUME IInv, ChainInv, OrdersFilled, ReceivedWithinOrder, NEW o \in Orders
  PROVE  poStatus[o] \in {"CONFIRMED", "PARTIALLY_RECEIVED"}
            <=> poStatus[o] \notin {"NONE", "DRAFT", "CANCELLED"} /\ Outstanding(o)
<1>1. CASE poStatus[o] \in {"NONE", "DRAFT", "CANCELLED"}
  BY <1>1
<1>2. CASE poStatus[o] \in {"CONFIRMED", "PARTIALLY_RECEIVED", "RECEIVED"}
  <2>1. poStatus[o] = StatusFrom(received, o)
    BY <1>2 DEF ChainInv, StatusFollows
  <2>2. /\ LinesOf(o) # {} /\ LinesOf(o) \subseteq Lines
        /\ \A l \in LinesOf(o) : Ordered(source[l]) > 0
    BY <1>2 DEF OrdersFilled, LinesOf
  <2>3. \A l \in Lines : /\ received[l] \in Nat /\ Ordered(source[l]) \in Nat
                         /\ received[l] <= Ordered(source[l])
                         /\ received[l] = ReceiptQuantity(l)
    BY OrderedType DEF IInv, DocsOK, ReceivedWithinOrder, ChainInv,
                       ReceivedMatchesReceipts
  <2>4. Outstanding(o) <=> \E l \in LinesOf(o) : received[l] # Ordered(source[l])
    BY <2>2, <2>3 DEF Outstanding
  <2>5. CASE \A l \in LinesOf(o) : received[l] = 0
    <3>1. poStatus[o] = "CONFIRMED"
      BY <2>1, <2>5 DEF StatusFrom
    <3>2. \E l \in LinesOf(o) : received[l] # Ordered(source[l])
      BY <2>2, <2>3, <2>5
    <3> QED
      BY <2>4, <3>1, <3>2
  <2>6. CASE ~ \A l \in LinesOf(o) : received[l] = 0
    BY <2>1, <2>4, <2>6 DEF StatusFrom
  <2> QED
    BY <2>5, <2>6
<1>3. poStatus[o] \in PoStatus
  BY DEF IInv, DocsOK
<1> QED
  BY <1>1, <1>2, <1>3 DEF PoStatus

\* Requisitions with something to order are exactly those whose status and
\* converted quantities say so.
LEMMA WaitingRequisitions ==
  ASSUME IInv, ConversionInv, NEW r \in Requisitions
  PROVE  prStatus[r] = "APPROVED"
            /\ (\E p \in Items : RequisitionOf[p] = r /\ converted[p] < Requested[p])
         <=> prStatus[r] # "CANCELLED"
            /\ \E p \in Items : RequisitionOf[p] = r /\ ActiveSources(p) < Requested[p]
<1>1. \A p \in Items : converted[p] = ActiveSources(p)
  BY DEF ConversionInv, ConvertedMatchesSources
<1>2. prStatus[r] \in {"APPROVED", "CONVERTED", "CANCELLED"}
  BY DEF IInv, DocsOK, PrStatus
<1>3. ASSUME prStatus[r] = "CONVERTED", NEW p \in Items, RequisitionOf[p] = r
      PROVE  ~(converted[p] < Requested[p])
  <2>1. converted[p] >= Requested[p]
    BY <1>3 DEF ConversionInv, PrStatusDerived, FullyConverted
  <2>2. converted[p] \in Nat /\ Requested[p] \in Nat
    BY ProcurementAssumption DEF IInv, DocsOK
  <2> QED
    BY <2>1, <2>2
<1> QED
  BY <1>1, <1>2, <1>3

\* As long as requests do not overlap, the todo lists show the buyers, the
\* administrators and the warehouse exactly the work there is, nothing missing
\* and nothing that is done (dashboard_todos).
THEOREM TodosAreTrue == ASSUME Serial PROVE Spec => []TodosAreWork
<1>1. ASSUME IInv, ChainInv, OrdersFilled, ReceivedWithinOrder, ConversionInv
      PROVE  TodosAreWork
  <2> DEFINE toOrder == {r \in Requisitions :
                           /\ prStatus[r] # "CANCELLED"
                           /\ \E p \in Items : /\ RequisitionOf[p] = r
                                               /\ ActiveSources(p) < Requested[p]}
             toReceive == {o \in Orders :
                             /\ poStatus[o] \notin {"NONE", "DRAFT", "CANCELLED"}
                             /\ Outstanding(o)}
  <2>1. ASSUME NEW v \in Viewers, RoleOf[v] \in {"ADMIN", "BUYER"}
        PROVE  Todos(v)["PR_TO_PO"] = toOrder
    <3>1. Todos(v)["PR_TO_PO"] = PendingPurchase(v) /\ VisiblePrs(v) = Requisitions
      BY <2>1, TodoEntries
    <3>2. HasPerm(v, "pr:view") /\ HasPerm(v, "po:view")
      BY <2>1, RolesOfTodos DEF HasPerm, RoleCode
    <3>3. \A r : r \in PendingPurchase(v) <=> r \in toOrder
      BY <1>1, <3>1, <3>2, WaitingRequisitions DEF PendingPurchase
    <3> QED
      BY <3>1, <3>3, Zenon DEF PendingPurchase
  <2>2. ASSUME NEW v \in Viewers
        PROVE  Todos(v)["PO_CONFIRM"]
                 = {o \in Orders : poStatus[o] = "DRAFT" /\ MayConfirm(v, o)}
    <3>1. HasPerm(v, "po:confirm") <=> RoleOf[v] \in {"ADMIN", "BUYER"}
      BY RolesOfTodos DEF HasPerm
    <3>2. CASE RoleOf[v] \in {"ADMIN", "BUYER"}
      <4>1. Todos(v)["PO_CONFIRM"] = DraftPos(v)
        BY <3>2, TodoEntries
      <4>2. \A o \in Orders : MayConfirm(v, o) <=> \/ RoleOf[v] = "BUYER" /\ BuyerOf[o] = v
                                                \/ RoleOf[v] = "ADMIN"
        BY <3>1, <3>2 DEF MayConfirm
      <4> QED
        BY <3>1, <3>2, <4>1, <4>2 DEF DraftPos
    <3>3. CASE RoleOf[v] \notin {"ADMIN", "BUYER"}
      BY <3>1, <3>3, TodoEntries DEF MayConfirm
    <3> QED
      BY <3>2, <3>3
  <2>3. ASSUME NEW v \in Viewers, RoleOf[v] \in FullScope
        PROVE  Todos(v)["PO_RECEIVE"] = toReceive
    <3>1. Todos(v)["PO_RECEIVE"] = PendingPos(v) /\ PoScope(v) = Existing
      BY <2>3, TodoEntries
    <3>2. HasPerm(v, "po:view")
      BY <2>3, RolesOfTodos DEF HasPerm, RoleCode, FullScope
    <3>3. \A o : o \in PendingPos(v) <=> o \in toReceive
      BY <1>1, <3>1, <3>2, WaitingOrders DEF PendingPos, Existing
    <3> QED
      BY <3>1, <3>3, Zenon DEF PendingPos
  <2> QED
    BY <2>1, <2>2, <2>3, Zenon DEF TodosAreWork
<1>2. IInv /\ ChainInv /\ OrdersFilled /\ ReceivedWithinOrder /\ ConversionInv
        => TodosAreWork
  BY <1>1
<1> QED
  BY <1>2, SerialFilled, CancelledStays, ConversionInvariance, PTL

-----------------------------------------------------------------------------
(* The stock figures of the dashboard *)

\* A key has a balance row exactly when goods were ever received into it or
\* counted on it: a reversal moves stock only where its receipt did.
LEMMA BalancesAreDocuments ==
  ASSUME IInv, HInv, NEW k
  PROVE  HasBalance(k) <=>
            \/ \E i \in 1..Len(receipts) : \E l \in LinesIn(receipts[i].quantity) :
                  k = <<receipts[i].warehouse, MaterialOf[l]>>
            \/ \E j \in CountRows : ledger[j].key = k
<1> DEFINE Into(i, l) == /\ i \in 1..Len(receipts)
                         /\ l \in LinesIn(receipts[i].quantity)
                         /\ k = <<receipts[i].warehouse, MaterialOf[l]>>
<1>1. ASSUME NEW j \in 1..Len(ledger), ledger[j].type = "PURCHASE_IN", ledger[j].key = k
      PROVE  Into(ledger[j].source, ledger[j].item)
  BY <1>1 DEF HInv, OriginalsOK
<1>2. ASSUME NEW h \in 1..Len(ledger), ledger[h].type = "PURCHASE_IN_REVERSAL",
             ledger[h].key = k
      PROVE  Into(ledger[ledger[h].reversed].source, ledger[ledger[h].reversed].item)
  <2> DEFINE j == ledger[h].reversed
             i == ledger[j].source
             l == ledger[j].item
  <2>1. j \in 1..Len(ledger) /\ ledger[j].type = "PURCHASE_IN"
    BY <1>2 DEF HInv, ReversalsOK
  <2>2. /\ i \in 1..Len(receipts) /\ l \in LinesIn(receipts[i].quantity)
        /\ IsOriginal(j, i, l)
    BY <2>1 DEF HInv, OriginalsOK, IsOriginal
  <2>3. PICK g \in 1..Len(ledger) : Accounted(g, i, l)
    BY <2>2 DEF HInv, AllAccounted
  <2>4. g = j
    BY <2>1, <2>2, <2>3 DEF Accounted
  <2>5. receipts[i].status \in {"POSTED", "REVERSED"}
    <3>1. receipts[i] \in Receipt
      BY <2>2 DEF IInv, DocsOK
    <3> QED
      BY <3>1 DEF Receipt
  <2>6. receipts[i].status = "REVERSED"
    BY <2>3, <2>4, <2>5 DEF Accounted
  <2>7. Cancels(h, j)
    <3>1. PICK f \in 1..Len(ledger) :
             /\ Cancels(f, j)
             /\ \A e \in 1..Len(ledger) : ledger[e].reversed = j => e = f
      BY <2>3, <2>4, <2>6 DEF Accounted
    <3> QED
      BY <3>1
  <2>8. ledger[j].key = k
    BY <1>2, <2>7 DEF Cancels
  <2> QED
    BY <1>1, <2>1, <2>8
<1>3. ASSUME NEW i \in 1..Len(receipts), NEW l \in LinesIn(receipts[i].quantity),
             k = <<receipts[i].warehouse, MaterialOf[l]>>
      PROVE  HasBalance(k)
  <2>1. PICK j \in 1..Len(ledger) : IsOriginal(j, i, l)
    BY DEF HInv, AllAccounted, Accounted
  <2>2. ledger[j].key = k
    BY <1>3, <2>1 DEF HInv, OriginalsOK, IsOriginal
  <2> QED
    BY <2>2 DEF HasBalance, KeysOf
<1>4. ASSUME HasBalance(k)
      PROVE  (\E i, l : Into(i, l)) \/ \E j \in CountRows : ledger[j].key = k
  <2>1. PICK j \in 1..Len(ledger) : ledger[j].key = k
    BY <1>4 DEF HasBalance, KeysOf
  <2>2. \/ ledger[j].type = "PURCHASE_IN"
        \/ ledger[j].type = "PURCHASE_IN_REVERSAL"
        \/ ledger[j].type \in CountTypes
    BY RowTypes DEF IInv, StockInv, StockTypeOK
  <2> HIDE DEF Into
  <2> QED
    BY <1>1, <1>2, <2>1, <2>2, Zenon DEF CountRows
<1>5. ASSUME NEW j \in CountRows, ledger[j].key = k PROVE HasBalance(k)
  BY <1>5 DEF HasBalance, KeysOf, CountRows
<1> QED
  BY <1>3, <1>4, <1>5

\* The figures on record are the totals of the posted receipts.
LEMMA OnRecordIs ==
  ASSUME receipts \in Seq(Receipt), NEW k
  PROVE  /\ GoodsOnRecord(k) = PostedTotal(receipts, GoodsIn(k))
         /\ WorthOnRecord(k) = PostedTotal(receipts, WorthIn(k))
<1>1. \A i \in 1..Len(receipts) :
         /\ GoodsIn(k)[receipts[i]]
              = SumUpTo([l \in Lines |-> LineGoods(receipts[i], k, l)], LineCount)
         /\ WorthIn(k)[receipts[i]]
              = SumUpTo([l \in Lines |-> LineWorth(receipts[i], k, l)], LineCount)
  BY DEF GoodsIn, WorthIn
<1> DEFINE g == GoodsIn(k)
           h == WorthIn(k)
           G(i) == SumUpTo([l \in Lines |-> LineGoods(receipts[i], k, l)], LineCount)
           W(i) == SumUpTo([l \in Lines |-> LineWorth(receipts[i], k, l)], LineCount)
<1>2. \A i \in 1..Len(receipts) : g[receipts[i]] = G(i) /\ h[receipts[i]] = W(i)
  BY <1>1
<1> HIDE DEF g, h, G, W
<1>3. [i \in 1..Len(receipts) |-> IF receipts[i].status = "POSTED" THEN G(i) ELSE 0]
        = [i \in 1..Len(receipts) |->
              IF receipts[i].status = "POSTED" THEN g[receipts[i]] ELSE 0]
  BY <1>2
<1>4. [i \in 1..Len(receipts) |-> IF receipts[i].status = "POSTED" THEN W(i) ELSE 0]
        = [i \in 1..Len(receipts) |->
              IF receipts[i].status = "POSTED" THEN h[receipts[i]] ELSE 0]
  BY <1>2
<1>5. GoodsOnRecord(k) = PostedTotal(receipts, g)
  BY <1>3, Zenon DEF GoodsOnRecord, PostedTotal, G
<1>6. WorthOnRecord(k) = PostedTotal(receipts, h)
  BY <1>4, Zenon DEF WorthOnRecord, PostedTotal, W
<1> QED
  BY <1>5, <1>6 DEF g, h

\* The adjustments are the totals of the count rows.
LEMMA CountedIs ==
  ASSUME ledger \in Seq(Row), NEW k
  PROVE  /\ GoodsCounted(k) = CountedTotal(ledger, k, RowGoods)
         /\ WorthCounted(k) = CountedTotal(ledger, k, RowWorth)
<1>1. \A j \in 1..Len(ledger) :
         /\ RowGoods[ledger[j]] = ledger[j].quantity
         /\ RowWorth[ledger[j]] = ledger[j].amount
         /\ j \in CountRows <=> ledger[j].type \in CountTypes
  BY DEF RowGoods, RowWorth, CountRows
<1> DEFINE g == RowGoods
           h == RowWorth
           Q(j) == ledger[j].quantity
           A(j) == ledger[j].amount
           C(j) == j \in CountRows
           T(j) == ledger[j].type \in CountTypes
<1>2. \A j \in 1..Len(ledger) : g[ledger[j]] = Q(j) /\ h[ledger[j]] = A(j) /\ (C(j) <=> T(j))
  BY <1>1
<1> HIDE DEF g, h, Q, A, C, T
<1>3. [j \in 1..Len(ledger) |-> IF C(j) /\ ledger[j].key = k THEN Q(j) ELSE 0]
        = [j \in 1..Len(ledger) |-> IF T(j) /\ ledger[j].key = k THEN g[ledger[j]] ELSE 0]
  BY <1>2
<1>4. [j \in 1..Len(ledger) |-> IF C(j) /\ ledger[j].key = k THEN A(j) ELSE 0]
        = [j \in 1..Len(ledger) |-> IF T(j) /\ ledger[j].key = k THEN h[ledger[j]] ELSE 0]
  BY <1>2
<1>5. GoodsCounted(k) = CountedTotal(ledger, k, g)
  BY <1>3, Zenon DEF GoodsCounted, CountedTotal, Q, C, T
<1>6. WorthCounted(k) = CountedTotal(ledger, k, h)
  BY <1>4, Zenon DEF WorthCounted, CountedTotal, A, C, T
<1> QED
  BY <1>5, <1>6 DEF g, h

LEMMA EverybodySeesStock ==
  ASSUME NEW v \in Viewers
  PROVE  HasPerm(v, "inventory:view") /\ HasPerm(v, "po:view")
<1>1. /\ "inventory:view" # "pr:view" /\ "inventory:view" # "po:view"
      /\ "inventory:view" # "po:confirm"
  OBVIOUS
<1>2. Holders("inventory:view") = RoleCode
  BY <1>1, Zenon DEF Holders
<1>3. RoleOf[v] \in RoleCode
  BY DashboardAssumption
<1> QED
  BY <1>2, <1>3, RolesOfTodos DEF HasPerm

\* Whatever transactions race, the stock figures of the dashboard follow from
\* the posted receipts and counts alone: the total is the sum of their line
\* amounts and adjustments, and a key is low exactly when goods were received
\* into it or counted on it and fewer than its safety stock are left on record
\* (_sum_inventory_amount, _count_low_stock).
THEOREM StockFiguresAreTrue == Spec => []StockFiguresAreDocuments
<1>1. ASSUME IInv, HInv, StockIsDocuments PROVE StockFiguresAreDocuments
  <2> DEFINE total == SumFunction([k \in Keys |-> WorthOnRecord(k) + WorthCounted(k)])
             In(k) == \/ \E i \in 1..Len(receipts) : \E l \in LinesIn(receipts[i].quantity) :
                            k = <<receipts[i].warehouse, MaterialOf[l]>>
                      \/ \E j \in CountRows : ledger[j].key = k
             low == {k \in DOMAIN SafetyStock :
                        In(k) /\ GoodsOnRecord(k) + GoodsCounted(k) < SafetyStock[k]}
  <2>1. receipts \in Seq(Receipt) /\ ledger \in Seq(Row)
    BY <1>1 DEF IInv, DocsOK, StockInv, StockTypeOK
  <2>2. \A k \in Keys :
           /\ balance[k].quantity = GoodsOnRecord(k) + GoodsCounted(k)
           /\ balance[k].total_amount = WorthOnRecord(k) + WorthCounted(k)
    BY <1>1, <2>1, OnRecordIs, CountedIs DEF StockIsDocuments
  <2>3. [k \in Keys |-> balance[k].total_amount]
           = [k \in Keys |-> WorthOnRecord(k) + WorthCounted(k)]
    BY <2>2, Zenon
  <2>4. ASSUME NEW v \in Viewers PROVE InventoryAmount(v) = total
    BY <2>3, EverybodySeesStock, Zenon DEF InventoryAmount
  <2>5. ASSUME NEW v \in Viewers PROVE LowStock(v) = low
    <3>1. \A k \in DOMAIN SafetyStock : k \in Keys
      BY DashboardAssumption
    <3>2. \A k \in DOMAIN SafetyStock : HasBalance(k) <=> In(k)
      BY <1>1, BalancesAreDocuments
    <3>3. HasPerm(v, "inventory:view")
      BY EverybodySeesStock
    <3> HIDE DEF In
    <3>4. \A k : k \in LowStock(v) <=> k \in low
      BY <2>2, <3>1, <3>2, <3>3, Zenon DEF LowStock
    <3> QED
      BY <3>4, Zenon DEF LowStock
  <2> QED
    BY <2>4, <2>5, Zenon DEF StockFiguresAreDocuments
<1>2. IInv /\ HInv /\ StockIsDocuments => StockFiguresAreDocuments
  BY <1>1
<1> QED
  BY <1>2, StockFollowsDocuments, PTL

-----------------------------------------------------------------------------
(* Which orders a user sees *)

\* A request writes the status of at most one order.
LEMMA OneOrderPerStep ==
  ASSUME IInv, [Next]_vars
  PROVE  \E o : \A x \in Orders : x # o => poStatus'[x] = poStatus[x]
<1>0. poStatus \in [Orders -> PoStatus] /\ receipts \in Seq(Receipt)
  BY DEF IInv, DocsOK
<1>1. CASE poStatus' = poStatus
  BY <1>1
<1>2. ASSUME NEW s \in Sessions, NEW o \in Orders, NEW src,
             CreatePo(s, o, src) \/ ConfirmPo(s, o) \/ CancelPo(s, o)
      PROVE  \E y : \A x \in Orders : x # y => poStatus'[x] = poStatus[x]
  <2>1. \E st : poStatus' = [poStatus EXCEPT ![o] = st]
    BY <1>2 DEF CreatePo, ConfirmPo, CancelPo
  <2>2. \A x \in Orders : x # o => poStatus'[x] = poStatus[x]
    BY <1>0, <2>1
  <2> QED
    BY <2>2
<1>3. ASSUME NEW s, NEW o \in Orders, NEW rcv, poStatus' = RecomputePoStatus(s, o, rcv)
      PROVE  \E y : \A x \in Orders : x # y => poStatus'[x] = poStatus[x]
  <2>1. \A x \in Orders : x # o => poStatus'[x] = poStatus[x]
    BY <1>0, <1>3, RecomputedAny
  <2> QED
    BY <2>1
<1>4. ASSUME NEW s \in Sessions, NEW o \in Orders, NEW w \in Warehouses,
             NEW q \in ReceiptRequests(o), CreateReceipt(s, o, w, q)
      PROVE  \E y : \A x \in Orders : x # y => poStatus'[x] = poStatus[x]
  <2>1. poStatus' = RecomputePoStatus(s, o, SeenReceived(s, q))
    BY <1>4 DEF CreateReceipt
  <2> QED
    BY <1>3, <2>1
<1>5. ASSUME NEW s \in Sessions, NEW i \in 1..Len(receipts), ReverseReceipt(s, i)
      PROVE  \E y : \A x \in Orders : x # y => poStatus'[x] = poStatus[x]
  <2>1. receipts[i] \in Receipt
    BY <1>0
  <2>2. receipts[i].order \in Orders
    BY <2>1 DEF Receipt
  <2>3. poStatus' = RecomputePoStatus(s, receipts[i].order,
                        SeenReceived(s, [l \in Lines |-> -receipts[i].quantity[l]]))
    BY <1>5 DEF ReverseReceipt
  <2> QED
    BY <1>3, <2>2, <2>3
<1>6. CASE UNCHANGED vars
  BY <1>1, <1>6 DEF vars, documents
<1>7. ASSUME NEW s \in Sessions
      PROVE  /\ Begin(s) \/ Rollback(s) => poStatus' = poStatus
             /\ \A d : Disable(s, d) \/ Enable(s, d) => poStatus' = poStatus
             /\ \A r : CancelPr(s, r) => poStatus' = poStatus
             /\ \A k, n, rate : PostCount(s, k, n, rate) => poStatus' = poStatus
  BY DEF Begin, Rollback, Disable, Enable, CancelPr, PostCount, documents
<1>8. CASE Next
  BY <1>1, <1>2, <1>4, <1>5, <1>7, <1>8, Zenon
     DEF Next, DisableWarehouse, EnableWarehouse, DisableMaterial,
         EnableMaterial, DisableSupplier, EnableSupplier
<1> QED
  BY <1>6, <1>8

\* So the orders in the database are finitely many.
LEMMA FiniteOrders == Spec => [](IInv /\ IsFiniteSet(Existing))
<1>1. ASSUME Init PROVE IsFiniteSet(Existing)
  <2>1. Existing = {}
    BY <1>1 DEF Init, Existing
  <2> QED
    BY <2>1, FS_EmptySet
<1>2. ASSUME IInv, IsFiniteSet(Existing), [Next]_vars PROVE IsFiniteSet(Existing)'
  <2>1. PICK o : \A x \in Orders : x # o => poStatus'[x] = poStatus[x]
    BY <1>2, OneOrderPerStep
  <2>2. Existing' \subseteq Existing \cup {o}
    BY <2>1 DEF Existing
  <2>3. IsFiniteSet(Existing \cup {o})
    BY <1>2, FS_AddElement
  <2>4. IsFiniteSet(Existing')
    BY <2>2, <2>3, FS_Subset
  <2> QED
    BY <2>4
<1>3. IInv /\ IsFiniteSet(Existing) /\ [Next]_vars => IsFiniteSet(Existing)'
  BY <1>2
<1>4. Init => IsFiniteSet(Existing)
  BY <1>1
<1> QED
  BY <1>3, <1>4, Invariance, PTL DEF Spec

\* The three copies of the visibility rule.
LEMMA OneScope ==
  ASSUME NEW v \in Viewers
  PROVE  /\ PoScope(v) = ListPos(v)
         /\ ListPos(v) = {o \in Orders : GetPo(v, o)}
<1>1. RoleOf[v] \in RoleCode
  BY DashboardAssumption
<1>2. \/ RoleOf[v] \in FullScope
      \/ RoleOf[v] \notin FullScope /\ RoleOf[v] = "APPLICANT"
      \/ RoleOf[v] \notin FullScope /\ RoleOf[v] = "DEPT_MANAGER"
  BY <1>1 DEF RoleCode, FullScope
<1>3. "APPLICANT" # "DEPT_MANAGER"
  OBVIOUS
<1>4. RoleOf[v] \in FullScope => RoleOf[v] # "APPLICANT" /\ RoleOf[v] # "DEPT_MANAGER"
  BY DEF FullScope
<1>5. PoScope(v) = ListPos(v)
  BY <1>2, <1>3, <1>4, Zenon DEF PoScope, ListPos
<1>6. \A o \in Orders : RequisitionsOf(source, o) \subseteq Requisitions
  BY ProcurementAssumption DEF RequisitionsOf
<1>7. \A o \in Orders : o \in ListPos(v) <=> GetPo(v, o)
  <2> TAKE o \in Orders
  <2>1. CASE RoleOf[v] \in FullScope
    BY <2>1 DEF ListPos, GetPo
  <2>2. CASE RoleOf[v] \notin FullScope /\ RoleOf[v] = "APPLICANT"
    <3>1. o \in ListPos(v) <=> o \in Existing /\ RequisitionsOf(source, o) \cap OwnPrs(v) # {}
      BY <2>2 DEF ListPos, SourcedFrom
    <3>2. RequisitionsOf(source, o) \cap OwnPrs(v) # {}
            <=> \E r \in RequisitionsOf(source, o) : ApplicantOf[r] = v
      BY <1>6 DEF OwnPrs
    <3> QED
      BY <2>2, <3>1, <3>2 DEF GetPo
  <2>3. CASE RoleOf[v] \notin FullScope /\ RoleOf[v] = "DEPT_MANAGER"
    <3>1. o \in ListPos(v)
            <=> o \in Existing /\ RequisitionsOf(source, o) \cap ManagedPrs(v) # {}
      BY <2>3 DEF ListPos, SourcedFrom
    <3>2. RequisitionsOf(source, o) \cap ManagedPrs(v) # {}
            <=> \E r \in RequisitionsOf(source, o) : DepartmentOf[r] \in Manages[v]
      BY <1>6 DEF ManagedPrs
    <3> QED
      BY <2>3, <3>1, <3>2 DEF GetPo
  <2> QED
    BY <1>2, <2>1, <2>2, <2>3
<1>8. ListPos(v) \subseteq Existing /\ Existing \subseteq Orders
  BY DEF ListPos, SourcedFrom, Existing
<1> QED
  BY <1>5, <1>7, <1>8

\* A receipt is in the scope of a user only if its order is.
LEMMA ReceiptsInScope ==
  ASSUME NEW v \in Viewers, NEW i \in ReceiptScope(v)
  PROVE  GetPo(v, receipts[i].order)
<1>1. CASE RoleOf[v] = "BUYER"
  <2>1. receipts[i].order \in Existing
    BY <1>1 DEF ReceiptScope
  <2> QED
    BY <1>1, <2>1 DEF GetPo, FullScope
<1>2. CASE RoleOf[v] # "BUYER"
  <2>1. receipts[i].order \in PoScope(v)
    BY <1>2 DEF ReceiptScope
  <2>2. receipts[i].order \in {o \in Orders : GetPo(v, o)}
    BY <2>1, OneScope
  <2> QED
    BY <2>2
<1> QED
  BY <1>1, <1>2

\* Orders in one of two statuses, and in either, counted.
LEMMA CountApart ==
  ASSUME NEW A, NEW B, IsFiniteSet(A), IsFiniteSet(B), A \cap B = {}
  PROVE  /\ IsFiniteSet(A \cup B) /\ Cardinality(A) \in Nat
         /\ Cardinality(A \cup B) = Cardinality(A) + Cardinality(B)
<1>1. /\ IsFiniteSet(A \cup B)
      /\ Cardinality(A \cup B) = Cardinality(A) + Cardinality(B) - Cardinality(A \cap B)
  BY FS_Union
<1>2. Cardinality(A) \in Nat /\ Cardinality(B) \in Nat
  BY FS_CardinalityType
<1>3. Cardinality(A \cap B) = 0
  BY FS_EmptySet
<1>4. \A x, y, z, u : x \in Nat /\ y \in Nat /\ u = x + y - z /\ z = 0 => u = x + y
  OBVIOUS
<1>5. Cardinality(A \cup B) = Cardinality(A) + Cardinality(B)
  BY <1>1, <1>2, <1>3, <1>4, Zenon
<1> QED
  BY <1>1, <1>2, <1>5, Zenon

LEMMA SumOfFive ==
  ASSUME NEW f, \A i \in 1..5 : f[i] \in Int
  PROVE  SumUpTo(f, 5) = f[1] + f[2] + f[3] + f[4] + f[5]
<1>1. \A n \in 0..5 : IntTerms(f, n)
  BY DEF IntTerms
<1>2. SumUpTo(f, 0) = 0
  BY <1>1, SumType
<1>3. \A n \in 0..4 : SumUpTo(f, n + 1) = SumUpTo(f, n) + f[n + 1]
  BY <1>1, SumStep
<1>4. /\ SumUpTo(f, 0 + 1) = SumUpTo(f, 0) + f[0 + 1]
      /\ SumUpTo(f, 1 + 1) = SumUpTo(f, 1) + f[1 + 1]
      /\ SumUpTo(f, 2 + 1) = SumUpTo(f, 2) + f[2 + 1]
      /\ SumUpTo(f, 3 + 1) = SumUpTo(f, 3) + f[3 + 1]
      /\ SumUpTo(f, 4 + 1) = SumUpTo(f, 4) + f[4 + 1]
  BY <1>3
<1>5. /\ 0 + 1 = 1 /\ 1 + 1 = 2 /\ 2 + 1 = 3 /\ 3 + 1 = 4 /\ 4 + 1 = 5
  OBVIOUS
<1>6. /\ SumUpTo(f, 1) = SumUpTo(f, 0) + f[1] /\ SumUpTo(f, 2) = SumUpTo(f, 1) + f[2]
      /\ SumUpTo(f, 3) = SumUpTo(f, 2) + f[3] /\ SumUpTo(f, 4) = SumUpTo(f, 3) + f[4]
      /\ SumUpTo(f, 5) = SumUpTo(f, 4) + f[5]
  BY <1>4, <1>5
<1> QED
  BY <1>2, <1>6

\* Every order a user sees is counted under exactly one status.
LEMMA StatusesPartition ==
  ASSUME IInv, IsFiniteSet(Existing), NEW v \in Viewers
  PROVE  SumUpTo(StatusDistribution(v), Len(Statuses)) = Cardinality(ListPos(v))
<1> DEFINE In(st) == {o \in ListPos(v) : poStatus[o] = st}
           f == StatusDistribution(v)
<1>1. Len(Statuses) = 5
      /\ Statuses[1] = "DRAFT" /\ Statuses[2] = "CONFIRMED"
      /\ Statuses[3] = "PARTIALLY_RECEIVED" /\ Statuses[4] = "RECEIVED"
      /\ Statuses[5] = "CANCELLED"
  BY DEF Statuses
<1>2. PoScope(v) = ListPos(v) /\ HasPerm(v, "po:view")
  BY OneScope, EverybodySeesStock
<1>3. ListPos(v) \subseteq Existing /\ IsFiniteSet(ListPos(v))
  <2>1. ListPos(v) \subseteq Existing
    BY DEF ListPos, SourcedFrom
  <2> QED
    BY <2>1, FS_Subset
<1>4. \A st : IsFiniteSet(In(st)) /\ Cardinality(In(st)) \in Nat
  <2> TAKE st
  <2>1. In(st) \subseteq ListPos(v)
    OBVIOUS
  <2> QED
    BY <1>3, <2>1, FS_Subset, FS_CardinalityType
<1>5. \A i \in 1..5 : f[i] = Cardinality(In(Statuses[i]))
  BY <1>1, <1>2 DEF StatusDistribution
<1>6. /\ f[1] = Cardinality(In("DRAFT")) /\ f[2] = Cardinality(In("CONFIRMED"))
      /\ f[3] = Cardinality(In("PARTIALLY_RECEIVED"))
      /\ f[4] = Cardinality(In("RECEIVED")) /\ f[5] = Cardinality(In("CANCELLED"))
  BY <1>1, <1>5
<1> DEFINE B == In("DRAFT") \cup In("CONFIRMED")
           C == B \cup In("PARTIALLY_RECEIVED")
           D == C \cup In("RECEIVED")
<1>7. /\ In("DRAFT") \cap In("CONFIRMED") = {} /\ B \cap In("PARTIALLY_RECEIVED") = {}
      /\ C \cap In("RECEIVED") = {} /\ D \cap In("CANCELLED") = {}
  OBVIOUS
<1>8. ListPos(v) = D \cup In("CANCELLED")
  <2>1. \A o \in ListPos(v) : poStatus[o] \in PoStatus \ {"NONE"}
    BY <1>3 DEF Existing, IInv, DocsOK
  <2> QED
    BY <2>1 DEF PoStatus
<1> HIDE DEF In, f, B, C, D
<1>9. IsFiniteSet(B) /\ Cardinality(B) = f[1] + f[2]
  <2>1. IsFiniteSet(In("DRAFT")) /\ IsFiniteSet(In("CONFIRMED"))
    BY <1>4
  <2>2. /\ IsFiniteSet(In("DRAFT") \cup In("CONFIRMED"))
        /\ Cardinality(In("DRAFT") \cup In("CONFIRMED"))
             = Cardinality(In("DRAFT")) + Cardinality(In("CONFIRMED"))
    BY <1>7, <2>1, CountApart
  <2> QED
    BY <1>6, <2>2 DEF B
<1>10. IsFiniteSet(C) /\ Cardinality(C) = Cardinality(B) + f[3]
  <2>1. IsFiniteSet(In("PARTIALLY_RECEIVED"))
    BY <1>4
  <2>2. /\ IsFiniteSet(B \cup In("PARTIALLY_RECEIVED"))
        /\ Cardinality(B \cup In("PARTIALLY_RECEIVED"))
             = Cardinality(B) + Cardinality(In("PARTIALLY_RECEIVED"))
    BY <1>7, <1>9, <2>1, CountApart
  <2> QED
    BY <1>6, <2>2 DEF C
<1>11. IsFiniteSet(D) /\ Cardinality(D) = Cardinality(C) + f[4]
  <2>1. IsFiniteSet(In("RECEIVED"))
    BY <1>4
  <2>2. /\ IsFiniteSet(C \cup In("RECEIVED"))
        /\ Cardinality(C \cup In("RECEIVED")) = Cardinality(C) + Cardinality(In("RECEIVED"))
    BY <1>7, <1>10, <2>1, CountApart
  <2> QED
    BY <1>6, <2>2 DEF D
<1>12. Cardinality(ListPos(v)) = Cardinality(D) + f[5]
  <2>1. IsFiniteSet(In("CANCELLED"))
    BY <1>4
  <2>2. Cardinality(D \cup In("CANCELLED")) = Cardinality(D) + Cardinality(In("CANCELLED"))
    BY <1>7, <1>11, <2>1, CountApart
  <2> QED
    BY <1>6, <1>8, <2>2
<1>13. \A i \in 1..5 : f[i] \in Int
  BY <1>4, <1>5
<1>14. SumUpTo(f, 5) = f[1] + f[2] + f[3] + f[4] + f[5]
  BY <1>13, SumOfFive
<1>15. SumUpTo(f, 5) = Cardinality(ListPos(v))
  BY <1>9, <1>10, <1>11, <1>12, <1>13, <1>14
<1> QED
  BY <1>1, <1>15 DEF f

\* Whatever transactions race, the list of orders, the page of an order and
\* the dashboard show a user the same orders, each under one status, and a
\* receipt only with its order (list_pos, get_po, visible_po_id_stmt,
\* po_status_distribution, _visible_po_stmt).
THEOREM ScopesAreOne == Spec => []ScopesAgree
<1>1. ASSUME IInv, IsFiniteSet(Existing) PROVE ScopesAgree
  BY <1>1, OneScope, ReceiptsInScope, StatusesPartition, Zenon DEF ScopesAgree
<1>2. IInv /\ IsFiniteSet(Existing) => ScopesAgree
  BY <1>1
<1> QED
  BY <1>2, FiniteOrders, PTL

=============================================================================
