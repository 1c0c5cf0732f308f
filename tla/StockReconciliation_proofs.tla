--------------------- MODULE StockReconciliation_proofs ---------------------
(***************************************************************************)
(* The stock counts of StockReconciliation, for every number of sessions,  *)
(* documents, lines, warehouses and materials.  The first part holds       *)
(* however the requests interleave: the stock stays a book, a document     *)
(* posts once, and no edit is lost.  The second is about requests that do  *)
(* not overlap, which is where a posted document can be read as what       *)
(* happened to the stock.                                                  *)
(***************************************************************************)
EXTENDS StockReconciliation, Inventory_proofs, FiniteSetTheorems

-----------------------------------------------------------------------------
(* The inductive invariant *)

\* The lines of a document: one per material (uk_rc_mat), each with an id of its
\* own and with the difference between the count and the frozen book.
ItemsOK(items) ==
    /\ DistinctMaterials(items)
    /\ \A i, j \in 1..Len(items) : items[i].id = items[j].id => i = j
    /\ \A i \in 1..Len(items) :
          items[i].difference = items[i].physical - items[i].book.quantity

LinesOK(ds) == \A d \in 1..Len(ds) : ItemsOK(ds[d].items)

\* An open session sees a past of the documents and of the ledger, and sees a
\* document as it is when it sees its current version.
SeenOK(s) ==
    /\ snap[s].rows <= Len(ledger)
    /\ Len(snap[s].docs) <= Len(docs)
    /\ LinesOK(snap[s].docs)
    /\ \A d \in 1..Len(snap[s].docs) :
          /\ snap[s].docs[d].version <= docs[d].version
          /\ snap[s].docs[d].version = docs[d].version
                => snap[s].docs[d] = docs[d]

SnapshotsOK == \A s \in Sessions : IsOpen(s) => SeenOK(s)

\* A count row is the one of a document that exists.
SourcesOK == \A j \in 1..Len(ledger) :
                 IsCountRow(j) => ledger[j].source \in 1..Len(docs)

IInv == /\ TypeOK
        /\ StockInv
        /\ LinesOK(docs)
        /\ SnapshotsOK
        /\ SourcesOK
        /\ PostedOnce

-----------------------------------------------------------------------------
(* Types *)

LEMMA DocFields ==
  ASSUME NEW x \in Doc
  PROVE  /\ x.warehouse \in Warehouses /\ x.counted_by \in Users
         /\ x.status \in {"DRAFT", "PENDING", "POSTED", "REJECTED"}
         /\ x.version \in Nat /\ x.items \in Seq(Item)
  BY DEF Doc

LEMMA ItemFields ==
  ASSUME NEW x \in Item
  PROVE  /\ x.id \in Nat /\ x.material \in Materials /\ x.book \in BookState
         /\ x.physical \in Nat /\ x.difference \in Int
         /\ x.rate \in Nat /\ x.amount \in Int
  BY DEF Item

LEMMA BookFields ==
  ASSUME NEW x \in BookState
  PROVE  /\ x.quantity \in Nat /\ x.total_amount \in Nat
         /\ x.average_unit_cost \in Nat /\ x.watermark \in Nat
  BY DEF BookState

\* What an open session sees.
LEMMA SeenType ==
  ASSUME TypeOK, NEW s \in Sessions, IsOpen(s)
  PROVE  /\ snap[s] \in Snapshot
         /\ snap[s].docs \in Seq(Doc)
         /\ Len(snap[s].docs) \in Nat
         /\ \A d \in 1..Len(snap[s].docs) : snap[s].docs[d] \in Doc
         /\ snap[s].balance \in [Keys -> Balance]
         /\ snap[s].rows \in Nat
<1>1. snap[s] \in Snapshot
  BY DEF TypeOK, IsOpen
<1>2. /\ snap[s].docs \in Seq(Doc) /\ snap[s].balance \in [Keys -> Balance]
      /\ snap[s].rows \in Nat
  BY <1>1 DEF Snapshot
<1> QED
  BY <1>1, <1>2

\* The watermark of a key is its last row, 0 when it has none.
LEMMA WatermarkIs ==
  ASSUME NEW k, NEW n \in Nat
  PROVE  /\ Watermark(k, n) \in 0..n
         /\ Watermark(k, n) # 0 => ledger[Watermark(k, n)].key = k
         /\ \A j \in 1..n : ledger[j].key = k => j <= Watermark(k, n)
<1> DEFINE ids == {j \in 1..n : ledger[j].key = k}
           P(j) == \A h \in ids : h <= j
           top == CHOOSE j \in ids : P(j)
<1>1. CASE ids = {}
  BY <1>1 DEF Watermark
<1>2. CASE ids # {}
  <2>1. ids \in SUBSET Nat /\ \A x \in ids : x <= n
    OBVIOUS
  <2> HIDE DEF ids
  <2>2. \E j \in ids : P(j)
    BY <1>2, <2>1, LargestOf
  <2> HIDE DEF P
  <2>3. top \in ids /\ P(top)
    BY <2>2
  <2>4. Watermark(k, n) = top
    BY <1>2 DEF Watermark, ids, P, top
  <2> HIDE DEF top
  <2> QED
    BY <2>3, <2>4 DEF P, ids
<1> QED
  BY <1>1, <1>2

\* There is one number that is the watermark.
LEMMA WatermarkUnique ==
  ASSUME NEW k, NEW n \in Nat, NEW x \in 1..n, ledger[x].key = k,
         \A j \in 1..n : ledger[j].key = k => j <= x
  PROVE  Watermark(k, n) = x
<1>1. /\ Watermark(k, n) \in 0..n
      /\ Watermark(k, n) # 0 => ledger[Watermark(k, n)].key = k
      /\ x <= Watermark(k, n)
  BY WatermarkIs
<1>2. Watermark(k, n) \in 1..n
  BY <1>1
<1>3. Watermark(k, n) <= x
  BY <1>1, <1>2
<1> QED
  BY <1>1, <1>2, <1>3

LEMMA BookOfType ==
  ASSUME TypeOK, NEW s \in Sessions, IsOpen(s), NEW k \in Keys
  PROVE  BookOf(s, k) \in BookState
<1>1. snap[s].balance[k] \in Balance /\ snap[s].rows \in Nat
  BY SeenType
<1>2. Watermark(k, snap[s].rows) \in Nat
  BY <1>1, WatermarkIs
<1> QED
  BY <1>1, <1>2 DEF BookOf, BookState, Balance

LEMMA LineFields ==
  ASSUME NEW l \in Line
  PROVE  l.material \in Materials /\ l.physical \in Nat /\ l.rate \in Nat
<1>1. l.material \in Materials /\ l.physical \in 0..MaxQuantity /\ l.rate \in Rates \cup {0}
  BY DEF Line
<1>2. Rates \subseteq Nat /\ MaxQuantity \in Nat
  BY ReconciliationAssumption, Zenon
<1>3. l.physical \in Nat
  BY <1>1, <1>2
<1>4. l.rate \in Nat
  <2>1. l.rate \in Rates \/ l.rate = 0
    BY <1>1, Zenon
  <2>2. 0 \in Nat
    OBVIOUS
  <2> QED
    BY <1>2, <2>1, <2>2, Zenon
<1> QED
  BY <1>1, <1>3, <1>4

LEMMA AmountForType ==
  ASSUME NEW diff \in Int, NEW rate \in Nat, NEW average \in Nat
  PROVE  AmountFor(diff, rate, average) \in Int
<1>1. CASE diff > 0
  <2>1. diff \in Nat
    BY <1>1
  <2>2. LineAmount(diff, rate) \in Nat
    BY <2>1, CostType
  <2> QED
    BY <1>1, <2>2 DEF AmountFor
<1>2. CASE ~(diff > 0)
  <2>1. -diff \in Nat
    BY <1>2
  <2>2. LineAmount(-diff, average) \in Nat
    BY <2>1, CostType
  <2> QED
    BY <1>2, <2>2 DEF AmountFor
<1> QED
  BY <1>1, <1>2

LEMMA ItemForType ==
  ASSUME NEW id \in Nat, NEW line \in Line, NEW book \in BookState
  PROVE  /\ ItemFor(id, line, book) \in Item
         /\ ItemFor(id, line, book).id = id
         /\ ItemFor(id, line, book).material = line.material
         /\ ItemFor(id, line, book).physical = line.physical
         /\ ItemFor(id, line, book).book = book
         /\ ItemFor(id, line, book).difference = line.physical - book.quantity
<1>1. /\ line.material \in Materials /\ line.physical \in Nat /\ line.rate \in Nat
      /\ book.quantity \in Nat /\ book.average_unit_cost \in Nat
  BY LineFields, BookFields
<1>2. line.physical - book.quantity \in Int
  BY <1>1
<1>3. AmountFor(line.physical - book.quantity, line.rate,
                book.average_unit_cost) \in Int
  BY <1>1, <1>2, AmountForType
<1> QED
  BY <1>1, <1>2, <1>3 DEF ItemFor, Item

\* A request is a sequence of lines.
LEMMA RequestType ==
  ASSUME NEW lines \in CountRequests
  PROVE  /\ lines \in Seq(Line) /\ Len(lines) \in Nat
         /\ \A i \in 1..Len(lines) : lines[i] \in Line
<1>1. Cardinality(Materials) \in Nat
  BY ReconciliationAssumption, FS_CardinalityType
<1>2. PICK n \in 1..Cardinality(Materials) : lines \in [1..n -> Line]
  BY DEF CountRequests
<1>3. n \in Nat
  BY <1>1
<1> QED
  BY <1>2, <1>3

\* The item of an edited line is that of a new material, or keeps the id and the
\* frozen book of the line of its material.
LEMMA EditedItemIs ==
  ASSUME TypeOK, NEW s \in Sessions, IsOpen(s), NEW d \in 1..Len(snap[s].docs),
         NEW i \in Nat, NEW line \in Line
  PROVE  LET items == snap[s].docs[d].items
             w == snap[s].docs[d].warehouse
             x == EditedItem(s, d, i, line)
         IN  /\ \/ /\ \A p \in 1..Len(items) : items[p].material # line.material
                   /\ x = ItemFor(FreshId(items, i), line, BookOf(s, <<w, line.material>>))
                \/ \E p \in 1..Len(items) :
                      /\ items[p].material = line.material
                      /\ x = ItemFor(items[p].id, line, items[p].book)
             /\ x \in Item /\ x.material = line.material
             /\ x.difference = x.physical - x.book.quantity
<1> DEFINE items == snap[s].docs[d].items
           w == snap[s].docs[d].warehouse
           x == EditedItem(s, d, i, line)
           P == PlacesOf(items, line.material)
           q == CHOOSE p \in P : TRUE
           book == BookOf(s, <<w, line.material>>)
<1>1. /\ w \in Warehouses /\ items \in Seq(Item) /\ Len(items) \in Nat
      /\ \A p \in 1..Len(items) : items[p] \in Item
  <2>1. snap[s].docs[d] \in Doc
    BY SeenType
  <2>2. w \in Warehouses /\ items \in Seq(Item)
    BY <2>1, DocFields
  <2> HIDE DEF items
  <2> QED
    BY <2>2
<1>2. x = IF P = {} THEN ItemFor(FreshId(items, i), line, book)
          ELSE ItemFor(items[q].id, line, items[q].book)
  BY DEF EditedItem
<1> HIDE DEF items, w, x
<1>3. \A p : p \in P <=> p \in 1..Len(items) /\ items[p].material = line.material
  BY DEF PlacesOf
<1> HIDE DEF P
<1>4. CASE P = {}
  <2>1. x = ItemFor(FreshId(items, i), line, book)
    BY <1>2, <1>4
  <2>2. <<w, line.material>> \in Keys
    BY <1>1, LineFields DEF Keys
  <2>3. book \in BookState
    BY <2>2, BookOfType
  <2>4. NatIds(items)
    BY <1>1, ItemFields DEF NatIds
  <2>5. FreshId(items, i) \in Nat
    <3>1. PICK top \in Nat : FreshId(items, i) = i + top
      BY <2>4, FreshIdIs
    <3> QED
      BY <3>1
  <2> HIDE DEF book
  <2>6. /\ x \in Item /\ x.material = line.material
        /\ x.difference = x.physical - x.book.quantity
    BY <2>1, <2>3, <2>5, ItemForType
  <2> QED
    BY <1>3, <1>4, <2>1, <2>6 DEF items, w, x, book
<1>5. CASE P # {}
  <2>1. q \in P
    BY <1>5
  <2> HIDE DEF q
  <2>2. q \in 1..Len(items) /\ items[q].material = line.material
    BY <1>3, <2>1
  <2>3. x = ItemFor(items[q].id, line, items[q].book)
    BY <1>2, <1>5 DEF q
  <2>4. items[q].id \in Nat /\ items[q].book \in BookState
    BY <1>1, <2>2, ItemFields
  <2>5. /\ x \in Item /\ x.material = line.material
        /\ x.difference = x.physical - x.book.quantity
    BY <2>3, <2>4, ItemForType
  <2> QED
    BY <2>2, <2>3, <2>5 DEF items, w, x
<1> QED
  BY <1>4, <1>5

-----------------------------------------------------------------------------
(* The batch of a count *)

CountMove(d, w, item) ==
    Movement(IF item.difference > 0 THEN "ADJUST_IN" ELSE "ADJUST_OUT",
             <<w, item.material>>, item.difference,
             IF item.difference > 0 THEN item.rate ELSE item.book.average_unit_cost,
             item.amount, d, item.id, 0)

\* The movements of b are those of the lines that differ, line at[p] being the
\* one of the p-th movement.
PostsLines(at, b, d, w, items) ==
    /\ \A p \in 1..Len(b) : /\ at[p] \in 1..Len(items)
                            /\ items[at[p]].difference # 0
                            /\ b[p] = CountMove(d, w, items[at[p]])
    /\ \A i \in 1..Len(items) : items[i].difference # 0
          => \E p \in 1..Len(b) : at[p] = i
    /\ \A p, q \in 1..Len(b) : at[p] = at[q] => p = q

LEMMA CountMoveType ==
  ASSUME NEW d \in Nat, NEW w \in Warehouses, NEW x \in Item
  PROVE  /\ CountMove(d, w, x) \in Row
         /\ CountMove(d, w, x).key = <<w, x.material>>
         /\ CountMove(d, w, x).quantity = x.difference
         /\ CountMove(d, w, x).amount = x.amount
         /\ CountMove(d, w, x).source = d
         /\ CountMove(d, w, x).item = x.id
         /\ CountMove(d, w, x).type \in {"ADJUST_IN", "ADJUST_OUT"}
<1>1. /\ x.id \in Nat /\ x.material \in Materials /\ x.book \in BookState
      /\ x.difference \in Int /\ x.rate \in Nat /\ x.amount \in Int
  BY ItemFields
<1>2. x.book.average_unit_cost \in Nat
  BY <1>1, BookFields
<1>3. <<w, x.material>> \in Keys
  BY <1>1 DEF Keys
<1> DEFINE k == <<w, x.material>>
<1> HIDE DEF k
<1>4. \A t \in {"ADJUST_IN", "ADJUST_OUT"}, c \in Nat :
         LET m == Movement(t, k, x.difference, c, x.amount, d, x.id, 0)
         IN  /\ m \in Row /\ m.key = k /\ m.quantity = x.difference
             /\ m.amount = x.amount /\ m.source = d /\ m.item = x.id
             /\ m.type = t
  BY <1>1, <1>3 DEF Movement, Row, InboundTypes, OutboundTypes, k
<1>5. CASE x.difference > 0
  <2>1. CountMove(d, w, x)
           = Movement("ADJUST_IN", k, x.difference, x.rate, x.amount, d, x.id, 0)
    BY <1>5 DEF CountMove, k
  <2> QED
    BY <1>1, <1>4, <2>1 DEF k
<1>6. CASE ~(x.difference > 0)
  <2>1. CountMove(d, w, x)
           = Movement("ADJUST_OUT", k, x.difference, x.book.average_unit_cost,
                      x.amount, d, x.id, 0)
    BY <1>6 DEF CountMove, k
  <2> QED
    BY <1>2, <1>4, <2>1 DEF k
<1> QED
  BY <1>5, <1>6

LEMMA CountBatchIs ==
  ASSUME NEW d \in Nat, NEW w \in Warehouses, NEW items \in Seq(Item)
  PROVE  /\ CountBatch(d, w, items) \in Seq(Row)
         /\ \E at : PostsLines(at, CountBatch(d, w, items), d, w, items)
<1> DEFINE n == Len(items)
           D == {j \in 1..n : items[j].difference # 0}
           moves == [i \in D |-> CountMove(d, w, items[i])]
           b == InLineOrder(n, moves)
<1>1. n \in Nat /\ D \in SUBSET (1..n) /\ \A i \in 1..n : items[i] \in Item
  OBVIOUS
<1>2. b = CountBatch(d, w, items)
  BY DEF CountBatch, CountMove
<1>3. \A i \in D : CountMove(d, w, items[i]) \in Row
  BY <1>1, CountMoveType
<1>4. moves \in [D -> Row] /\ DOMAIN moves = D
  BY <1>3
<1>5. /\ \A i \in D : moves[i] = CountMove(d, w, items[i])
      /\ \A i : i \in D <=> i \in 1..n /\ items[i].difference # 0
      /\ \A i \in 1..n : i <= n
  BY <1>1
<1> HIDE DEF moves, D
<1>6. InLineOrder(n, moves) \in Seq(Row)
  BY <1>1, <1>4, InLineOrderType
<1>7. PICK at : Picks(at, InLineOrder(n, moves), moves, n)
  BY <1>1, <1>4, InLineOrderPicks
<1>8. PostsLines(at, b, d, w, items)
  <2> HIDE DEF b
  <2>1. Picks(at, b, moves, n)
    BY <1>7 DEF b
  <2>2. \A p \in 1..Len(b) : at[p] \in D /\ b[p] = moves[at[p]]
    BY <1>4, <2>1 DEF Picks
  <2>3. \A i \in D : \E p \in 1..Len(b) : at[p] = i
    BY <1>4, <1>5, <2>1 DEF Picks
  <2>4. \A p, q \in 1..Len(b) : at[p] = at[q] => p = q
    BY <2>1 DEF Picks
  <2> HIDE DEF n
  <2> QED
    BY <1>5, <2>2, <2>3, <2>4, Zenon DEF PostsLines, n
<1> HIDE DEF b
<1> QED
  BY <1>2, <1>6, <1>8 DEF b

LEMMA BatchKeysDistinct ==
  ASSUME NEW d \in Nat, NEW w \in Warehouses, NEW items \in Seq(Item),
         DistinctMaterials(items), NEW b, NEW at, PostsLines(at, b, d, w, items)
  PROVE  /\ DistinctKeys(b)
         /\ \A p \in 1..Len(b) :
               /\ b[p].key = <<w, items[at[p]].material>>
               /\ b[p].quantity = items[at[p]].difference
               /\ b[p].amount = items[at[p]].amount
               /\ b[p].source = d /\ b[p].item = items[at[p]].id
               /\ b[p].type \in {"ADJUST_IN", "ADJUST_OUT"}
<1>1. ASSUME NEW p \in 1..Len(b)
      PROVE  /\ at[p] \in 1..Len(items)
             /\ b[p].key = <<w, items[at[p]].material>>
             /\ b[p].quantity = items[at[p]].difference
             /\ b[p].amount = items[at[p]].amount
             /\ b[p].source = d /\ b[p].item = items[at[p]].id
             /\ b[p].type \in {"ADJUST_IN", "ADJUST_OUT"}
  <2>1. at[p] \in 1..Len(items) /\ b[p] = CountMove(d, w, items[at[p]])
    BY DEF PostsLines
  <2>2. items[at[p]] \in Item
    BY <2>1
  <2> QED
    BY <2>1, <2>2, CountMoveType
<1>2. ASSUME NEW p \in 1..Len(b), NEW q \in 1..Len(b), b[p].key = b[q].key
      PROVE  p = q
  <2>1. <<w, items[at[p]].material>> = <<w, items[at[q]].material>>
    BY <1>1, <1>2
  <2>2. items[at[p]].material = items[at[q]].material
    BY <2>1
  <2>3. at[p] = at[q]
    BY <1>1, <2>2 DEF DistinctMaterials
  <2> QED
    BY <2>3 DEF PostsLines
<1> QED
  BY <1>1, <1>2 DEF DistinctKeys

\* The loop of approve_reconciliation posts its batch.
LEMMA AdjustmentsArePosted ==
  ASSUME StockTypeOK, NEW b \in Seq(Row), DistinctKeys(b), PostAdjustments(b)
  PROVE  Posted(b)
<1>1. /\ Len(b) \in Nat /\ Len(b) \in 0..Len(b)
      /\ \A i \in 1..Len(b) : b[i].key \in Keys
      /\ \A k \in Keys : balance[k] \in Balance
  BY RowFields DEF StockTypeOK
<1>2. \A k \in Keys : /\ balance[k].quantity \in Nat
                      /\ balance[k].total_amount \in Nat
  BY <1>1 DEF Balance
<1>3. \A k : /\ QuantityOf(b, k) \in Int /\ AmountOf(b, k) \in Int
             /\ k \notin KeysOf(b) => QuantityOf(b, k) = 0 /\ AmountOf(b, k) = 0
  BY <1>1, BatchTotals DEF QuantityOf, AmountOf
<1>4. ASSUME NEW k \in Keys
      PROVE  /\ balance'[k] \in Balance
             /\ balance'[k].quantity = balance[k].quantity + QuantityOf(b, k)
             /\ balance'[k].total_amount
                  = balance[k].total_amount + AmountOf(b, k)
  <2> DEFINE q == QuantityOf(b, k)
             a == AmountOf(b, k)
  <2>1. q \in Int /\ a \in Int
    BY <1>3
  <2>2. balance'[k] = IF k \notin KeysOf(b) THEN balance[k]
                      ELSE IF q > 0 THEN ApplyInbound(balance[k], q, a)
                      ELSE ApplyOutbound(balance[k], -q, -a)
    BY DEF PostAdjustments
  <2>3. k \in KeysOf(b) => IF q > 0 THEN InboundOK(balance[k], q, a)
                           ELSE OutboundOK(balance[k], -q, -a)
    BY DEF PostAdjustments
  <2> DEFINE nq == balance[k].quantity + q
             na == balance[k].total_amount + a
  <2>4. CASE k \notin KeysOf(b)
    BY <1>1, <1>2, <1>3, <2>2, <2>4
  <2>5. CASE k \in KeysOf(b) /\ q > 0
    <3> HIDE DEF q, a
    <3>1. nq \in Nat /\ na \in Nat
      BY <1>2, <2>1, <2>3, <2>5 DEF InboundOK
    <3>2. NewAverage(na, nq) \in Nat
      BY <3>1, CostType
    <3>3. balance'[k] = [quantity |-> nq, total_amount |-> na,
                         average_unit_cost |-> NewAverage(na, nq)]
      BY <2>2, <2>5 DEF ApplyInbound
    <3> QED
      BY <3>1, <3>2, <3>3 DEF Balance, q, a
  <2>6. CASE k \in KeysOf(b) /\ ~(q > 0)
    <3> HIDE DEF q, a
    <3>1. /\ nq \in Nat /\ na \in Nat
          /\ balance[k].quantity - (-q) = nq
          /\ balance[k].total_amount - (-a) = na
      BY <1>2, <2>1, <2>3, <2>6 DEF OutboundOK
    <3>2. NewAverage(na, nq) \in Nat
      BY <3>1, CostType
    <3>3. balance'[k] = ApplyOutbound(balance[k], -q, -a)
      BY <2>2, <2>6
    <3>4. balance'[k] = [quantity |-> nq, total_amount |-> na,
                         average_unit_cost |-> NewAverage(na, nq)]
      BY <3>1, <3>3, Zenon DEF ApplyOutbound
    <3> QED
      BY <3>1, <3>2, <3>4 DEF Balance, q, a
  <2> QED
    BY <2>4, <2>5, <2>6
<1>5. balance' \in [Keys -> Balance]
  <2>1. balance' = [k \in Keys |-> balance'[k]]
    BY DEF PostAdjustments
  <2> QED
    BY <1>4, <2>1
<1>6. ASSUME NEW i \in 1..Len(b) PROVE BalanceAfter(b, i) >= 0
  <2>1. QuantityUpTo(b, b[i].key, i) = QuantityOf(b, b[i].key)
    BY DistinctTotals
  <2>2. balance'[b[i].key].quantity >= 0
    BY <1>1, <1>4 DEF Balance
  <2> QED
    BY <1>1, <1>4, <2>1, <2>2 DEF BalanceAfter
<1> QED
  BY <1>4, <1>5, <1>6 DEF Posted, PostAdjustments

-----------------------------------------------------------------------------
(* What the steps have in common *)

\* The documents are added to and changed, each change of one being a new
\* version of a document that is not posted.
DocsMove ==
    /\ docs' \in Seq(Doc)
    /\ Len(docs) <= Len(docs')
    /\ LinesOK(docs)'
    /\ \A d \in 1..Len(docs) :
          \/ docs'[d] = docs[d]
          \/ /\ docs[d].status # "POSTED"
             /\ docs'[d].version = docs[d].version + 1

LedgerGrows ==
    /\ Len(ledger) \in Nat /\ Len(ledger') \in Nat
    /\ Len(ledger) <= Len(ledger')
    /\ \A j \in 1..Len(ledger) : ledger'[j] = ledger[j]

\* No document becomes posted.
NonePosted ==
    \A d \in 1..Len(docs') : docs'[d].status = "POSTED" =>
        d \in 1..Len(docs) /\ docs'[d] = docs[d]

\* No new row is one of a count.
NoCountRows ==
    \A j \in (Len(ledger) + 1)..Len(ledger') :
        ledger'[j].type \notin {"ADJUST_IN", "ADJUST_OUT"}

\* A step that posts no count.
PlainStep == DocsMove /\ LedgerGrows /\ NonePosted /\ NoCountRows

\* What NoLostEdit says of a step.
EditStep ==
    \A d \in 1..Len(docs) :
        docs'[d].items # docs[d].items =>
            \E s \in Sessions :
                /\ IsOpen(s) /\ snap'[s] = NoSnapshot
                /\ d \in 1..Len(snap[s].docs)
                /\ snap[s].docs[d] = docs[d]

BookStep == [Book!Post]_(Book!bookVars)

LEMMA DocsType ==
  ASSUME TypeOK
  PROVE  /\ docs \in Seq(Doc) /\ Len(docs) \in Nat
         /\ \A d \in 1..Len(docs) : /\ docs[d] \in Doc
                                    /\ docs[d].version \in Nat
                                    /\ docs[d].items \in Seq(Item)
<1>1. docs \in Seq(Doc)
  BY DEF TypeOK
<1>2. Len(docs) \in Nat /\ \A d \in 1..Len(docs) : docs[d] \in Doc
  BY <1>1
<1> QED
  BY <1>1, <1>2, DocFields

LEMMA SameDocs ==
  ASSUME IInv, UNCHANGED docs
  PROVE  DocsMove /\ NonePosted
<1>1. docs \in Seq(Doc) /\ Len(docs) \in Nat
  BY DocsType DEF IInv
<1> QED
  BY <1>1 DEF DocsMove, IInv, LinesOK, NonePosted

LEMMA SameStock ==
  ASSUME IInv, UNCHANGED stockVars
  PROVE  LedgerGrows /\ NoCountRows /\ StockInv' /\ BookStep
<1>1. ledger \in Seq(Row) /\ Len(ledger) \in Nat /\ ledger' = ledger /\ balance' = balance
  BY DEF IInv, StockInv, StockTypeOK, stockVars
<1>2. LedgerGrows /\ NoCountRows
  BY <1>1 DEF LedgerGrows, NoCountRows
<1>3. StockInv'
  BY <1>1 DEF IInv, StockInv, StockTypeOK, BalanceIsLedgerSum, RunningBalance
<1>4. BookStep
  BY <1>1 DEF BookStep, Book!bookVars
<1> QED
  BY <1>2, <1>3, <1>4

\* A session that ends leaves the others with what they saw.
LEMMA SnapshotsKept ==
  ASSUME IInv, DocsMove, LedgerGrows, NEW s \in Sessions, Commit(s)
  PROVE  SnapshotsOK'
<1> SUFFICES ASSUME NEW t \in Sessions, IsOpen(t)' PROVE SeenOK(t)'
  BY DEF SnapshotsOK
<1>1. snap'[t] = snap[t] /\ IsOpen(t)
  <2>1. snap \in [Sessions -> Snapshot \cup {NoSnapshot}]
    BY DEF IInv, TypeOK
  <2>2. t # s
    BY <2>1 DEF Commit, IsOpen
  <2> QED
    BY <2>1, <2>2 DEF Commit, IsOpen
<1>2. SeenOK(t)
  BY <1>1 DEF IInv, SnapshotsOK
<1>3. /\ snap[t].rows \in Nat /\ Len(snap[t].docs) \in Nat /\ Len(docs) \in Nat
      /\ \A d \in 1..Len(snap[t].docs) : snap[t].docs[d] \in Doc
      /\ \A d \in 1..Len(docs) : docs[d].version \in Nat
      /\ Len(ledger) \in Nat
  <2>1. TypeOK /\ ledger \in Seq(Row)
    BY DEF IInv, StockInv, StockTypeOK
  <2>2. /\ snap[t].rows \in Nat /\ Len(snap[t].docs) \in Nat
        /\ \A d \in 1..Len(snap[t].docs) : snap[t].docs[d] \in Doc
    BY <1>1, <2>1, SeenType, Zenon
  <2>3. Len(docs) \in Nat /\ \A d \in 1..Len(docs) : docs[d].version \in Nat
    BY <2>1, DocsType, Zenon
  <2>4. Len(ledger) \in Nat
    BY <2>1
  <2> QED
    BY <2>2, <2>3, <2>4, Zenon
<1>4. Len(docs') \in Nat /\ Len(ledger') \in Nat
  BY DEF DocsMove, LedgerGrows
<1>5. snap[t].rows <= Len(ledger') /\ Len(snap[t].docs) <= Len(docs')
  BY <1>2, <1>3, <1>4 DEF SeenOK, DocsMove, LedgerGrows
<1>6. ASSUME NEW d \in 1..Len(snap[t].docs)
      PROVE  /\ snap[t].docs[d].version <= docs'[d].version
             /\ snap[t].docs[d].version = docs'[d].version
                   => snap[t].docs[d] = docs'[d]
  <2>1. d \in 1..Len(docs)
    BY <1>2, <1>3 DEF SeenOK
  <2>2. /\ snap[t].docs[d].version \in Nat /\ docs[d].version \in Nat
        /\ snap[t].docs[d].version <= docs[d].version
        /\ snap[t].docs[d].version = docs[d].version
              => snap[t].docs[d] = docs[d]
    BY <1>2, <1>3, <2>1, DocFields DEF SeenOK
  <2>3. CASE docs'[d] = docs[d]
    BY <2>2, <2>3
  <2>4. CASE docs'[d].version = docs[d].version + 1
    BY <2>2, <2>4
  <2> QED
    BY <2>1, <2>3, <2>4 DEF DocsMove
<1> QED
  BY <1>1, <1>2, <1>5, <1>6 DEF SeenOK, LinesOK

\* A step whose new rows are not those of a count keeps what the count rows say.
LEMMA CountRowsKept ==
  ASSUME IInv, DocsMove, LedgerGrows, NoCountRows
  PROVE  SourcesOK' /\ PostedOnce'
<1>1. /\ Len(docs) \in Nat /\ Len(docs') \in Nat /\ Len(docs) <= Len(docs')
      /\ Len(ledger) \in Nat /\ Len(ledger') \in Nat
  BY DocsType DEF IInv, DocsMove, LedgerGrows
<1>2. ASSUME NEW j \in 1..Len(ledger'), IsCountRow(j)'
      PROVE  /\ j \in 1..Len(ledger) /\ ledger'[j] = ledger[j] /\ IsCountRow(j)
             /\ ledger[j].source \in 1..Len(docs)
             /\ docs[ledger[j].source].status = "POSTED"
  <2>1. j \in 1..Len(ledger) \/ j \in (Len(ledger) + 1)..Len(ledger')
    BY <1>1
  <2>2. j \in 1..Len(ledger)
    BY <1>2, <2>1 DEF IsCountRow, NoCountRows
  <2>3. ledger'[j] = ledger[j] /\ IsCountRow(j)
    BY <1>2, <2>2 DEF LedgerGrows, IsCountRow
  <2> QED
    BY <2>2, <2>3 DEF IInv, SourcesOK, PostedOnce
<1>3. ASSUME NEW j \in 1..Len(ledger'), IsCountRow(j)'
      PROVE  /\ ledger'[j].source \in 1..Len(docs')
             /\ docs'[ledger'[j].source].status = "POSTED"
  <2>1. docs'[ledger[j].source] = docs[ledger[j].source]
    BY <1>2, <1>3 DEF DocsMove
  <2> QED
    BY <1>1, <1>2, <1>3, <2>1
<1>4. ASSUME NEW j \in 1..Len(ledger'), IsCountRow(j)',
             NEW h \in 1..Len(ledger'), IsCountRow(h)',
             ledger'[h].source = ledger'[j].source,
             ledger'[h].key = ledger'[j].key
      PROVE  h = j
  <2>1. /\ j \in 1..Len(ledger) /\ ledger'[j] = ledger[j] /\ IsCountRow(j)
        /\ h \in 1..Len(ledger) /\ ledger'[h] = ledger[h] /\ IsCountRow(h)
    BY <1>2, <1>4
  <2> QED
    BY <1>4, <2>1 DEF IInv, PostedOnce
<1>5. SourcesOK'
  BY <1>3 DEF SourcesOK
<1>6. PostedOnce'
  BY <1>3, <1>4 DEF PostedOnce
<1> QED
  BY <1>5, <1>6

\* A request that posts no count keeps the invariant.
LEMMA PlainKeeps ==
  ASSUME IInv, PlainStep, StockInv', NEW s \in Sessions, Commit(s),
         disabled' \in SUBSET (Warehouses \cup Materials)
  PROVE  IInv'
<1>1. SnapshotsOK' /\ SourcesOK' /\ PostedOnce'
  BY SnapshotsKept, CountRowsKept DEF PlainStep
<1>2. snap' \in [Sessions -> Snapshot \cup {NoSnapshot}]
  BY DEF IInv, TypeOK, Commit
<1>3. TypeOK'
  BY <1>2 DEF TypeOK, StockInv, DocsMove, PlainStep
<1> QED
  BY <1>1, <1>3 DEF IInv, DocsMove, PlainStep

\* A session opens.
LEMMA BeginStep ==
  ASSUME IInv, NEW s \in Sessions, Begin(s)
  PROVE  IInv' /\ BookStep /\ EditStep /\ PlainStep
<1>1. /\ docs' = docs /\ disabled' = disabled /\ UNCHANGED stockVars
      /\ ledger' = ledger /\ snap' = [snap EXCEPT ![s] = View]
  BY DEF Begin, stockVars
<1>2. PlainStep /\ StockInv' /\ BookStep /\ LedgerGrows /\ DocsMove
  BY <1>1, SameDocs, SameStock DEF PlainStep
<1>3. /\ Len(ledger) \in Nat /\ docs \in Seq(Doc) /\ Len(docs) \in Nat
      /\ balance \in [Keys -> Balance]
      /\ snap \in [Sessions -> Snapshot \cup {NoSnapshot}]
      /\ disabled \in SUBSET (Warehouses \cup Materials)
  BY DocsType DEF IInv, TypeOK, StockInv, StockTypeOK, LedgerGrows
<1>4. View \in Snapshot
  BY <1>3 DEF View, Snapshot
<1>5. TypeOK'
  BY <1>1, <1>2, <1>3, <1>4 DEF TypeOK, StockInv
<1>6. ASSUME NEW t \in Sessions, IsOpen(t)' PROVE SeenOK(t)'
  <2>1. CASE t = s
    <3>1. snap'[t] = View
      BY <1>1, <1>3, <2>1
    <3>2. snap'[t].rows = Len(ledger) /\ snap'[t].docs = docs
      BY <3>1 DEF View
    <3>3. LinesOK(docs)
      BY DEF IInv
    <3>4. \A d \in 1..Len(docs) : docs[d].version <= docs[d].version
      BY DocsType DEF IInv
    <3> QED
      BY <1>1, <1>3, <3>2, <3>3, <3>4 DEF SeenOK, LinesOK
  <2>2. CASE t # s
    <3>1. snap'[t] = snap[t] /\ IsOpen(t)
      BY <1>1, <1>3, <1>6, <2>2 DEF IsOpen
    <3>2. SeenOK(t)
      BY <3>1 DEF IInv, SnapshotsOK
    <3> QED
      BY <1>1, <3>1, <3>2 DEF SeenOK, LinesOK
  <2> QED
    BY <2>1, <2>2
<1>7. SourcesOK' /\ PostedOnce'
  BY <1>1 DEF IInv, SourcesOK, PostedOnce, IsCountRow
<1>8. EditStep
  BY <1>1 DEF EditStep
<1> QED
  BY <1>2, <1>5, <1>6, <1>7, <1>8 DEF IInv, SnapshotsOK, DocsMove

-----------------------------------------------------------------------------
(* The steps *)

\* Rollbacks and the pages of the master data.
LEMMA IdleStep ==
  ASSUME IInv, NEW s \in Sessions, Commit(s), UNCHANGED docs, UNCHANGED stockVars,
         disabled' \in SUBSET (Warehouses \cup Materials)
  PROVE  IInv' /\ BookStep /\ EditStep /\ PlainStep
<1>1. PlainStep /\ StockInv' /\ BookStep
  BY SameDocs, SameStock DEF PlainStep
<1>2. IInv'
  BY <1>1, PlainKeeps
<1>3. EditStep
  BY DEF EditStep
<1> QED
  BY <1>1, <1>2, <1>3

LEMMA ToggleStep ==
  ASSUME IInv, NEW s \in Sessions, NEW d \in Retirable, ToggleMasterData(s, d)
  PROVE  IInv' /\ BookStep /\ EditStep /\ PlainStep
<1>1. disabled \in SUBSET (Warehouses \cup Materials)
  BY DEF IInv, TypeOK
<1>2. d \in Warehouses \cup Materials
  BY ReconciliationAssumption, Zenon
<1>3. disabled' \in SUBSET (Warehouses \cup Materials)
  <2>1. CASE d \in snap[s].disabled
    BY <1>1, <2>1 DEF ToggleMasterData
  <2>2. CASE d \notin snap[s].disabled
    BY <1>1, <1>2, <2>2 DEF ToggleMasterData
  <2> QED
    BY <2>1, <2>2
<1>4. Commit(s) /\ UNCHANGED docs /\ UNCHANGED stockVars
  BY DEF ToggleMasterData
<1> QED
  BY <1>3, <1>4, IdleStep

\* The documents stay, and a batch is posted that is not the one of a count.
LEMMA GoodsStep ==
  ASSUME IInv, NEW s \in Sessions, Commit(s), UNCHANGED <<docs, disabled>>,
         NEW b \in Seq(Row), Posted(b),
         \A p \in 1..Len(b) : b[p].type \notin {"ADJUST_IN", "ADJUST_OUT"}
  PROVE  IInv' /\ BookStep /\ EditStep /\ PlainStep
<1>1. StockInv /\ StockTypeOK
  BY DEF IInv, StockInv
<1>2. StockInv' /\ BookStep
  BY <1>1, PostedKeepsStock, PostedIsBooked DEF BookStep
<1>3. /\ Len(ledger) \in Nat /\ Len(b) \in Nat
      /\ Len(ledger') = Len(ledger) + Len(b)
      /\ \A j \in 1..Len(ledger) : ledger'[j] = ledger[j]
      /\ \A p \in 1..Len(b) : SameMove(ledger'[Len(ledger) + p], b[p])
      /\ \A j \in (Len(ledger) + 1)..Len(ledger') :
            \E p \in 1..Len(b) : j = Len(ledger) + p
  BY <1>1, PostedRows
<1>4. LedgerGrows
  BY <1>3 DEF LedgerGrows
<1>5. NoCountRows
  BY <1>3 DEF SameMove, NoCountRows
<1>6. PlainStep
  BY <1>4, <1>5, SameDocs DEF PlainStep
<1>7. disabled' \in SUBSET (Warehouses \cup Materials)
  BY DEF IInv, TypeOK
<1>8. IInv'
  BY <1>2, <1>6, <1>7, PlainKeeps
<1>9. EditStep
  BY DEF EditStep
<1> QED
  BY <1>2, <1>6, <1>8, <1>9

LEMMA OneMovement ==
  ASSUME NEW x \in Row
  PROVE  /\ <<x>> \in Seq(Row) /\ Len(<<x>>) = 1
         /\ \A p \in 1..Len(<<x>>) : <<x>>[p] = x
  OBVIOUS

LEMMA ReceiveStep ==
  ASSUME IInv, NEW s \in Sessions, NEW k \in Keys, NEW q \in 1..MaxQuantity,
         NEW p \in Rates, ReceiveGoods(s, k, q, p)
  PROVE  IInv' /\ BookStep /\ EditStep /\ PlainStep
<1> DEFINE x == Movement("PURCHASE_IN", k, q, p, LineAmount(q, p), 0, 0, 0)
           b == <<x>>
<1>1. q \in Nat /\ p \in Nat
  <2>1. Rates \subseteq Nat /\ MaxQuantity \in Nat
    BY ReconciliationAssumption, Zenon
  <2>2. p \in Nat
    BY <2>1, Zenon
  <2>3. q \in Nat
    BY <2>1
  <2> QED
    BY <2>2, <2>3
<1>2. LineAmount(q, p) \in Nat
  BY <1>1, CostType
<1>3. x \in Row /\ x.type = "PURCHASE_IN"
  BY <1>1, <1>2 DEF Movement, Row, InboundTypes, OutboundTypes
<1>4. PostInbound(b) /\ Commit(s) /\ UNCHANGED <<docs, disabled>>
  BY DEF ReceiveGoods
<1> HIDE DEF x
<1>5. b \in Seq(Row) /\ \A i \in 1..Len(b) : b[i].type = "PURCHASE_IN"
  BY <1>3, OneMovement
<1> HIDE DEF b
<1>6. Posted(b)
  BY <1>4, <1>5, InboundIsPosted DEF IInv, StockInv, InboundTypes
<1> QED
  BY <1>4, <1>5, <1>6, GoodsStep

LEMMA ReverseStep ==
  ASSUME IInv, NEW s \in Sessions, NEW j \in 1..Len(ledger), ReverseGoods(s, j)
  PROVE  IInv' /\ BookStep /\ EditStep /\ PlainStep
<1> DEFINE x == Movement("PURCHASE_IN_REVERSAL", ledger[j].key,
                         -ledger[j].quantity, ledger[j].unit_cost,
                         -ledger[j].amount, 0, 0, j)
           b == <<x>>
<1>1. ledger \in Seq(Row) /\ ledger[j] \in Row /\ j \in Nat
  BY DEF IInv, StockInv, StockTypeOK
<1>2. /\ ledger[j].key \in Keys /\ ledger[j].quantity \in Int
      /\ ledger[j].unit_cost \in Nat /\ ledger[j].amount \in Int
  BY <1>1 DEF Row
<1>3. -ledger[j].quantity \in Int /\ -ledger[j].amount \in Int
  BY <1>2
<1>4. x \in Row /\ x.type = "PURCHASE_IN_REVERSAL"
  BY <1>1, <1>2, <1>3 DEF Movement, Row, InboundTypes, OutboundTypes
<1>5. PostOutbound(b) /\ Commit(s) /\ UNCHANGED <<docs, disabled>>
  BY DEF ReverseGoods
<1> HIDE DEF x
<1>6. b \in Seq(Row) /\ \A i \in 1..Len(b) : b[i].type = "PURCHASE_IN_REVERSAL"
  BY <1>4, OneMovement
<1> HIDE DEF b
<1>7. Posted(b)
  BY <1>5, <1>6, OutboundIsPosted DEF IInv, StockInv, OutboundTypes
<1> QED
  BY <1>5, <1>6, <1>7, GoodsStep

\* A document is added.
LEMMA AddedDoc ==
  ASSUME IInv, NEW x \in Doc, ItemsOK(x.items), x.status # "POSTED",
         docs' = Append(docs, x)
  PROVE  DocsMove /\ EditStep /\ NonePosted
<1>1. docs \in Seq(Doc) /\ Len(docs) \in Nat
  BY DocsType DEF IInv
<1>2. /\ docs' \in Seq(Doc) /\ Len(docs') = Len(docs) + 1
      /\ docs'[Len(docs) + 1] = x
      /\ \A d \in 1..Len(docs) : docs'[d] = docs[d]
  BY <1>1, AppendedSeq
<1>3. LinesOK(docs)'
  <2> SUFFICES ASSUME NEW d \in 1..Len(docs') PROVE ItemsOK(docs'[d].items)
    BY DEF LinesOK, ItemsOK, DistinctMaterials
  <2>1. CASE d = Len(docs) + 1
    BY <1>2, <2>1
  <2>2. CASE d # Len(docs) + 1
    <3>1. d \in 1..Len(docs)
      BY <1>1, <1>2, <2>2
    <3> QED
      BY <1>2, <3>1 DEF IInv, LinesOK
  <2> QED
    BY <2>1, <2>2
<1>4. NonePosted
  <2> SUFFICES ASSUME NEW d \in 1..Len(docs'), docs'[d].status = "POSTED"
               PROVE  d \in 1..Len(docs)
    BY <1>2 DEF NonePosted
  <2>1. d # Len(docs) + 1
    BY <1>2
  <2> QED
    BY <1>1, <1>2, <2>1
<1> QED
  BY <1>1, <1>2, <1>3, <1>4 DEF DocsMove, EditStep

\* A document gets a new version.
LEMMA ChangedDoc ==
  ASSUME IInv, NEW d \in 1..Len(docs), NEW x \in Doc, ItemsOK(x.items),
         x.version = docs[d].version + 1, docs[d].status # "POSTED",
         docs' = [docs EXCEPT ![d] = x]
  PROVE  /\ DocsMove /\ Len(docs') = Len(docs) /\ docs'[d] = x
         /\ \A e \in 1..Len(docs) : e # d => docs'[e] = docs[e]
         /\ x.status # "POSTED" => NonePosted
<1>1. docs \in Seq(Doc) /\ Len(docs) \in Nat
  BY DocsType DEF IInv
<1>2. /\ docs' \in Seq(Doc) /\ Len(docs') = Len(docs) /\ docs'[d] = x
      /\ \A e \in 1..Len(docs) : e # d => docs'[e] = docs[e]
  BY <1>1, UpdatedSeq
<1>3. LinesOK(docs)'
  <2> SUFFICES ASSUME NEW e \in 1..Len(docs') PROVE ItemsOK(docs'[e].items)
    BY DEF LinesOK, ItemsOK, DistinctMaterials
  <2>1. CASE e = d
    BY <1>2, <2>1
  <2>2. CASE e # d
    BY <1>2, <2>2 DEF IInv, LinesOK
  <2> QED
    BY <2>1, <2>2
<1> QED
  BY <1>1, <1>2, <1>3 DEF DocsMove, NonePosted

\* The state of a document changes.
LEMMA MovedDoc ==
  ASSUME IInv, NEW d \in 1..Len(docs), docs[d].status # "POSTED",
         NEW st \in {"DRAFT", "PENDING", "POSTED", "REJECTED"},
         docs' = [docs EXCEPT ![d].status = st, ![d].version = @ + 1]
  PROVE  /\ DocsMove /\ EditStep
         /\ st # "POSTED" => NonePosted
         /\ Len(docs') = Len(docs)
         /\ docs'[d].status = st
         /\ \A e \in 1..Len(docs) : e # d => docs'[e] = docs[e]
         /\ \A e \in 1..Len(docs) : docs'[e].items = docs[e].items
         /\ \A e \in 1..Len(docs) : docs'[e].warehouse = docs[e].warehouse
<1> DEFINE x == [docs[d] EXCEPT !.status = st, !.version = docs[d].version + 1]
<1>1. /\ docs \in Seq(Doc) /\ Len(docs) \in Nat /\ docs[d] \in Doc
      /\ docs[d].version \in Nat
  BY DocsType DEF IInv
<1>2. \A y \in Doc, v \in Nat :
         LET z == [y EXCEPT !.status = st, !.version = v]
         IN  /\ z \in Doc /\ z.items = y.items /\ z.version = v
             /\ z.status = st /\ z.warehouse = y.warehouse
  BY DEF Doc
<1>3. docs[d].version + 1 \in Nat
  BY <1>1
<1>4. /\ x \in Doc /\ x.items = docs[d].items /\ x.version = docs[d].version + 1
      /\ x.status = st /\ x.warehouse = docs[d].warehouse
  BY <1>1, <1>2, <1>3, Zenon
<1>5. docs' = [docs EXCEPT ![d] = x]
  BY <1>1 DEF Doc
<1> HIDE DEF x
<1>6. ItemsOK(x.items)
  BY <1>4 DEF IInv, LinesOK
<1>7. DocsMove /\ (st # "POSTED" => NonePosted)
  BY <1>4, <1>5, <1>6, ChangedDoc
<1>8. /\ Len(docs') = Len(docs) /\ docs'[d] = x
      /\ \A e \in 1..Len(docs) : e # d => docs'[e] = docs[e]
  BY <1>4, <1>5, <1>6, ChangedDoc
<1>9. \A e \in 1..Len(docs) : /\ docs'[e].items = docs[e].items
                              /\ docs'[e].warehouse = docs[e].warehouse
  BY <1>4, <1>8
<1> QED
  BY <1>4, <1>7, <1>8, <1>9 DEF EditStep

\* A request that only touches the documents.
LEMMA DocumentStep ==
  ASSUME IInv, NEW s \in Sessions, Commit(s), UNCHANGED <<disabled, stockVars>>,
         DocsMove, NonePosted
  PROVE  IInv' /\ BookStep /\ PlainStep
<1>1. PlainStep /\ StockInv' /\ BookStep
  BY SameStock DEF PlainStep
<1>2. disabled' \in SUBSET (Warehouses \cup Materials)
  BY DEF IInv, TypeOK
<1> QED
  BY <1>1, <1>2, PlainKeeps

\* The lines of a new document.
LEMMA NewItems ==
  ASSUME TypeOK, NEW s \in Sessions, IsOpen(s), NEW w \in Warehouses,
         NEW lines \in CountRequests, DistinctMaterials(lines), NEW items,
         items = [i \in 1..Len(lines) |->
                    ItemFor(i, lines[i], BookOf(s, <<w, lines[i].material>>))]
  PROVE  items \in Seq(Item) /\ ItemsOK(items)
<1>1. Len(lines) \in Nat /\ \A i \in 1..Len(lines) : lines[i] \in Line
  BY RequestType
<1>2. ASSUME NEW i \in 1..Len(lines)
      PROVE  /\ items[i] \in Item /\ items[i].id = i
             /\ items[i].material = lines[i].material
             /\ items[i].difference = items[i].physical - items[i].book.quantity
  <2> DEFINE book == BookOf(s, <<w, lines[i].material>>)
  <2>1. lines[i] \in Line /\ i \in Nat
    BY <1>1
  <2>2. <<w, lines[i].material>> \in Keys
    BY <2>1, LineFields DEF Keys
  <2>3. book \in BookState
    BY <2>2, BookOfType
  <2>4. items[i] = ItemFor(i, lines[i], book)
    OBVIOUS
  <2> HIDE DEF book
  <2> QED
    BY <2>1, <2>3, <2>4, ItemForType
<1>3. items \in Seq(Item) /\ Len(items) = Len(lines)
  BY <1>1, <1>2
<1> QED
  BY <1>2, <1>3 DEF ItemsOK, DistinctMaterials

\* The lines of an edited document.
LEMMA EditedItems ==
  ASSUME IInv, NEW s \in Sessions, IsOpen(s), NEW d \in 1..Len(snap[s].docs),
         NEW lines \in CountRequests, DistinctMaterials(lines), NEW items,
         items = [i \in 1..Len(lines) |-> EditedItem(s, d, i, lines[i])]
  PROVE  items \in Seq(Item) /\ ItemsOK(items)
<1> DEFINE old == snap[s].docs[d].items
           New(i) == /\ \A p \in 1..Len(old) : old[p].material # lines[i].material
                     /\ items[i].id = FreshId(old, i)
           Kept(i, p) == /\ old[p].material = lines[i].material
                         /\ items[i].id = old[p].id
<1>1. Len(lines) \in Nat /\ \A i \in 1..Len(lines) : lines[i] \in Line
  BY RequestType
<1>2. /\ old \in Seq(Item) /\ Len(old) \in Nat
      /\ \A p \in 1..Len(old) : old[p] \in Item /\ old[p].id \in Nat
  <2>1. snap[s].docs[d] \in Doc
    BY SeenType DEF IInv
  <2>2. old \in Seq(Item)
    BY <2>1, DocFields
  <2> HIDE DEF old
  <2>3. Len(old) \in Nat /\ \A p \in 1..Len(old) : old[p] \in Item
    BY <2>2
  <2> QED
    BY <2>2, <2>3, ItemFields
<1>3. ItemsOK(old)
  BY DEF IInv, SnapshotsOK, SeenOK, LinesOK
<1>4. PICK top \in Nat : /\ \A j \in 1..Len(old) : old[j].id <= top
                         /\ \A i : FreshId(old, i) = i + top
  <2>1. NatIds(old)
    BY <1>2 DEF NatIds
  <2> HIDE DEF old
  <2> QED
    BY <2>1, FreshIdIs
<1>5. ASSUME NEW i \in 1..Len(lines)
      PROVE  /\ items[i] \in Item
             /\ items[i].material = lines[i].material
             /\ items[i].difference = items[i].physical - items[i].book.quantity
             /\ New(i) \/ \E p \in 1..Len(old) : Kept(i, p)
  <2> DEFINE w == snap[s].docs[d].warehouse
             book == BookOf(s, <<w, lines[i].material>>)
  <2>1. lines[i] \in Line /\ i \in Nat /\ items[i] = EditedItem(s, d, i, lines[i])
    BY <1>1
  <2>2. TypeOK
    BY DEF IInv
  <2>3. /\ \/ /\ \A p \in 1..Len(old) : old[p].material # lines[i].material
              /\ items[i] = ItemFor(FreshId(old, i), lines[i], book)
           \/ \E p \in 1..Len(old) :
                 /\ old[p].material = lines[i].material
                 /\ items[i] = ItemFor(old[p].id, lines[i], old[p].book)
        /\ items[i] \in Item /\ items[i].material = lines[i].material
        /\ items[i].difference = items[i].physical - items[i].book.quantity
    BY <2>1, <2>2, EditedItemIs, Zenon
  <2>4. \A id, b : ItemFor(id, lines[i], b).id = id
    BY DEF ItemFor
  <2> HIDE DEF book, w, old
  <2>5. CASE /\ \A p \in 1..Len(old) : old[p].material # lines[i].material
             /\ items[i] = ItemFor(FreshId(old, i), lines[i], book)
    <3>1. items[i].id = FreshId(old, i)
      BY <2>4, <2>5, Zenon
    <3> QED
      BY <2>3, <2>5, <3>1, Zenon
  <2>6. ASSUME NEW p \in 1..Len(old), old[p].material = lines[i].material,
               items[i] = ItemFor(old[p].id, lines[i], old[p].book)
        PROVE  Kept(i, p)
    BY <2>4, <2>6, Zenon
  <2> QED
    BY <2>3, <2>5, <2>6, Zenon
<1>6. items \in Seq(Item) /\ Len(items) = Len(lines)
  BY <1>1, <1>5
<1>7. ASSUME NEW i \in 1..Len(lines), NEW j \in 1..Len(lines),
             items[i].id = items[j].id
      PROVE  i = j
  <2> HIDE DEF old
  <2>1. CASE New(i) /\ New(j)
    BY <1>1, <1>4, <1>7, <2>1
  <2>2. ASSUME New(i), NEW q \in 1..Len(old), Kept(j, q) PROVE FALSE
    BY <1>1, <1>2, <1>4, <1>7, <2>2
  <2>3. ASSUME New(j), NEW p \in 1..Len(old), Kept(i, p) PROVE FALSE
    BY <1>1, <1>2, <1>4, <1>7, <2>3
  <2>4. ASSUME NEW p \in 1..Len(old), Kept(i, p), NEW q \in 1..Len(old), Kept(j, q)
        PROVE  i = j
    <3>1. p = q
      BY <1>3, <1>7, <2>4 DEF ItemsOK
    <3>2. lines[i].material = lines[j].material
      BY <2>4, <3>1
    <3> QED
      BY <3>2 DEF DistinctMaterials
  <2> QED
    BY <1>5, <2>1, <2>2, <2>3, <2>4
<1>8. DistinctMaterials(items)
  BY <1>5, <1>6 DEF DistinctMaterials
<1> QED
  BY <1>5, <1>6, <1>7, <1>8 DEF ItemsOK

\* The document that a session sees is one of the documents.
LEMMA SeenExists ==
  ASSUME IInv, NEW s \in Sessions, NEW d, NEW states, Sees(s, d, states)
  PROVE  /\ IsOpen(s) /\ d \in 1..Len(snap[s].docs) /\ d \in 1..Len(docs)
         /\ snap[s].docs[d] \in Doc /\ snap[s].docs[d].status \in states
         /\ ItemsOK(snap[s].docs[d].items)
         /\ snap[s].docs[d].version = docs[d].version => snap[s].docs[d] = docs[d]
<1>1. IsOpen(s) /\ d \in 1..Len(snap[s].docs) /\ snap[s].docs[d].status \in states
  BY DEF Sees
<1>2. SeenOK(s)
  BY <1>1 DEF IInv, SnapshotsOK
<1>3. /\ Len(docs) \in Nat /\ Len(snap[s].docs) \in Nat
      /\ snap[s].docs[d] \in Doc
  BY <1>1, SeenType, DocsType DEF IInv
<1>4. d \in 1..Len(docs)
  BY <1>1, <1>2, <1>3 DEF SeenOK
<1> QED
  BY <1>1, <1>2, <1>3, <1>4 DEF SeenOK, LinesOK

LEMMA CreateStep ==
  ASSUME IInv, NEW s \in Sessions, NEW u \in Users, NEW w \in Warehouses,
         NEW lines \in CountRequests, CreateReconciliation(s, u, w, lines)
  PROVE  IInv' /\ BookStep /\ EditStep /\ PlainStep
<1> DEFINE items == [i \in 1..Len(lines) |->
                        ItemFor(i, lines[i], BookOf(s, <<w, lines[i].material>>))]
           x == [warehouse |-> w, counted_by |-> u, status |-> "DRAFT",
                 version |-> 1, items |-> items]
<1>1. /\ IsOpen(s) /\ DistinctMaterials(lines) /\ Commit(s)
      /\ UNCHANGED <<disabled, stockVars>> /\ docs' = Append(docs, x)
  BY DEF CreateReconciliation
<1>2. items \in Seq(Item) /\ ItemsOK(items)
  BY <1>1, NewItems DEF IInv
<1> HIDE DEF items
<1>3. x \in Doc /\ x.items = items /\ x.status = "DRAFT"
  BY <1>2 DEF Doc
<1> HIDE DEF x
<1>4. DocsMove /\ EditStep /\ NonePosted
  BY <1>1, <1>2, <1>3, AddedDoc
<1> QED
  BY <1>1, <1>4, DocumentStep

LEMMA UpdateStep ==
  ASSUME IInv, NEW s \in Sessions, NEW d \in 1..Len(docs),
         NEW lines \in CountRequests, UpdateReconciliation(s, d, lines)
  PROVE  IInv' /\ BookStep /\ EditStep /\ PlainStep
<1> DEFINE doc == snap[s].docs[d]
           items == [i \in 1..Len(lines) |-> EditedItem(s, d, i, lines[i])]
           x == [docs[d] EXCEPT !.status = "DRAFT", !.version = doc.version + 1,
                                !.items = items]
<1>1. /\ Sees(s, d, {"DRAFT", "REJECTED"}) /\ DistinctMaterials(lines)
      /\ EditOK(s, d) /\ Commit(s) /\ UNCHANGED <<disabled, stockVars>>
      /\ docs' = [docs EXCEPT ![d].status = "DRAFT",
                              ![d].version = doc.version + 1,
                              ![d].items = items]
  BY DEF UpdateReconciliation
<1>2. /\ IsOpen(s) /\ d \in 1..Len(snap[s].docs) /\ doc \in Doc /\ doc = docs[d]
      /\ docs[d].status # "POSTED"
  BY <1>1, SeenExists DEF EditOK
<1>3. items \in Seq(Item) /\ ItemsOK(items)
  BY <1>1, <1>2, EditedItems
<1> HIDE DEF doc, items
<1>4. docs \in Seq(Doc) /\ docs[d] \in Doc /\ doc.version \in Nat
  BY <1>2, DocsType DEF IInv
<1>5. \A y \in Doc, v \in Nat :
         LET z == [y EXCEPT !.status = "DRAFT", !.version = v, !.items = items]
         IN  z \in Doc /\ z.items = items /\ z.version = v /\ z.status = "DRAFT"
  BY <1>3 DEF Doc
<1>6. doc.version + 1 \in Nat
  BY <1>4
<1>7. /\ x \in Doc /\ x.items = items /\ x.version = doc.version + 1
      /\ x.status = "DRAFT"
  BY <1>4, <1>5, <1>6, Zenon
<1>8. docs' = [docs EXCEPT ![d] = x]
  BY <1>1, <1>4 DEF Doc
<1> HIDE DEF x
<1>9. /\ DocsMove /\ NonePosted
      /\ \A e \in 1..Len(docs) : e # d => docs'[e] = docs[e]
  <2>1. ItemsOK(x.items) /\ x.version = docs[d].version + 1
    BY <1>2, <1>3, <1>7
  <2> QED
    BY <1>2, <1>7, <1>8, <2>1, ChangedDoc
<1>10. EditStep
  <2>1. snap'[s] = NoSnapshot
    BY <1>1 DEF Commit, IInv, TypeOK
  <2> QED
    BY <1>2, <1>9, <2>1, Zenon DEF EditStep, doc
<1> QED
  BY <1>1, <1>9, <1>10, DocumentStep

LEMMA SubmitStep ==
  ASSUME IInv, NEW s \in Sessions, NEW d \in 1..Len(docs), SubmitReconciliation(s, d)
  PROVE  IInv' /\ BookStep /\ EditStep /\ PlainStep
<1>1. /\ Commit(s) /\ UNCHANGED <<disabled, stockVars>> /\ docs[d].status # "POSTED"
      /\ docs' = [docs EXCEPT ![d].status = "PENDING", ![d].version = @ + 1]
  BY DEF SubmitReconciliation, SubmitOK
<1>2. DocsMove /\ EditStep /\ NonePosted
  BY <1>1, MovedDoc
<1> QED
  BY <1>1, <1>2, DocumentStep

LEMMA RejectStep ==
  ASSUME IInv, NEW s \in Sessions, NEW d \in 1..Len(docs), RejectReconciliation(s, d)
  PROVE  IInv' /\ BookStep /\ EditStep /\ PlainStep
<1>1. /\ Commit(s) /\ UNCHANGED <<disabled, stockVars>> /\ docs[d].status # "POSTED"
      /\ docs' = [docs EXCEPT ![d].status = "REJECTED", ![d].version = @ + 1]
  BY DEF RejectReconciliation, ClaimOK
<1>2. DocsMove /\ EditStep /\ NonePosted
  BY <1>1, MovedDoc
<1> QED
  BY <1>1, <1>2, DocumentStep

\* What an approval does: the batch of the lines that the session saw is posted,
\* and its rows are the first of the document.
LEMMA ApprovePosts ==
  ASSUME IInv, NEW s \in Sessions, NEW u \in Users, NEW d \in 1..Len(docs),
         ApproveReconciliation(s, u, d), NEW b,
         b = CountBatch(d, snap[s].docs[d].warehouse, snap[s].docs[d].items)
  PROVE  /\ b \in Seq(Row) /\ Posted(b) /\ DistinctKeys(b)
         /\ \A p \in 1..Len(b) : /\ b[p].source = d
                                 /\ b[p].type \in {"ADJUST_IN", "ADJUST_OUT"}
<1> DEFINE doc == snap[s].docs[d]
           w == doc.warehouse
           items == doc.items
<1>1. doc \in Doc /\ ItemsOK(items) /\ d \in Nat
  BY SeenExists, DocsType DEF ApproveReconciliation, IInv
<1>2. w \in Warehouses /\ items \in Seq(Item)
  BY <1>1, DocFields
<1>3. PostAdjustments(b)
  BY DEF ApproveReconciliation
<1> HIDE DEF doc, w, items
<1>4. b = CountBatch(d, w, items)
  BY DEF doc, w, items
<1>5. b \in Seq(Row)
  BY <1>1, <1>2, <1>4, CountBatchIs
<1>6. PICK at : PostsLines(at, b, d, w, items)
  BY <1>1, <1>2, <1>4, CountBatchIs
<1>7. /\ DistinctKeys(b)
      /\ \A p \in 1..Len(b) : /\ b[p].source = d
                              /\ b[p].type \in {"ADJUST_IN", "ADJUST_OUT"}
  BY <1>1, <1>2, <1>6, BatchKeysDistinct DEF ItemsOK
<1>8. Posted(b)
  BY <1>3, <1>5, <1>7, AdjustmentsArePosted DEF IInv, StockInv
<1> QED
  BY <1>5, <1>7, <1>8

LEMMA ApproveStep ==
  ASSUME IInv, NEW s \in Sessions, NEW u \in Users, NEW d \in 1..Len(docs),
         ApproveReconciliation(s, u, d)
  PROVE  IInv' /\ BookStep /\ EditStep
<1>1. PICK b : b = CountBatch(d, snap[s].docs[d].warehouse, snap[s].docs[d].items)
  OBVIOUS
<1>2. /\ b \in Seq(Row) /\ Posted(b) /\ DistinctKeys(b)
      /\ \A p \in 1..Len(b) : /\ b[p].source = d
                              /\ b[p].type \in {"ADJUST_IN", "ADJUST_OUT"}
  BY <1>1, ApprovePosts
<1>3. /\ Commit(s) /\ disabled' = disabled /\ docs[d].status # "POSTED"
      /\ docs' = [docs EXCEPT ![d].status = "POSTED", ![d].version = @ + 1]
  BY DEF ApproveReconciliation, ClaimOK
<1>4. /\ DocsMove /\ EditStep /\ Len(docs') = Len(docs) /\ docs'[d].status = "POSTED"
      /\ \A e \in 1..Len(docs) : e # d => docs'[e] = docs[e]
  BY <1>3, MovedDoc
<1>5. StockInv /\ StockTypeOK
  BY DEF IInv, StockInv
<1>6. StockInv' /\ BookStep
  BY <1>2, <1>5, PostedKeepsStock, PostedIsBooked DEF BookStep
<1> DEFINE N == Len(ledger)
<1>7. /\ N \in Nat /\ Len(b) \in Nat /\ Len(ledger') = N + Len(b)
      /\ \A j \in 1..N : ledger'[j] = ledger[j]
      /\ \A p \in 1..Len(b) : SameMove(ledger'[N + p], b[p])
      /\ \A j \in (N + 1)..Len(ledger') : \E p \in 1..Len(b) : j = N + p
  BY <1>2, <1>5, PostedRows
<1>8. LedgerGrows
  BY <1>7 DEF LedgerGrows
<1>9. SnapshotsOK'
  BY <1>3, <1>4, <1>8, SnapshotsKept
<1>10. TypeOK'
  <2>1. snap' \in [Sessions -> Snapshot \cup {NoSnapshot}]
    BY <1>3 DEF IInv, TypeOK, Commit
  <2> QED
    BY <1>3, <1>4, <1>6, <2>1 DEF TypeOK, StockInv, DocsMove, IInv
<1>11. ASSUME NEW j \in 1..N, IsCountRow(j)'
       PROVE  /\ ledger'[j] = ledger[j] /\ IsCountRow(j)
              /\ ledger[j].source \in 1..Len(docs) /\ ledger[j].source # d
              /\ docs[ledger[j].source].status = "POSTED"
  <2>1. ledger'[j] = ledger[j] /\ IsCountRow(j)
    BY <1>7, <1>11 DEF IsCountRow
  <2> QED
    BY <1>3, <2>1 DEF IInv, SourcesOK, PostedOnce
<1>12. ASSUME NEW j \in (N + 1)..Len(ledger')
       PROVE  \E p \in 1..Len(b) : /\ j = N + p /\ ledger'[j].source = d
                                   /\ ledger'[j].key = b[p].key
  BY <1>2, <1>7 DEF SameMove
<1>13. \A j \in 1..Len(ledger') : j \in 1..N \/ j \in (N + 1)..Len(ledger')
  BY <1>7
<1>14. ASSUME NEW j \in 1..Len(ledger'), IsCountRow(j)'
       PROVE  /\ ledger'[j].source \in 1..Len(docs')
              /\ docs'[ledger'[j].source].status = "POSTED"
  <2>1. CASE j \in 1..N
    BY <1>4, <1>11, <1>14, <2>1
  <2>2. CASE j \in (N + 1)..Len(ledger')
    <3>1. ledger'[j].source = d
      BY <1>12, <2>2
    <3> QED
      BY <1>4, <3>1
  <2> QED
    BY <1>13, <2>1, <2>2
<1>15. ASSUME NEW j \in 1..Len(ledger'), IsCountRow(j)',
              NEW h \in 1..Len(ledger'), IsCountRow(h)',
              ledger'[h].source = ledger'[j].source,
              ledger'[h].key = ledger'[j].key
       PROVE  h = j
  <2> HIDE DEF N
  <2>1. CASE j \in 1..N /\ h \in 1..N
    <3>1. /\ ledger'[j] = ledger[j] /\ IsCountRow(j)
          /\ ledger'[h] = ledger[h] /\ IsCountRow(h)
      BY <1>11, <1>15, <2>1
    <3> QED
      BY <1>15, <2>1, <3>1 DEF IInv, PostedOnce, N
  <2>2. CASE j \in 1..N /\ h \in (N + 1)..Len(ledger')
    BY <1>11, <1>12, <1>15, <2>2
  <2>3. CASE h \in 1..N /\ j \in (N + 1)..Len(ledger')
    BY <1>11, <1>12, <1>15, <2>3
  <2>4. CASE j \in (N + 1)..Len(ledger') /\ h \in (N + 1)..Len(ledger')
    <3>1. PICK p \in 1..Len(b) : j = N + p /\ ledger'[j].key = b[p].key
      BY <1>12, <2>4
    <3>2. PICK q \in 1..Len(b) : h = N + q /\ ledger'[h].key = b[q].key
      BY <1>12, <2>4
    <3>3. p = q
      BY <1>2, <1>15, <3>1, <3>2 DEF DistinctKeys
    <3> QED
      BY <3>1, <3>2, <3>3
  <2> QED
    BY <1>13, <2>1, <2>2, <2>3, <2>4
<1>16. SourcesOK' /\ PostedOnce'
  <2>1. SourcesOK'
    BY <1>14 DEF SourcesOK
  <2>2. PostedOnce'
    BY <1>14, <1>15 DEF PostedOnce
  <2> QED
    BY <2>1, <2>2
<1> QED
  BY <1>4, <1>6, <1>9, <1>10, <1>16 DEF IInv, DocsMove

LEMMA StutterStep ==
  ASSUME IInv, UNCHANGED vars
  PROVE  IInv' /\ BookStep /\ EditStep /\ PlainStep
<1>1. docs' = docs /\ disabled' = disabled /\ snap' = snap
      /\ ledger' = ledger /\ balance' = balance
  BY DEF vars
<1>2. StockInv' /\ BookStep /\ PlainStep
  BY <1>1, SameDocs, SameStock DEF stockVars, PlainStep
<1>3. TypeOK' /\ LinesOK(docs)' /\ SourcesOK' /\ PostedOnce' /\ EditStep
  BY <1>1 DEF IInv, TypeOK, StockTypeOK, LinesOK, SourcesOK, PostedOnce,
              IsCountRow, EditStep
<1>4. SnapshotsOK'
  BY <1>1 DEF IInv, SnapshotsOK, SeenOK, IsOpen, LinesOK
<1> QED
  BY <1>2, <1>3, <1>4 DEF IInv

LEMMA InitIInv == Init => IInv
<1> SUFFICES ASSUME Init PROVE IInv
  OBVIOUS
<1>1. StockInv
  BY StockInitInv DEF Init
<1>2. docs = << >> /\ ledger = << >> /\ Len(docs) = 0 /\ Len(ledger) = 0
  BY DEF Init, StockInit
<1>3. TypeOK
  BY <1>1, <1>2 DEF Init, TypeOK, StockInv
<1>4. \A s \in Sessions : ~IsOpen(s)
  BY DEF Init, IsOpen
<1> QED
  BY <1>1, <1>2, <1>3, <1>4 DEF IInv, LinesOK, SnapshotsOK, SourcesOK, PostedOnce

\* Some document is approved.
Approval == \E s \in Sessions, u \in Users, d \in 1..Len(docs) :
                ApproveReconciliation(s, u, d)

LEMMA NextIInv ==
  ASSUME IInv, [Next]_vars
  PROVE  IInv' /\ BookStep /\ EditStep /\ (PlainStep \/ Approval)
<1> DEFINE Goal == IInv' /\ BookStep /\ EditStep /\ (PlainStep \/ Approval)
<1>1. CASE UNCHANGED vars
  BY <1>1, StutterStep
<1>2. ASSUME NEW s \in Sessions, Rollback(s) PROVE Goal
  <2>1. /\ Commit(s) /\ UNCHANGED docs /\ UNCHANGED stockVars /\ disabled' = disabled
    BY <1>2 DEF Rollback
  <2>2. disabled' \in SUBSET (Warehouses \cup Materials)
    BY <2>1 DEF IInv, TypeOK
  <2> QED
    BY <2>1, <2>2, IdleStep
<1>3. ASSUME NEW s \in Sessions,
             \/ \E d \in 1..Len(docs), lines \in CountRequests :
                   UpdateReconciliation(s, d, lines)
             \/ \E d \in 1..Len(docs) : SubmitReconciliation(s, d)
             \/ \E d \in 1..Len(docs) : RejectReconciliation(s, d)
             \/ \E u \in Users, d \in 1..Len(docs) : ApproveReconciliation(s, u, d)
      PROVE  Goal
  BY <1>3, UpdateStep, SubmitStep, RejectStep, ApproveStep, Zenon DEF Approval
<1>4. ASSUME NEW s \in Sessions,
             \/ \E d \in Retirable : ToggleMasterData(s, d)
             \/ \E k \in Keys, q \in 1..MaxQuantity, p \in Rates :
                   ReceiveGoods(s, k, q, p)
             \/ \E j \in 1..Len(ledger) : ReverseGoods(s, j)
             \/ \E u \in Users, w \in Warehouses, lines \in CountRequests :
                   CreateReconciliation(s, u, w, lines)
      PROVE  Goal
  BY <1>4, ToggleStep, ReceiveStep, ReverseStep, CreateStep, Zenon
<1> HIDE DEF Goal
<1>5. CASE Next
  BY <1>2, <1>3, <1>4, <1>5, BeginStep, Zenon DEF Next, Goal
<1>6. Goal
  BY <1>1, <1>5, Zenon DEF Goal
<1> QED
  BY <1>6 DEF Goal

LEMMA Invariance == Spec => []IInv
<1>1. IInv /\ [Next]_vars => IInv'
  BY NextIInv
<1> QED
  BY <1>1, InitIInv, PTL DEF Spec

-----------------------------------------------------------------------------
(* However the requests interleave *)

\* The documents, the snapshots and the stock are well-typed: approval never
\* posts to a balance below zero, and no edit writes an ill-formed line.
THEOREM TypeCorrect == Spec => []TypeOK
<1>1. IInv => TypeOK
  BY DEF IInv
<1> QED
  BY <1>1, Invariance, PTL

\* The balances are the sums of the ledger also where counts adjust the stock.
THEOREM CountsReconcile == Spec => []BalanceIsLedgerSum
<1>1. IInv => BalanceIsLedgerSum
  BY DEF IInv, StockInv
<1> QED
  BY <1>1, Invariance, PTL

\* However many approvals race, a document has at most one ledger row per key,
\* and only when it is posted (the claim of approve_reconciliation).
THEOREM CountsPostOnce == Spec => []PostedOnce
<1>1. IInv => PostedOnce
  BY DEF IInv
<1> QED
  BY <1>1, Invariance, PTL

\* The lines of a document change only from the state that the editor loaded
\* (the compare-and-set of update_reconciliation).
THEOREM EditsAreNotLost == Spec => NoLostEdit
<1>1. IInv /\ [Next]_vars => EditStep
  BY NextIInv
<1> QED
  BY <1>1, Invariance, PTL DEF Spec, NoLostEdit, EditStep

\* Receipts, reversals and counts together implement the abstract stock book.
THEOREM StockRefinesBook == Spec => StockIsABook
<1>1. Init => Book!Init
  BY InitIsBook DEF Init
<1>2. IInv /\ [Next]_vars => [Book!Post]_(Book!bookVars)
  BY NextIInv DEF BookStep
<1> QED
  BY <1>1, <1>2, Invariance, PTL DEF Spec, StockIsABook, Book!Spec

-----------------------------------------------------------------------------
(* One session at a time *)

\* What follows holds when requests do not overlap; with two sessions a document
\* may be posted as another session left it (cfgs OtherCount and StaleCount).
Serial == \A s, t \in Sessions : s = t

\* A session that is open sees the current state.
Fresh == \A s \in Sessions : IsOpen(s) => snap[s] = View

LEMMA FreshInit == Init => Fresh
  BY DEF Init, Fresh, IsOpen

LEMMA FreshNext ==
  ASSUME Serial, IInv, Fresh, [Next]_vars
  PROVE  Fresh'
<1>1. snap \in [Sessions -> Snapshot \cup {NoSnapshot}]
  BY DEF IInv, TypeOK
<1>2. CASE UNCHANGED vars
  <2>1. snap' = snap /\ View' = View
    BY <1>2 DEF vars, View
  <2> QED
    BY <2>1 DEF Fresh, IsOpen
<1>3. ASSUME NEW s \in Sessions, Begin(s) PROVE Fresh'
  <2>1. View' = View /\ snap' = [snap EXCEPT ![s] = View]
    BY <1>3 DEF Begin, stockVars, View
  <2> HIDE DEF View
  <2>2. ASSUME NEW t \in Sessions PROVE snap'[t] = View
    <3>1. t = s
      BY DEF Serial
    <3> QED
      BY <1>1, <2>1, <3>1
  <2> QED
    BY <2>1, <2>2 DEF Fresh
<1>4. ASSUME NEW s \in Sessions, Commit(s) PROVE Fresh'
  <2>1. ASSUME NEW t \in Sessions PROVE snap'[t] = NoSnapshot
    <3>1. t = s
      BY DEF Serial
    <3> QED
      BY <1>1, <1>4, <3>1 DEF Commit
  <2> QED
    BY <2>1 DEF Fresh, IsOpen
<1>5. ASSUME NEW s \in Sessions
      PROVE  /\ Rollback(s) => Commit(s)
             /\ \A d : ToggleMasterData(s, d) => Commit(s)
             /\ \A k, q, p : ReceiveGoods(s, k, q, p) => Commit(s)
             /\ \A j : ReverseGoods(s, j) => Commit(s)
  BY Zenon DEF Rollback, ToggleMasterData, ReceiveGoods, ReverseGoods
<1>6. ASSUME NEW s \in Sessions
      PROVE  /\ \A u, w, lines : CreateReconciliation(s, u, w, lines) => Commit(s)
             /\ \A d, lines : UpdateReconciliation(s, d, lines) => Commit(s)
             /\ \A d : SubmitReconciliation(s, d) => Commit(s)
             /\ \A d : RejectReconciliation(s, d) => Commit(s)
             /\ \A u, d : ApproveReconciliation(s, u, d) => Commit(s)
  BY Zenon DEF CreateReconciliation, UpdateReconciliation, SubmitReconciliation,
               RejectReconciliation, ApproveReconciliation
<1>7. ASSUME Next PROVE \E s \in Sessions : Begin(s) \/ Commit(s)
  BY <1>5, <1>6, <1>7, Zenon DEF Next
<1> QED
  BY <1>2, <1>3, <1>4, <1>7

\* What a posted document says of its line i is what happened: one row of the
\* difference, that brought the stock to the count, and none of the key since
\* the count.
LineRecorded(d, i) ==
    IF docs[d].items[i].difference = 0 THEN RowsOf(d, i) = {}
    ELSE \E j \in RowsOf(d, i) :
            /\ RowsOf(d, i) = {j}
            /\ ledger[j].key = <<docs[d].warehouse, docs[d].items[i].material>>
            /\ ledger[j].quantity = docs[d].items[i].difference
            /\ ledger[j].amount = docs[d].items[i].amount
            /\ ledger[j].balance_after = docs[d].items[i].physical
            /\ docs[d].items[i].book.watermark
                  = Watermark(<<docs[d].warehouse, docs[d].items[i].material>>, j - 1)

Recorded == \A d \in 1..Len(docs) : docs[d].status = "POSTED" =>
                \A i \in 1..Len(docs[d].items) : LineRecorded(d, i)

\* The watermark of the rows up to n depends on those rows only.
LEMMA WatermarkKept ==
  ASSUME LedgerGrows, NEW k, NEW n \in Nat, NEW m \in Nat,
         m <= n, n <= Len(ledger'), m <= Len(ledger),
         \A j \in (m + 1)..n : ledger'[j].key # k
  PROVE  Watermark(k, n)' = Watermark(k, m)
<1> DEFINE A == {j \in 1..n : ledger'[j].key = k}
           B == {j \in 1..m : ledger[j].key = k}
<1>1. \A j \in 1..m : ledger'[j] = ledger[j]
  BY DEF LedgerGrows
<1>2. \A j \in 1..n : j \in 1..m \/ j \in (m + 1)..n
  OBVIOUS
<1>3. A = B
  BY <1>1, <1>2
<1> HIDE DEF A, B
<1>4. Watermark(k, n)' = IF A = {} THEN 0 ELSE CHOOSE j \in A : \A h \in A : h <= j
  BY DEF Watermark, A
<1>5. Watermark(k, m) = IF B = {} THEN 0 ELSE CHOOSE j \in B : \A h \in B : h <= j
  BY DEF Watermark, B
<1> QED
  BY <1>3, <1>4, <1>5, Zenon

LEMMA LineKept ==
  ASSUME IInv, LedgerGrows, NEW e \in 1..Len(docs), docs'[e] = docs[e],
         \A j \in (Len(ledger) + 1)..Len(ledger') :
            ~(IsCountRow(j)' /\ ledger'[j].source = e),
         NEW i \in 1..Len(docs[e].items), LineRecorded(e, i)
  PROVE  LineRecorded(e, i)'
<1> DEFINE R == RowsOf(e, i)
           k == <<docs[e].warehouse, docs[e].items[i].material>>
<1>1. RowsOf(e, i)' = R
  <2>1. /\ Len(ledger) \in Nat /\ Len(ledger') \in Nat
        /\ \A j \in 1..Len(ledger') :
              j \in 1..Len(ledger) \/ j \in (Len(ledger) + 1)..Len(ledger')
        /\ \A j \in 1..Len(ledger) : j \in 1..Len(ledger')
        /\ \A j \in 1..Len(ledger) : ledger'[j] = ledger[j]
    BY DEF LedgerGrows
  <2>2. ASSUME NEW j \in RowsOf(e, i)' PROVE j \in R
    <3>1. /\ j \in 1..Len(ledger') /\ IsCountRow(j)' /\ ledger'[j].source = e
          /\ ledger'[j].item = docs'[e].items[i].id
      BY <2>2 DEF RowsOf
    <3>2. j \in 1..Len(ledger) /\ ledger'[j] = ledger[j]
      BY <2>1, <3>1
    <3> QED
      BY <3>1, <3>2 DEF RowsOf, IsCountRow
  <2>3. ASSUME NEW j \in R PROVE j \in RowsOf(e, i)'
    <3>1. /\ j \in 1..Len(ledger) /\ IsCountRow(j) /\ ledger[j].source = e
          /\ ledger[j].item = docs[e].items[i].id
      BY <2>3 DEF RowsOf
    <3>2. j \in 1..Len(ledger') /\ ledger'[j] = ledger[j]
      BY <2>1, <3>1
    <3> QED
      BY <3>1, <3>2 DEF RowsOf, IsCountRow
  <2> HIDE DEF R
  <2> QED
    BY <2>2, <2>3
<1>2. CASE docs[e].items[i].difference = 0
  BY <1>1, <1>2 DEF LineRecorded
<1>3. CASE docs[e].items[i].difference # 0
  <2>1. PICK j \in R :
           /\ R = {j} /\ ledger[j].key = k
           /\ ledger[j].quantity = docs[e].items[i].difference
           /\ ledger[j].amount = docs[e].items[i].amount
           /\ ledger[j].balance_after = docs[e].items[i].physical
           /\ docs[e].items[i].book.watermark = Watermark(k, j - 1)
    BY <1>3 DEF LineRecorded
  <2>2. j \in 1..Len(ledger) /\ ledger'[j] = ledger[j]
    BY DEF RowsOf, LedgerGrows
  <2>3. Watermark(k, j - 1)' = Watermark(k, j - 1)
    <3>1. j - 1 \in Nat /\ j - 1 <= Len(ledger) /\ j - 1 <= Len(ledger')
      BY <2>2 DEF LedgerGrows
    <3>2. \A h \in ((j - 1) + 1)..(j - 1) : FALSE
      BY <3>1
    <3>3. PICK x : x = k
      OBVIOUS
    <3>4. Watermark(x, j - 1)' = Watermark(x, j - 1)
      BY <3>1, <3>2, WatermarkKept
    <3> QED
      BY <3>3, <3>4
  <2> QED
    BY <1>1, <1>3, <2>1, <2>2, <2>3 DEF LineRecorded
<1> QED
  BY <1>2, <1>3

\* A posted document keeps its record when no count is posted.
LEMMA PlainRecorded ==
  ASSUME IInv, Recorded, PlainStep
  PROVE  Recorded'
<1> SUFFICES ASSUME NEW d \in 1..Len(docs'), docs'[d].status = "POSTED",
                    NEW i \in 1..Len(docs'[d].items)
             PROVE  LineRecorded(d, i)'
  BY DEF Recorded
<1>1. d \in 1..Len(docs) /\ docs'[d] = docs[d]
  BY DEF PlainStep, NonePosted
<1>2. LineRecorded(d, i)
  BY <1>1 DEF Recorded
<1>3. LedgerGrows
  BY DEF PlainStep
<1>4. \A j \in (Len(ledger) + 1)..Len(ledger') :
         ~(IsCountRow(j)' /\ ledger'[j].source = d)
  BY DEF PlainStep, NoCountRows, IsCountRow
<1> QED
  BY <1>1, <1>2, <1>3, <1>4, LineKept

\* The line that an approval posts, as the session that is alone sees it.
LEMMA PostedLine ==
  ASSUME IInv, NEW s \in Sessions, NEW u \in Users, NEW d \in 1..Len(docs),
         ApproveReconciliation(s, u, d), snap[s] = View,
         NEW i \in 1..Len(docs[d].items), docs[d].items[i].difference # 0
  PROVE  LET k == <<docs[d].warehouse, docs[d].items[i].material>>
         IN  /\ Watermark(k, Len(ledger)) = docs[d].items[i].book.watermark
             /\ balance[k].quantity = docs[d].items[i].book.quantity
<1> DEFINE k == <<docs[d].warehouse, docs[d].items[i].material>>
<1>1. snap[s].docs = docs /\ snap[s].rows = Len(ledger)
  BY DEF View
<1>2. EventGuard(s, k, docs[d].items[i]) /\ StateGuard(k, docs[d].items[i])
  <2>1. \A h \in 1..Len(snap[s].docs[d].items) :
           snap[s].docs[d].items[h].difference # 0 =>
              /\ EventGuard(s, <<snap[s].docs[d].warehouse,
                                 snap[s].docs[d].items[h].material>>,
                            snap[s].docs[d].items[h])
              /\ StateGuard(<<snap[s].docs[d].warehouse,
                              snap[s].docs[d].items[h].material>>,
                            snap[s].docs[d].items[h])
    BY Zenon DEF ApproveReconciliation
  <2> QED
    BY <1>1, <2>1, Zenon
<1> QED
  BY <1>1, <1>2 DEF EventGuard, StateGuard

LEMMA ApproveRecorded ==
  ASSUME IInv, Fresh, Recorded, NEW s \in Sessions, NEW u \in Users,
         NEW d \in 1..Len(docs), ApproveReconciliation(s, u, d)
  PROVE  Recorded'
<1>0. PICK b : b = CountBatch(d, docs[d].warehouse, docs[d].items)
  OBVIOUS
<1>1. snap[s] = View /\ snap[s].docs = docs
  BY DEF Fresh, View, ApproveReconciliation, Sees
<1>2. b \in Seq(Row) /\ Posted(b) /\ DistinctKeys(b)
  <2>1. b = CountBatch(d, snap[s].docs[d].warehouse, snap[s].docs[d].items)
    BY <1>0, <1>1
  <2> QED
    BY <2>1, ApprovePosts
<1>3. /\ docs[d].warehouse \in Warehouses /\ docs[d].items \in Seq(Item)
      /\ ItemsOK(docs[d].items) /\ d \in Nat /\ Len(docs[d].items) \in Nat
  <2>1. docs[d] \in Doc /\ Len(docs) \in Nat
    BY DocsType DEF IInv
  <2>2. docs[d].warehouse \in Warehouses /\ docs[d].items \in Seq(Item)
    BY <2>1, DocFields
  <2> QED
    BY <2>1, <2>2 DEF IInv, LinesOK
<1>4. PICK at : PostsLines(at, b, d, docs[d].warehouse, docs[d].items)
  BY <1>0, <1>3, CountBatchIs
<1>5. \A p \in 1..Len(b) :
         /\ b[p].key = <<docs[d].warehouse, docs[d].items[at[p]].material>>
         /\ b[p].quantity = docs[d].items[at[p]].difference
         /\ b[p].amount = docs[d].items[at[p]].amount
         /\ b[p].source = d /\ b[p].item = docs[d].items[at[p]].id
         /\ b[p].type \in {"ADJUST_IN", "ADJUST_OUT"}
  BY <1>3, <1>4, BatchKeysDistinct DEF ItemsOK
<1>6. /\ docs[d].status # "POSTED"
      /\ docs' = [docs EXCEPT ![d].status = "POSTED", ![d].version = @ + 1]
  BY DEF ApproveReconciliation, ClaimOK
<1>7. /\ Len(docs') = Len(docs)
      /\ \A e \in 1..Len(docs) : e # d => docs'[e] = docs[e]
      /\ docs'[d].items = docs[d].items /\ docs'[d].warehouse = docs[d].warehouse
  BY <1>6, MovedDoc
<1>n. PICK N : N = Len(ledger)
  OBVIOUS
<1>8. /\ N \in Nat /\ Len(b) \in Nat /\ Len(ledger') = N + Len(b)
      /\ \A j \in 1..N : ledger'[j] = ledger[j]
      /\ \A p \in 1..Len(b) :
            /\ SameMove(ledger'[N + p], b[p])
            /\ ledger'[N + p].balance_after = BalanceAfter(b, p)
      /\ \A j \in (N + 1)..Len(ledger') : \E p \in 1..Len(b) : j = N + p
  BY <1>2, <1>n, PostedRows DEF IInv, StockInv
<1>9. LedgerGrows
  BY <1>8, <1>n DEF LedgerGrows
<1>10. ASSUME NEW e \in 1..Len(docs'), docs'[e].status = "POSTED", e # d,
              NEW i \in 1..Len(docs'[e].items)
       PROVE  LineRecorded(e, i)'
  <2>1. e \in 1..Len(docs) /\ docs'[e] = docs[e]
    BY <1>7, <1>10
  <2>2. LineRecorded(e, i)
    BY <1>10, <2>1 DEF Recorded
  <2>3. \A j \in (Len(ledger) + 1)..Len(ledger') :
           ~(IsCountRow(j)' /\ ledger'[j].source = e)
    <3> SUFFICES ASSUME NEW j \in (N + 1)..Len(ledger') PROVE ledger'[j].source = d
      BY <1>10, <1>n
    <3>1. PICK p \in 1..Len(b) : j = N + p
      BY <1>8
    <3> QED
      BY <1>5, <1>8, <3>1 DEF SameMove
  <2> QED
    BY <1>9, <1>10, <2>1, <2>2, <2>3, LineKept
<1>11. ASSUME NEW i \in 1..Len(docs[d].items), NEW j
       PROVE  j \in RowsOf(d, i)' <=> \E p \in 1..Len(b) : at[p] = i /\ j = N + p
  <2> DEFINE x == docs[d].items[i]
  <2>1. ASSUME NEW p \in 1..Len(b)
        PROVE  /\ N + p \in 1..Len(ledger') /\ IsCountRow(N + p)'
               /\ ledger'[N + p].source = d
               /\ ledger'[N + p].item = docs[d].items[at[p]].id
    <3>1. SameMove(ledger'[N + p], b[p])
      BY <1>8
    <3> QED
      BY <1>5, <1>8, <3>1 DEF SameMove, IsCountRow
  <2>2. ASSUME NEW p \in 1..Len(b), at[p] = i, j = N + p PROVE j \in RowsOf(d, i)'
    BY <1>7, <2>1, <2>2 DEF RowsOf
  <2>3. ASSUME j \in RowsOf(d, i)' PROVE \E p \in 1..Len(b) : at[p] = i /\ j = N + p
    <3>1. /\ j \in 1..Len(ledger') /\ IsCountRow(j)' /\ ledger'[j].source = d
          /\ ledger'[j].item = docs[d].items[i].id
      BY <1>7, <2>3 DEF RowsOf
    <3>2. CASE j \in 1..N
      <4>1. ledger'[j] = ledger[j] /\ IsCountRow(j)
        BY <1>8, <3>1, <3>2 DEF IsCountRow
      <4> QED
        BY <1>6, <1>n, <3>1, <3>2, <4>1 DEF IInv, PostedOnce
    <3>3. CASE j \in (N + 1)..Len(ledger')
      <4>1. PICK p \in 1..Len(b) : j = N + p
        BY <1>8, <3>3
      <4>2. docs[d].items[at[p]].id = docs[d].items[i].id
        BY <2>1, <3>1, <4>1
      <4>3. at[p] \in 1..Len(docs[d].items)
        BY <1>4 DEF PostsLines
      <4>4. at[p] = i
        BY <1>3, <4>2, <4>3 DEF ItemsOK
      <4> QED
        BY <4>1, <4>4
    <3> QED
      BY <1>8, <3>1, <3>2, <3>3
  <2> QED
    BY <2>2, <2>3
<1>12. ASSUME NEW i \in 1..Len(docs[d].items) PROVE LineRecorded(d, i)'
  <2>1. CASE docs[d].items[i].difference = 0
    <3>1. \A p \in 1..Len(b) : at[p] # i
      BY <1>4, <2>1 DEF PostsLines
    <3>2. RowsOf(d, i)' = {}
      BY <1>11, <3>1
    <3> QED
      BY <1>7, <2>1, <3>2 DEF LineRecorded
  <2>2. CASE docs[d].items[i].difference # 0
    <3>1. PICK p \in 1..Len(b) : at[p] = i
      BY <1>4, <2>2 DEF PostsLines
    <3>2. \A q \in 1..Len(b) : at[q] = i => q = p
      BY <1>4, <3>1 DEF PostsLines
    <3>3. PICK j : j = N + p
      OBVIOUS
    <3>4. j \in RowsOf(d, i)' /\ RowsOf(d, i)' = {j}
      BY <1>11, <3>1, <3>2, <3>3
    <3>5. PICK k : k = <<docs[d].warehouse, docs[d].items[i].material>>
      OBVIOUS
    <3>6. /\ ledger'[j].key = k /\ b[p].key = k
          /\ ledger'[j].quantity = docs[d].items[i].difference
          /\ ledger'[j].amount = docs[d].items[i].amount
          /\ ledger'[j].balance_after = BalanceAfter(b, p)
      BY <1>5, <1>8, <3>1, <3>3, <3>5 DEF SameMove
    <3>7. /\ Watermark(k, N) = docs[d].items[i].book.watermark
          /\ balance[k].quantity = docs[d].items[i].book.quantity
      BY <1>1, <1>n, <2>2, <3>5, PostedLine
    <3>8. BalanceAfter(b, p) = docs[d].items[i].physical
      <4>1. QuantityUpTo(b, k, p) = docs[d].items[i].difference
        BY <1>2, <1>5, <3>1, <3>6, DistinctTotals
      <4>2. docs[d].items[i] \in Item
        BY <1>3
      <4>3. docs[d].items[i].physical \in Nat /\ docs[d].items[i].book.quantity \in Nat
        BY <4>2, ItemFields, BookFields
      <4>4. docs[d].items[i].difference
               = docs[d].items[i].physical - docs[d].items[i].book.quantity
        BY <1>3 DEF ItemsOK
      <4> QED
        BY <3>6, <3>7, <4>1, <4>3, <4>4 DEF BalanceAfter
    <3>9. Watermark(k, j - 1)' = Watermark(k, N)
      <4>1. /\ j - 1 \in Nat /\ N <= j - 1 /\ j - 1 <= Len(ledger')
            /\ N <= Len(ledger)
        BY <1>8, <1>n, <3>3
      <4>2. ASSUME NEW h \in (N + 1)..(j - 1) PROVE ledger'[h].key # k
        <5>1. h \in (N + 1)..Len(ledger') /\ h # j
          BY <1>8, <3>3
        <5>2. PICK q \in 1..Len(b) : h = N + q
          BY <1>8, <5>1
        <5>3. q # p /\ ledger'[h].key = b[q].key
          BY <1>8, <3>3, <5>1, <5>2 DEF SameMove
        <5> QED
          BY <1>2, <3>6, <5>3 DEF DistinctKeys
      <4> QED
        BY <1>8, <1>9, <4>1, <4>2, WatermarkKept
    <3>10. k = <<docs'[d].warehouse, docs'[d].items[i].material>>
      BY <1>7, <3>5
    <3> QED
      BY <1>7, <2>2, <3>4, <3>6, <3>7, <3>8, <3>9, <3>10 DEF LineRecorded
  <2> QED
    BY <2>1, <2>2
<1> SUFFICES ASSUME NEW e \in 1..Len(docs'), docs'[e].status = "POSTED",
                    NEW i \in 1..Len(docs'[e].items)
             PROVE  LineRecorded(e, i)'
  BY DEF Recorded
<1>13. CASE e = d
  BY <1>7, <1>12, <1>13
<1> QED
  BY <1>10, <1>13

LEMMA SerialRecords == ASSUME Serial PROVE Spec => [](IInv /\ Fresh /\ Recorded)
<1>1. Init => IInv /\ Fresh /\ Recorded
  <2>1. Init => Recorded
    BY DEF Init, Recorded
  <2> QED
    BY <2>1, InitIInv, FreshInit
<1>2. IInv /\ Fresh /\ Recorded /\ [Next]_vars => (IInv /\ Fresh /\ Recorded)'
  <2> SUFFICES ASSUME IInv, Fresh, Recorded, [Next]_vars
               PROVE  (IInv /\ Fresh /\ Recorded)'
    OBVIOUS
  <2>1. IInv' /\ (PlainStep \/ Approval)
    BY NextIInv
  <2>2. Fresh'
    BY FreshNext
  <2>3. CASE PlainStep
    BY <2>1, <2>2, <2>3, PlainRecorded
  <2>4. CASE Approval
    BY <2>1, <2>2, <2>4, ApproveRecorded DEF Approval
  <2> QED
    BY <2>1, <2>3, <2>4
<1> QED
  BY <1>1, <1>2, PTL DEF Spec

\* Requests that do not overlap: what a posted document says is what moved.
\* Each line that differs has exactly one ledger row, of its material,
\* difference and amount, and the other lines have none.
THEOREM CountsAreRecorded == ASSUME Serial PROVE Spec => []PostedAsRecorded
<1>1. Recorded => PostedAsRecorded
  BY DEF Recorded, PostedAsRecorded, LineRecorded
<1> QED
  BY <1>1, SerialRecords, PTL

\* Requests that do not overlap: a posted count brought the stock of each line
\* that differed to the counted quantity (the balance state guard).
THEOREM CountsAreReached == ASSUME Serial PROVE Spec => []CountReached
<1>1. Recorded => CountReached
  <2> SUFFICES ASSUME Recorded, NEW d \in 1..Len(docs), docs[d].status = "POSTED",
                      NEW i \in 1..Len(docs[d].items), NEW j \in RowsOf(d, i)
               PROVE  ledger[j].balance_after = docs[d].items[i].physical
    BY DEF CountReached
  <2>1. LineRecorded(d, i) /\ RowsOf(d, i) # {}
    BY DEF Recorded
  <2> QED
    BY <2>1, Zenon DEF LineRecorded
<1> QED
  BY <1>1, SerialRecords, PTL

\* Requests that do not overlap: no stock of a counted key moved between the
\* count and its posting, not even there and back (the ledger event guard).
THEOREM CountsAreUndisturbed == ASSUME Serial PROVE Spec => []NoMovementInWindow
<1>1. Recorded => NoMovementInWindow
  <2> SUFFICES ASSUME Recorded, NEW d \in 1..Len(docs), docs[d].status = "POSTED",
                      NEW i \in 1..Len(docs[d].items), NEW j \in RowsOf(d, i)
               PROVE  docs[d].items[i].book.watermark
                        = Watermark(<<docs[d].warehouse,
                                      docs[d].items[i].material>>, j - 1)
    BY DEF NoMovementInWindow
  <2>1. LineRecorded(d, i) /\ RowsOf(d, i) # {}
    BY DEF Recorded
  <2> QED
    BY <2>1, Zenon DEF LineRecorded
<1> QED
  BY <1>1, SerialRecords, PTL

=============================================================================
