----------------------------- MODULE Inventory -----------------------------
(***************************************************************************)
(* The stock of the company: the append-only inventory ledger and the      *)
(* balance row of every (warehouse, material) key, with the operators that *)
(* inventory_service offers to the business services.                      *)
(*                                                                         *)
(* A business operation builds a batch of movements, in the order its loop *)
(* visits the document lines, and posts it: one ledger row per movement,   *)
(* carrying the running balance of its key, then one update of each        *)
(* balance touched.  The balance rows are X-locked from before the first   *)
(* read until COMMIT (lock_balances), so a batch is one atomic step on the *)
(* current state of ledger and balance.                                    *)
(***************************************************************************)
EXTENDS Sums, Costing, Sequences

CONSTANTS Warehouses, Materials

VARIABLES ledger,     \* inventory_transactions, in id order
          balance     \* inventory_balances, per key

stockVars == <<ledger, balance>>

Keys == Warehouses \X Materials

InboundTypes  == {"PURCHASE_IN", "ADJUST_IN"}
OutboundTypes == {"PURCHASE_IN_REVERSAL", "ADJUST_OUT"}

\* A ledger row.  source and item name the document and its line (receipt and
\* order line, or stock count and material); reversed is the id of the row
\* this one cancels, 0 when it cancels none.
Row == [type : InboundTypes \cup OutboundTypes, key : Keys, quantity : Int,
        unit_cost : Nat, amount : Int, balance_after : Int,
        source : Nat, item : Nat, reversed : Nat]

Balance == [quantity : Nat, total_amount : Nat, average_unit_cost : Nat]

\* A missing row and the zero row the upsert of lock_balance inserts are
\* indistinguishable to every reader modelled here.
EmptyBalance == [quantity |-> 0, total_amount |-> 0, average_unit_cost |-> 0]

StockTypeOK == /\ ledger \in Seq(Row)
               /\ balance \in [Keys -> Balance]

StockInit == /\ ledger = << >>
             /\ balance = [k \in Keys |-> EmptyBalance]

-----------------------------------------------------------------------------
(* Totals of a sequence of movements. *)

QuantityUpTo(rows, k, n) ==
    SumUpTo([i \in 1..Len(rows) |->
                IF rows[i].key = k THEN rows[i].quantity ELSE 0], n)

AmountUpTo(rows, k, n) ==
    SumUpTo([i \in 1..Len(rows) |->
                IF rows[i].key = k THEN rows[i].amount ELSE 0], n)

QuantityOf(rows, k) == QuantityUpTo(rows, k, Len(rows))
AmountOf(rows, k)   == AmountUpTo(rows, k, Len(rows))

KeysOf(rows) == {rows[i].key : i \in 1..Len(rows)}

-----------------------------------------------------------------------------
(* write_transaction *)

Movement(type, key, quantity, unit_cost, amount, source, item, reversed) ==
    [type |-> type, key |-> key, quantity |-> quantity,
     unit_cost |-> unit_cost, amount |-> amount, balance_after |-> 0,
     source |-> source, item |-> item, reversed |-> reversed]

\* The sign checks that make write_transaction raise.
SignsOK(m) == /\ m.type \in OutboundTypes => m.quantity < 0
              /\ m.type \notin OutboundTypes => m.quantity > 0
              /\ m.unit_cost >= 0
              /\ m.quantity > 0 => m.amount >= 0
              /\ m.quantity < 0 => m.amount <= 0

\* The running balance read from the stored row instead of the running
\* total of the batch: wrong as soon as two lines have the same material.
Bug_StoredBalanceAfter(batch, i) ==
    balance[batch[i].key].quantity + batch[i].quantity

\* running_qty of the row's key after the i-th movement of the batch.
BalanceAfter(batch, i) ==
    balance[batch[i].key].quantity + QuantityUpTo(batch, batch[i].key, i)

\* The ledger rows of a batch.
Rows(batch) ==
    [i \in 1..Len(batch) |->
        [batch[i] EXCEPT !.balance_after = BalanceAfter(batch, i)]]

-----------------------------------------------------------------------------
(* apply_inbound / apply_outbound on a locked balance row. *)

InboundOK(b, quantity, amount) ==
    /\ quantity >= 0
    /\ b.quantity + quantity >= 0
    /\ b.total_amount + amount >= 0

\* The value of the stock is left out of an inbound movement.
Bug_InboundQuantityOnly(b, quantity, amount) ==
    [b EXCEPT !.quantity = @ + quantity]

ApplyInbound(b, quantity, amount) ==
    [quantity          |-> b.quantity + quantity,
     total_amount      |-> b.total_amount + amount,
     average_unit_cost |-> NewAverage(b.total_amount + amount,
                                      b.quantity + quantity)]

\* Nothing is compared with the stock on hand.
Bug_OverdrawOK(b, quantity, amount) == quantity > 0

\* quantity and amount are magnitudes.  The average is 0 when the balance
\* becomes empty; the amount is whatever is left of it.
OutboundOK(b, quantity, amount) ==
    /\ quantity > 0
    /\ b.quantity - quantity >= 0
    /\ b.total_amount - amount >= 0

\* The stock leaves at the current average cost instead of at the amount of
\* the row it cancels.
Bug_OutboundAtAverage(b, quantity, amount) ==
    LET value == LineAmount(quantity, b.average_unit_cost)
        left  == IF value > b.total_amount THEN 0 ELSE b.total_amount - value
    IN  [quantity          |-> b.quantity - quantity,
         total_amount      |-> left,
         average_unit_cost |-> NewAverage(left, b.quantity - quantity)]

ApplyOutbound(b, quantity, amount) ==
    [quantity          |-> b.quantity - quantity,
     total_amount      |-> b.total_amount - amount,
     average_unit_cost |-> NewAverage(b.total_amount - amount,
                                      b.quantity - quantity)]

-----------------------------------------------------------------------------
(* Building and posting a batch: the ledger rows, then every touched balance once. *)

\* The movements of the document lines in the domain of moves, in the order
\* of the lines 1..n.
InLineOrder(n, moves) ==
    LET batch[i \in 0..n] ==
            IF i = 0 THEN << >>
            ELSE IF i \in DOMAIN moves THEN Append(batch[i - 1], moves[i])
            ELSE batch[i - 1]
    IN  batch[n]

PostInbound(batch) ==
    /\ \A i \in 1..Len(batch) : SignsOK(batch[i])
    /\ \A k \in KeysOf(batch) :
          InboundOK(balance[k], QuantityOf(batch, k), AmountOf(batch, k))
    /\ ledger' = ledger \o Rows(batch)
    /\ balance' = [k \in Keys |->
          IF k \in KeysOf(batch)
          THEN ApplyInbound(balance[k], QuantityOf(batch, k), AmountOf(batch, k))
          ELSE balance[k]]

PostOutbound(batch) ==
    /\ \A i \in 1..Len(batch) : SignsOK(batch[i])
    /\ \A k \in KeysOf(batch) :
          OutboundOK(balance[k], -QuantityOf(batch, k), -AmountOf(batch, k))
    /\ ledger' = ledger \o Rows(batch)
    /\ balance' = [k \in Keys |->
          IF k \in KeysOf(batch)
          THEN ApplyOutbound(balance[k], -QuantityOf(batch, k),
                                         -AmountOf(batch, k))
          ELSE balance[k]]

-----------------------------------------------------------------------------
(* Properties of the stock, whoever moves it. *)

\* The balance row of every key is the sum of its ledger rows, in quantity and
\* in value: no movement is applied without a row, twice, or under another key
\* (write_transaction: "SUM(amount) reconciles with balance.total_amount").
BalanceIsLedgerSum ==
    \A k \in Keys : /\ balance[k].quantity = QuantityOf(ledger, k)
                    /\ balance[k].total_amount = AmountOf(ledger, k)

\* The balance_after written on every ledger row is the running total of its
\* key up to that row, and no row ever recorded a negative stock, also when
\* one receipt holds several lines of the same material.
RunningBalance ==
    \A i \in 1..Len(ledger) :
        /\ ledger[i].balance_after = QuantityUpTo(ledger, ledger[i].key, i)
        /\ ledger[i].balance_after >= 0

\* A balance without goods has no value left: rounding never strands an amount
\* on a key (apply_outbound; database-design 5.3).  A posted count can.
EmptyStockHasNoValue ==
    \A k \in Keys : balance[k].quantity = 0 => balance[k].total_amount = 0

\* The ledger and the balances implement the abstract stock book: the ledger
\* only grows, every balance moves by exactly what the new rows say, and
\* neither quantity nor value ever goes below zero.
Book == INSTANCE StockBook WITH
    journal <- [i \in 1..Len(ledger) |-> [key      |-> ledger[i].key,
                                          quantity |-> ledger[i].quantity,
                                          amount   |-> ledger[i].amount]],
    onHand  <- [k \in Keys |-> [quantity |-> balance[k].quantity,
                                amount   |-> balance[k].total_amount]]

StockIsABook == Book!Spec

=============================================================================
