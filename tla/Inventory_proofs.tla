-------------------------- MODULE Inventory_proofs --------------------------
(***************************************************************************)
(* Posting a batch keeps the stock consistent, for every batch: the facts  *)
(* about Inventory that the proofs of the business modules rest on.        *)
(***************************************************************************)
EXTENDS Inventory, Sums_proofs

\* The fields of the rows of a sequence.
LEMMA RowFields ==
  ASSUME NEW a \in Seq(Row)
  PROVE  /\ Len(a) \in Nat
         /\ \A i \in 1..Len(a) :
               /\ a[i] \in Row
               /\ a[i].key \in Keys
               /\ a[i].quantity \in Int
               /\ a[i].amount \in Int
               /\ a[i].balance_after \in Int
<1>1. Len(a) \in Nat /\ \A i \in 1..Len(a) : a[i] \in Row
  OBVIOUS
<1>2. \A r \in Row : /\ r.key \in Keys /\ r.quantity \in Int
                     /\ r.amount \in Int /\ r.balance_after \in Int
  BY DEF Row
<1> QED
  BY <1>1, <1>2

\* A prefix of a sequence keeps its totals.
LEMMA PrefixTotals ==
  ASSUME NEW a \in Seq(Row), NEW b \in Seq(Row), NEW k, NEW n \in 0..Len(a)
  PROVE  QuantityUpTo(a \o b, k, n) = QuantityUpTo(a, k, n)
<1> DEFINE c == a \o b
           Q(s) == [i \in 1..Len(s) |-> IF s[i].key = k THEN s[i].quantity ELSE 0]
<1>1. /\ Len(c) = Len(a) + Len(b) /\ Len(a) \in Nat /\ Len(b) \in Nat
      /\ \A i \in 1..Len(a) : c[i] = a[i]
  OBVIOUS
<1> HIDE DEF c
<1>2. \A i \in 1..Len(a) : a[i].quantity \in Int
  BY RowFields
<1>3. n \in Nat /\ IntTerms(Q(c), n) /\ SameTerms(Q(c), Q(a), n)
  <2>1. n \in Nat /\ \A i \in 1..n : i \in 1..Len(a) /\ i \in 1..Len(c)
    BY <1>1
  <2>2. \A i \in 1..n : c[i].key = a[i].key /\ c[i].quantity = a[i].quantity
    BY <1>1, <2>1
  <2>3. \A i \in 1..n : /\ Q(c)[i] = (IF a[i].key = k THEN a[i].quantity ELSE 0)
                         /\ Q(a)[i] = (IF a[i].key = k THEN a[i].quantity ELSE 0)
    BY <2>1, <2>2
  <2> HIDE DEF Q
  <2>4. \A i \in 1..n : Q(c)[i] \in Int /\ Q(c)[i] = Q(a)[i]
    BY <1>2, <2>1, <2>3
  <2> QED
    BY <2>1, <2>4 DEF IntTerms, SameTerms
<1>4. /\ QuantityUpTo(c, k, n) = SumUpTo(Q(c), n)
      /\ QuantityUpTo(a, k, n) = SumUpTo(Q(a), n)
  BY DEF QuantityUpTo
<1> HIDE DEF Q
<1> QED
  BY <1>3, <1>4, SumCongruence DEF c

\* The totals of a concatenation are the sums of the totals of its parts.
LEMMA ConcatTotals ==
  ASSUME NEW a \in Seq(Row), NEW b \in Seq(Row), NEW k
  PROVE  /\ \A n \in 0..Len(b) :
               QuantityUpTo(a \o b, k, Len(a) + n)
                  = QuantityOf(a, k) + QuantityUpTo(b, k, n)
         /\ AmountOf(a \o b, k) = AmountOf(a, k) + AmountOf(b, k)
<1> DEFINE c == a \o b
           Q(s) == [i \in 1..Len(s) |-> IF s[i].key = k THEN s[i].quantity ELSE 0]
           A(s) == [i \in 1..Len(s) |-> IF s[i].key = k THEN s[i].amount ELSE 0]
<1>1. /\ Len(c) = Len(a) + Len(b) /\ Len(a) \in Nat /\ Len(b) \in Nat
      /\ \A i \in 1..Len(a) : c[i] = a[i]
      /\ \A i \in 1..Len(b) : c[Len(a) + i] = b[i]
      /\ c \in Seq(Row)
  OBVIOUS
<1> HIDE DEF c
<1>2. \A i \in 1..Len(c) : c[i].quantity \in Int /\ c[i].amount \in Int
  BY <1>1, RowFields
<1>3. \A n \in 0..(Len(a) + Len(b)) : IntTerms(Q(c), n) /\ IntTerms(A(c), n)
  <2>1. \A i \in 1..Len(c) : Q(c)[i] \in Int /\ A(c)[i] \in Int
    BY <1>2
  <2> HIDE DEF Q, A
  <2>2. \A n \in 0..(Len(a) + Len(b)) : \A i \in 1..n : i \in 1..Len(c)
    BY <1>1
  <2> QED
    BY <2>1, <2>2 DEF IntTerms
<1>4. \A n \in 0..Len(a) : SameTerms(Q(c), Q(a), n) /\ SameTerms(A(c), A(a), n)
  BY <1>1 DEF SameTerms
<1>5. \A n \in 0..Len(b) : /\ Follows(Q(b), Q(c), Len(a), n)
                           /\ Follows(A(b), A(c), Len(a), n)
  BY <1>1 DEF Follows
<1>6. /\ \A n : QuantityUpTo(c, k, n) = SumUpTo(Q(c), n)
      /\ \A n : QuantityUpTo(a, k, n) = SumUpTo(Q(a), n)
      /\ \A n : QuantityUpTo(b, k, n) = SumUpTo(Q(b), n)
      /\ \A n : AmountUpTo(c, k, n) = SumUpTo(A(c), n)
      /\ \A n : AmountUpTo(a, k, n) = SumUpTo(A(a), n)
      /\ \A n : AmountUpTo(b, k, n) = SumUpTo(A(b), n)
  BY DEF QuantityUpTo, AmountUpTo
<1> HIDE DEF Q, A
<1>7. \A n \in 0..Len(a) : /\ SumUpTo(Q(c), n) = SumUpTo(Q(a), n)
                           /\ SumUpTo(A(c), n) = SumUpTo(A(a), n)
  <2> TAKE n \in 0..Len(a)
  <2>1. n \in Nat /\ n \in 0..(Len(a) + Len(b))
    BY <1>1
  <2> QED
    BY <1>3, <1>4, <2>1, SumCongruence
<1>8. \A n \in 0..Len(b) :
         /\ SumUpTo(Q(c), Len(a) + n) = SumUpTo(Q(c), Len(a)) + SumUpTo(Q(b), n)
         /\ SumUpTo(A(c), Len(a) + n) = SumUpTo(A(c), Len(a)) + SumUpTo(A(b), n)
  <2> TAKE n \in 0..Len(b)
  <2>1. n \in Nat /\ Len(a) \in Nat /\ Len(a) + n \in 0..(Len(a) + Len(b))
    BY <1>1
  <2> QED
    BY <1>3, <1>5, <2>1, SumShift
<1>9. Len(a) \in 0..Len(a) /\ Len(b) \in 0..Len(b)
  BY <1>1
<1> QED
  BY <1>1, <1>6, <1>7, <1>8, <1>9 DEF c, QuantityOf, AmountOf

\* The totals of a batch are integers, 0 for a key it does not touch, and
\* never on the wrong side of 0 when all its movements have one sign.
LEMMA BatchTotals ==
  ASSUME NEW a \in Seq(Row), NEW k, NEW n \in 0..Len(a)
  PROVE  /\ QuantityUpTo(a, k, n) \in Int
         /\ AmountUpTo(a, k, n) \in Int
         /\ k \notin KeysOf(a) =>
               QuantityUpTo(a, k, n) = 0 /\ AmountUpTo(a, k, n) = 0
         /\ (\A i \in 1..Len(a) : a[i].quantity >= 0)
               => QuantityUpTo(a, k, n) >= 0
         /\ (\A i \in 1..Len(a) : a[i].quantity <= 0)
               => QuantityUpTo(a, k, n) >= QuantityOf(a, k)
<1> DEFINE Q == [i \in 1..Len(a) |-> IF a[i].key = k THEN a[i].quantity ELSE 0]
           A == [i \in 1..Len(a) |-> IF a[i].key = k THEN a[i].amount ELSE 0]
           R == [i \in 1..(Len(a) - n) |-> Q[n + i]]
<1>1. /\ Len(a) \in Nat /\ n \in Nat /\ Len(a) - n \in Nat
      /\ Len(a) = n + (Len(a) - n)
      /\ \A i \in 1..Len(a) : a[i].quantity \in Int /\ a[i].amount \in Int
  BY RowFields
<1>2. /\ QuantityUpTo(a, k, n) = SumUpTo(Q, n)
      /\ AmountUpTo(a, k, n) = SumUpTo(A, n)
      /\ QuantityOf(a, k) = SumUpTo(Q, Len(a))
  BY DEF QuantityUpTo, AmountUpTo, QuantityOf
<1>3. \A i \in 1..Len(a) : Q[i] \in Int /\ A[i] \in Int
  BY <1>1
<1>4. /\ IntTerms(Q, n) /\ IntTerms(A, n) /\ IntTerms(Q, Len(a))
      /\ IntTerms(R, Len(a) - n)
      /\ Follows(R, Q, n, Len(a) - n)
  BY <1>1, <1>3 DEF IntTerms, Follows
<1>5. k \notin KeysOf(a) => \A i \in 1..n : Q[i] = 0 /\ A[i] = 0
  BY <1>1 DEF KeysOf
<1>6. (\A i \in 1..Len(a) : a[i].quantity >= 0) => \A i \in 1..n : Q[i] >= 0
  BY <1>1
<1>7. (\A i \in 1..Len(a) : a[i].quantity <= 0)
         => \A i \in 1..(Len(a) - n) : R[i] <= 0
  BY <1>1
<1> HIDE DEF Q, A, R
<1>8. SumUpTo(Q, n) \in Int /\ SumUpTo(A, n) \in Int
  BY <1>1, <1>4, SumType
<1>9. ASSUME k \notin KeysOf(a) PROVE SumUpTo(Q, n) = 0 /\ SumUpTo(A, n) = 0
  <2>1. /\ \A i \in 1..n : Q[i] >= 0 /\ Q[i] <= 0
        /\ \A i \in 1..n : A[i] >= 0 /\ A[i] <= 0
    BY <1>5, <1>9
  <2>2. SumUpTo(Q, n) >= 0 /\ SumUpTo(Q, n) <= 0
    BY <1>1, <1>4, <2>1, SumSign
  <2>3. SumUpTo(A, n) >= 0 /\ SumUpTo(A, n) <= 0
    BY <1>1, <1>4, <2>1, SumSign
  <2> QED
    BY <1>8, <2>2, <2>3
<1>10. ASSUME \A i \in 1..Len(a) : a[i].quantity >= 0
       PROVE  SumUpTo(Q, n) >= 0
  BY <1>1, <1>4, <1>6, <1>10, SumSign
<1>11. ASSUME \A i \in 1..Len(a) : a[i].quantity <= 0
       PROVE  SumUpTo(Q, n) >= SumUpTo(Q, Len(a))
  <2>1. IntTerms(Q, n + (Len(a) - n))
    BY <1>1, <1>4
  <2>2. SumUpTo(Q, n + (Len(a) - n)) = SumUpTo(Q, n) + SumUpTo(R, Len(a) - n)
    BY <1>1, <1>4, <2>1, SumShift
  <2>3. SumUpTo(R, Len(a) - n) <= 0
    BY <1>1, <1>4, <1>7, <1>11, SumSign
  <2>4. SumUpTo(R, Len(a) - n) \in Int
    BY <1>1, <1>4, SumType
  <2> QED
    BY <1>1, <1>8, <2>2, <2>3, <2>4
<1> QED
  BY <1>2, <1>8, <1>9, <1>10, <1>11

\* The rows written for a batch differ from its movements in balance_after
\* only, so they have the same totals.
LEMMA RowsOfBatch ==
  ASSUME StockTypeOK, NEW b \in Seq(Row)
  PROVE  /\ Rows(b) \in Seq(Row) /\ Len(Rows(b)) = Len(b)
         /\ \A i \in 1..Len(b) :
               /\ Rows(b)[i].key = b[i].key
               /\ Rows(b)[i].balance_after = BalanceAfter(b, i)
               /\ Rows(b)[i] = [b[i] EXCEPT !.balance_after = BalanceAfter(b, i)]
         /\ \A k, n : /\ QuantityUpTo(Rows(b), k, n) = QuantityUpTo(b, k, n)
                      /\ AmountUpTo(Rows(b), k, n) = AmountUpTo(b, k, n)
<1>1. \A i \in 1..Len(b) : BalanceAfter(b, i) \in Int
  <2> TAKE i \in 1..Len(b)
  <2>1. i \in 0..Len(b) /\ b[i].key \in Keys
    BY RowFields
  <2>2. QuantityUpTo(b, b[i].key, i) \in Int
    BY <2>1, BatchTotals
  <2>3. balance[b[i].key].quantity \in Int
    BY <2>1 DEF StockTypeOK, Balance
  <2> QED
    BY <2>2, <2>3 DEF BalanceAfter
<1>2. \A r \in Row, x \in Int :
         /\ [r EXCEPT !.balance_after = x] \in Row
         /\ [r EXCEPT !.balance_after = x].balance_after = x
         /\ [r EXCEPT !.balance_after = x].key = r.key
         /\ [r EXCEPT !.balance_after = x].quantity = r.quantity
         /\ [r EXCEPT !.balance_after = x].amount = r.amount
  BY DEF Row
<1>3. \A i \in 1..Len(b) : b[i] \in Row
  BY RowFields
<1>4. \A i \in 1..Len(b) :
         /\ Rows(b)[i] \in Row
         /\ Rows(b)[i] = [b[i] EXCEPT !.balance_after = BalanceAfter(b, i)]
         /\ Rows(b)[i].balance_after = BalanceAfter(b, i)
         /\ Rows(b)[i].key = b[i].key
         /\ Rows(b)[i].quantity = b[i].quantity
         /\ Rows(b)[i].amount = b[i].amount
  BY <1>1, <1>2, <1>3 DEF Rows
<1>5. Len(b) \in Nat /\ Rows(b) = [i \in 1..Len(b) |-> Rows(b)[i]]
  BY DEF Rows
<1>6. Rows(b) \in Seq(Row) /\ Len(Rows(b)) = Len(b)
  BY <1>4, <1>5
<1>7. ASSUME NEW k, NEW n
      PROVE  /\ QuantityUpTo(Rows(b), k, n) = QuantityUpTo(b, k, n)
             /\ AmountUpTo(Rows(b), k, n) = AmountUpTo(b, k, n)
  <2>1. [i \in 1..Len(Rows(b)) |->
            IF Rows(b)[i].key = k THEN Rows(b)[i].quantity ELSE 0]
         = [i \in 1..Len(b) |-> IF b[i].key = k THEN b[i].quantity ELSE 0]
    BY <1>4, <1>6
  <2>2. [i \in 1..Len(Rows(b)) |->
            IF Rows(b)[i].key = k THEN Rows(b)[i].amount ELSE 0]
         = [i \in 1..Len(b) |-> IF b[i].key = k THEN b[i].amount ELSE 0]
    BY <1>4, <1>6
  <2> QED
    BY <2>1, <2>2 DEF QuantityUpTo, AmountUpTo
<1> QED
  BY <1>4, <1>6, <1>7

-----------------------------------------------------------------------------
(* The consistency of the stock as one inductive state predicate. *)

StockInv == StockTypeOK /\ BalanceIsLedgerSum /\ RunningBalance

\* The batch b became part of the ledger, and every balance moved by its
\* totals without going below zero.
Posted(b) ==
    /\ ledger' = ledger \o Rows(b)
    /\ balance' \in [Keys -> Balance]
    /\ \A k \in Keys :
          /\ balance'[k].quantity = balance[k].quantity + QuantityOf(b, k)
          /\ balance'[k].total_amount = balance[k].total_amount + AmountOf(b, k)
    /\ \A i \in 1..Len(b) : BalanceAfter(b, i) >= 0

\* An inbound batch of movements is posted.
LEMMA InboundIsPosted ==
  ASSUME StockTypeOK, NEW b \in Seq(Row),
         \A i \in 1..Len(b) : b[i].type \in InboundTypes,
         PostInbound(b)
  PROVE  Posted(b)
<1>1. \A i \in 1..Len(b) : b[i].quantity >= 0
  <2>1. \A i \in 1..Len(b) : b[i].quantity \in Int
    BY RowFields
  <2>2. \A i \in 1..Len(b) : b[i].type \notin OutboundTypes
    BY DEF InboundTypes, OutboundTypes
  <2>3. \A i \in 1..Len(b) : SignsOK(b[i])
    BY DEF PostInbound
  <2> QED
    BY <2>1, <2>2, <2>3 DEF SignsOK
<1>2. /\ Len(b) \in Nat
      /\ \A i \in 1..Len(b) : b[i].key \in Keys
      /\ \A k \in Keys : balance[k] \in Balance
  BY RowFields DEF StockTypeOK
<1>3. \A k \in Keys : /\ balance[k].quantity \in Nat
                      /\ balance[k].total_amount \in Nat
  BY <1>2 DEF Balance
<1>4. \A k : /\ QuantityOf(b, k) \in Int /\ AmountOf(b, k) \in Int
             /\ QuantityOf(b, k) >= 0
             /\ k \notin KeysOf(b) => QuantityOf(b, k) = 0 /\ AmountOf(b, k) = 0
  <2> TAKE k
  <2>1. Len(b) \in 0..Len(b)
    BY <1>2
  <2> QED
    BY <1>1, <2>1, BatchTotals DEF QuantityOf, AmountOf
<1>5. ASSUME NEW k \in Keys
      PROVE  /\ balance'[k] \in Balance
             /\ balance'[k].quantity = balance[k].quantity + QuantityOf(b, k)
             /\ balance'[k].total_amount
                  = balance[k].total_amount + AmountOf(b, k)
  <2> DEFINE q == balance[k].quantity + QuantityOf(b, k)
             a == balance[k].total_amount + AmountOf(b, k)
  <2>1. CASE k \in KeysOf(b)
    <3>1. q \in Nat /\ a \in Nat
      BY <1>3, <1>4, <2>1 DEF PostInbound, InboundOK
    <3>2. NewAverage(a, q) \in Nat
      BY <3>1, CostType
    <3>3. balance'[k] = [quantity |-> q, total_amount |-> a,
                         average_unit_cost |-> NewAverage(a, q)]
      BY <2>1 DEF PostInbound, ApplyInbound
    <3> QED
      BY <3>1, <3>2, <3>3 DEF Balance
  <2>2. CASE k \notin KeysOf(b)
    <3>1. balance'[k] = balance[k]
      BY <2>2 DEF PostInbound
    <3> QED
      BY <1>2, <1>3, <1>4, <2>2, <3>1
  <2> QED
    BY <2>1, <2>2
<1>6. balance' \in [Keys -> Balance]
  <2>1. balance' = [k \in Keys |-> balance'[k]]
    BY DEF PostInbound
  <2> QED
    BY <1>5, <2>1
<1>7. ASSUME NEW i \in 1..Len(b) PROVE BalanceAfter(b, i) >= 0
  <2>1. i \in 0..Len(b)
    BY <1>2
  <2>2. QuantityUpTo(b, b[i].key, i) \in Int /\ QuantityUpTo(b, b[i].key, i) >= 0
    BY <1>1, <2>1, BatchTotals
  <2> QED
    BY <1>2, <1>3, <2>2 DEF BalanceAfter
<1> QED
  BY <1>5, <1>6, <1>7 DEF Posted, PostInbound

\* An outbound batch of movements is posted.
LEMMA OutboundIsPosted ==
  ASSUME StockTypeOK, NEW b \in Seq(Row),
         \A i \in 1..Len(b) : b[i].type \in OutboundTypes,
         PostOutbound(b)
  PROVE  Posted(b)
<1>1. \A i \in 1..Len(b) : b[i].quantity <= 0
  <2>1. \A i \in 1..Len(b) : b[i].quantity \in Int
    BY RowFields
  <2> QED
    BY <2>1 DEF PostOutbound, SignsOK
<1>2. /\ Len(b) \in Nat
      /\ \A i \in 1..Len(b) : b[i].key \in Keys
      /\ \A k \in Keys : balance[k] \in Balance
  BY RowFields DEF StockTypeOK
<1>3. \A k \in Keys : /\ balance[k].quantity \in Nat
                      /\ balance[k].total_amount \in Nat
  BY <1>2 DEF Balance
<1>4. \A k : /\ QuantityOf(b, k) \in Int /\ AmountOf(b, k) \in Int
             /\ k \notin KeysOf(b) => QuantityOf(b, k) = 0 /\ AmountOf(b, k) = 0
  <2> TAKE k
  <2>1. Len(b) \in 0..Len(b)
    BY <1>2
  <2> QED
    BY <2>1, BatchTotals DEF QuantityOf, AmountOf
<1>5. ASSUME NEW k \in Keys
      PROVE  /\ balance'[k] \in Balance
             /\ balance'[k].quantity = balance[k].quantity + QuantityOf(b, k)
             /\ balance'[k].total_amount
                  = balance[k].total_amount + AmountOf(b, k)
  <2> DEFINE q == balance[k].quantity - (-QuantityOf(b, k))
             a == balance[k].total_amount - (-AmountOf(b, k))
  <2>1. CASE k \in KeysOf(b)
    <3>1. q \in Nat /\ a \in Nat
      BY <1>3, <1>4, <2>1 DEF PostOutbound, OutboundOK
    <3>2. NewAverage(a, q) \in Nat
      BY <3>1, CostType
    <3>3. balance'[k] = [quantity |-> q, total_amount |-> a,
                         average_unit_cost |-> NewAverage(a, q)]
      BY <2>1 DEF PostOutbound, ApplyOutbound
    <3>4. /\ q = balance[k].quantity + QuantityOf(b, k)
          /\ a = balance[k].total_amount + AmountOf(b, k)
      BY <1>3, <1>4
    <3> QED
      BY <3>1, <3>2, <3>3, <3>4 DEF Balance
  <2>2. CASE k \notin KeysOf(b)
    <3>1. balance'[k] = balance[k]
      BY <2>2 DEF PostOutbound
    <3> QED
      BY <1>2, <1>3, <1>4, <2>2, <3>1
  <2> QED
    BY <2>1, <2>2
<1>6. balance' \in [Keys -> Balance]
  <2>1. balance' = [k \in Keys |-> balance'[k]]
    BY DEF PostOutbound
  <2> QED
    BY <1>5, <2>1
<1>7. ASSUME NEW i \in 1..Len(b) PROVE BalanceAfter(b, i) >= 0
  <2> DEFINE k == b[i].key
  <2>1. i \in 0..Len(b) /\ k \in Keys /\ k \in KeysOf(b)
    BY <1>2 DEF KeysOf
  <2> HIDE DEF k
  <2>2. QuantityUpTo(b, k, i) \in Int /\ QuantityUpTo(b, k, i) >= QuantityOf(b, k)
    BY <1>1, <2>1, BatchTotals
  <2>3. balance[k].quantity - (-QuantityOf(b, k)) >= 0
    BY <2>1 DEF PostOutbound, OutboundOK
  <2>4. balance[k].quantity + QuantityUpTo(b, k, i) >= 0
    BY <1>3, <1>4, <2>1, <2>2, <2>3
  <2> QED
    BY <2>4 DEF BalanceAfter, k
<1> QED
  BY <1>5, <1>6, <1>7 DEF Posted, PostOutbound

\* Posting keeps the stock consistent.
LEMMA PostedKeepsStock ==
  ASSUME StockInv, NEW b \in Seq(Row), Posted(b)
  PROVE  StockInv'
<1> DEFINE R == Rows(b)
<1>1. /\ R \in Seq(Row) /\ Len(R) = Len(b)
      /\ \A i \in 1..Len(b) : /\ R[i].key = b[i].key
                              /\ R[i].balance_after = BalanceAfter(b, i)
      /\ \A k, n : /\ QuantityUpTo(R, k, n) = QuantityUpTo(b, k, n)
                   /\ AmountUpTo(R, k, n) = AmountUpTo(b, k, n)
  BY RowsOfBatch DEF StockInv
<1> HIDE DEF R
<1>2. ledger \in Seq(Row) /\ ledger' = ledger \o R
  BY DEF StockInv, StockTypeOK, Posted, R
<1>3. R \in Seq(Row)
  BY <1>1
<1>4. /\ Len(ledger) \in Nat /\ Len(R) \in Nat
      /\ Len(ledger') = Len(ledger) + Len(R)
      /\ \A i \in 1..Len(ledger) : ledger'[i] = ledger[i]
      /\ \A i \in 1..Len(R) : ledger'[Len(ledger) + i] = R[i]
  BY <1>2, <1>3
<1>5. StockTypeOK'
  <2>1. ledger' \in Seq(Row)
    BY <1>1, <1>2
  <2> QED
    BY <2>1 DEF StockTypeOK, Posted
<1>6. \A k : /\ QuantityOf(ledger', k) = QuantityOf(ledger, k) + QuantityOf(b, k)
             /\ AmountOf(ledger', k) = AmountOf(ledger, k) + AmountOf(b, k)
  <2> TAKE k
  <2>1. Len(R) \in 0..Len(R) /\ Len(ledger') = Len(ledger) + Len(R)
    BY <1>4
  <2>2. QuantityUpTo(ledger', k, Len(ledger) + Len(R))
           = QuantityOf(ledger, k) + QuantityUpTo(R, k, Len(R))
    BY <1>1, <1>2, <2>1, ConcatTotals
  <2>3. AmountOf(ledger', k) = AmountOf(ledger, k) + AmountOf(R, k)
    BY <1>1, <1>2, ConcatTotals
  <2> QED
    BY <1>1, <2>1, <2>2, <2>3 DEF QuantityOf, AmountOf
<1>7. BalanceIsLedgerSum'
  BY <1>6 DEF BalanceIsLedgerSum, StockInv, Posted
<1>8. RunningBalance'
  <2> SUFFICES ASSUME NEW i \in 1..Len(ledger')
               PROVE  /\ ledger'[i].balance_after
                            = QuantityUpTo(ledger', ledger'[i].key, i)
                      /\ ledger'[i].balance_after >= 0
    BY DEF RunningBalance
  <2>1. CASE i \in 1..Len(ledger)
    <3>1. ledger'[i] = ledger[i] /\ i \in 0..Len(ledger)
      BY <1>4, <2>1
    <3>2. QuantityUpTo(ledger', ledger[i].key, i)
             = QuantityUpTo(ledger, ledger[i].key, i)
      BY <1>2, <1>3, <3>1, PrefixTotals
    <3> QED
      BY <2>1, <3>1, <3>2 DEF StockInv, RunningBalance
  <2>2. CASE i \notin 1..Len(ledger)
    <3> DEFINE j == i - Len(ledger)
               k == b[j].key
    <3>1. j \in 1..Len(b) /\ j \in 0..Len(R) /\ i = Len(ledger) + j
      BY <1>1, <1>4, <2>2
    <3>2. ledger'[i] = R[j]
      BY <1>1, <1>4, <3>1
    <3>3. k \in Keys
      BY <3>1, RowFields
    <3> HIDE DEF j, k
    <3>4. ledger'[i].key = k /\ ledger'[i].balance_after = BalanceAfter(b, j)
      BY <1>1, <3>1, <3>2 DEF k
    <3>5. QuantityUpTo(ledger', k, i) = QuantityOf(ledger, k)
                                          + QuantityUpTo(b, k, j)
      BY <1>1, <1>2, <3>1, ConcatTotals
    <3>6. BalanceAfter(b, j) = balance[k].quantity + QuantityUpTo(b, k, j)
      BY DEF BalanceAfter, k
    <3>7. balance[k].quantity = QuantityOf(ledger, k)
      BY <3>3 DEF StockInv, BalanceIsLedgerSum
    <3>8. BalanceAfter(b, j) >= 0
      BY <3>1 DEF Posted
    <3> QED
      BY <3>4, <3>5, <3>6, <3>7, <3>8
  <2> QED
    BY <2>1, <2>2
<1> QED
  BY <1>5, <1>7, <1>8 DEF StockInv

\* The stock starts consistent.
LEMMA StockInitInv == StockInit => StockInv
<1> SUFFICES ASSUME StockInit PROVE StockInv
  OBVIOUS
<1>1. StockTypeOK
  BY DEF StockInit, StockTypeOK, EmptyBalance, Balance
<1>2. ledger \in Seq(Row) /\ Len(ledger) = 0
  BY DEF StockInit
<1>3. BalanceIsLedgerSum
  <2> SUFFICES ASSUME NEW k \in Keys
               PROVE  QuantityOf(ledger, k) = 0 /\ AmountOf(ledger, k) = 0
    BY DEF BalanceIsLedgerSum, StockInit, EmptyBalance
  <2>1. k \notin KeysOf(ledger) /\ Len(ledger) \in 0..Len(ledger)
    BY <1>2 DEF KeysOf
  <2> QED
    BY <1>2, <2>1, BatchTotals DEF QuantityOf, AmountOf
<1>4. RunningBalance
  BY <1>2 DEF RunningBalance
<1> QED
  BY <1>1, <1>3, <1>4 DEF StockInv

-----------------------------------------------------------------------------
(* The abstract stock book *)

\* The refinement mapping of Book.
JournalOf(rows) == [i \in 1..Len(rows) |-> [key      |-> rows[i].key,
                                            quantity |-> rows[i].quantity,
                                            amount   |-> rows[i].amount]]

OnHandOf(bal) == [k \in Keys |-> [quantity |-> bal[k].quantity,
                                  amount   |-> bal[k].total_amount]]

\* What a batch does, seen through the mapping.
LEMMA BatchIsJournalled ==
  ASSUME NEW a \in Seq(Row), NEW b \in Seq(Row), NEW k
  PROVE  /\ JournalOf(a) \in Seq([key : Keys, quantity : Int, amount : Int])
         /\ Len(JournalOf(a)) = Len(a)
         /\ Len(JournalOf(a \o b)) = Len(a) + Len(b)
         /\ SubSeq(JournalOf(a \o b), 1, Len(a)) = JournalOf(a)
         /\ Book!QuantityAfter(JournalOf(a \o b), Len(a), k) = QuantityOf(b, k)
         /\ Book!AmountAfter(JournalOf(a \o b), Len(a), k) = AmountOf(b, k)
<1> DEFINE E == [key : Keys, quantity : Int, amount : Int]
           c == a \o b
           J == JournalOf(c)
<1>1. /\ c \in Seq(Row) /\ Len(a) \in Nat /\ Len(b) \in Nat
      /\ Len(c) = Len(a) + Len(b)
      /\ \A i \in 1..Len(a) : c[i] = a[i]
      /\ \A i \in 1..Len(b) : c[Len(a) + i] = b[i]
  OBVIOUS
<1> HIDE DEF c
<1>2. ASSUME NEW r \in Seq(Row)
      PROVE  JournalOf(r) \in Seq(E) /\ Len(JournalOf(r)) = Len(r)
  <2>1. \A i \in 1..Len(r) : [key |-> r[i].key, quantity |-> r[i].quantity,
                              amount |-> r[i].amount] \in E
    BY RowFields
  <2> QED
    BY <2>1 DEF JournalOf
<1>3. J \in Seq(E) /\ Len(J) = Len(a) + Len(b) /\ DOMAIN J = 1..Len(c)
  BY <1>1, <1>2 DEF JournalOf
<1>4. SubSeq(J, 1, Len(a)) = JournalOf(a)
  <2>1. SubSeq(J, 1, Len(a)) = [i \in 1..Len(a) |-> J[i]]
    BY <1>1, <1>3
  <2>2. \A i \in 1..Len(a) : J[i] = JournalOf(a)[i]
    BY <1>1 DEF JournalOf
  <2> QED
    BY <2>1, <2>2 DEF JournalOf
<1>5. \A i \in 1..Len(b) : /\ J[Len(a) + i].key = b[i].key
                           /\ J[Len(a) + i].quantity = b[i].quantity
                           /\ J[Len(a) + i].amount = b[i].amount
  <2>1. \A i \in 1..Len(b) : Len(a) + i \in 1..Len(c)
    BY <1>1
  <2>3. \A j \in 1..Len(c) : /\ J[j].key = c[j].key
                             /\ J[j].quantity = c[j].quantity
                             /\ J[j].amount = c[j].amount
    BY DEF JournalOf
  <2> HIDE DEF J
  <2>4. \A i \in 1..Len(b) : c[Len(a) + i] = b[i]
    BY <1>1
  <2> QED
    BY <2>1, <2>3, <2>4, Zenon
<1> HIDE DEF J
<1>6. Len(J) - Len(a) = Len(b)
  BY <1>1, <1>3
<1>7. [i \in 1..(Len(J) - Len(a)) |->
          IF J[Len(a) + i].key = k THEN J[Len(a) + i].quantity ELSE 0]
       = [i \in 1..Len(b) |-> IF b[i].key = k THEN b[i].quantity ELSE 0]
  BY <1>5, <1>6
<1>8. [i \in 1..(Len(J) - Len(a)) |->
          IF J[Len(a) + i].key = k THEN J[Len(a) + i].amount ELSE 0]
       = [i \in 1..Len(b) |-> IF b[i].key = k THEN b[i].amount ELSE 0]
  BY <1>5, <1>6
<1>0. \A f, n : Book!SumUpTo(f, n) = SumUpTo(f, n)
  BY DEF Book!SumUpTo, SumUpTo
<1>9. Book!QuantityAfter(J, Len(a), k) = QuantityOf(b, k)
  BY <1>0, <1>6, <1>7 DEF Book!QuantityAfter, QuantityOf, QuantityUpTo
<1>10. Book!AmountAfter(J, Len(a), k) = AmountOf(b, k)
  BY <1>0, <1>6, <1>8 DEF Book!AmountAfter, AmountOf, AmountUpTo
<1> QED
  BY <1>2, <1>3, <1>4, <1>9, <1>10 DEF J, c

\* Posting a batch is a step of the book, or none when the batch is empty.
LEMMA PostedIsBooked ==
  ASSUME StockInv, NEW b \in Seq(Row), Posted(b)
  PROVE  [Book!Post]_(Book!bookVars)
<1> DEFINE R == Rows(b)
<1>1. /\ R \in Seq(Row) /\ Len(R) = Len(b)
      /\ \A k : /\ QuantityOf(R, k) = QuantityOf(b, k)
                /\ AmountOf(R, k) = AmountOf(b, k)
  BY RowsOfBatch DEF StockInv, QuantityOf, AmountOf
<1> HIDE DEF R
<1>2. ledger \in Seq(Row) /\ ledger' = ledger \o R /\ Len(b) \in Nat
  BY DEF StockInv, StockTypeOK, Posted, R
<1>3. /\ Len(JournalOf(ledger)) = Len(ledger) /\ Len(ledger) \in Nat
      /\ Len(JournalOf(ledger')) = Len(ledger) + Len(b)
      /\ SubSeq(JournalOf(ledger'), 1, Len(ledger)) = JournalOf(ledger)
      /\ \A k : /\ Book!QuantityAfter(JournalOf(ledger'), Len(ledger), k)
                     = QuantityOf(b, k)
                /\ Book!AmountAfter(JournalOf(ledger'), Len(ledger), k)
                     = AmountOf(b, k)
  <2> SUFFICES ASSUME NEW k
               PROVE  /\ Len(JournalOf(ledger)) = Len(ledger)
                      /\ Len(JournalOf(ledger \o R)) = Len(ledger) + Len(R)
                      /\ SubSeq(JournalOf(ledger \o R), 1, Len(ledger))
                            = JournalOf(ledger)
                      /\ Book!QuantityAfter(JournalOf(ledger \o R), Len(ledger), k)
                            = QuantityOf(R, k)
                      /\ Book!AmountAfter(JournalOf(ledger \o R), Len(ledger), k)
                            = AmountOf(R, k)
    BY <1>1, <1>2
  <2> QED
    BY <1>1, <1>2, BatchIsJournalled
<1>4. \A k \in Keys : /\ balance'[k].quantity \in Nat
                      /\ balance'[k].total_amount \in Nat
  BY DEF Posted, Balance
<1>5. OnHandOf(balance') = [k \in Keys |->
          [quantity |-> OnHandOf(balance)[k].quantity
              + Book!QuantityAfter(JournalOf(ledger'), Len(JournalOf(ledger)), k),
           amount |-> OnHandOf(balance)[k].amount
              + Book!AmountAfter(JournalOf(ledger'), Len(JournalOf(ledger)), k)]]
  BY <1>3 DEF OnHandOf, Posted
<1>6. \A k \in Keys : /\ OnHandOf(balance')[k].quantity >= 0
                      /\ OnHandOf(balance')[k].amount >= 0
  BY <1>4 DEF OnHandOf
<1>7. CASE Len(b) > 0
  <2>1. Len(JournalOf(ledger')) > Len(JournalOf(ledger))
    BY <1>2, <1>3, <1>7
  <2>2. SubSeq(JournalOf(ledger'), 1, Len(JournalOf(ledger))) = JournalOf(ledger)
    BY <1>3
  <2>3. Book!Post
    BY <1>5, <1>6, <2>1, <2>2, Zenon DEF Book!Post, JournalOf, OnHandOf
  <2> QED
    BY <2>3
<1>8. CASE Len(b) = 0
  <2>1. ledger' = ledger
    BY <1>1, <1>2, <1>8
  <2>2. \A k \in Keys : QuantityOf(b, k) = 0 /\ AmountOf(b, k) = 0
    <3> TAKE k \in Keys
    <3>1. k \notin KeysOf(b) /\ Len(b) \in 0..Len(b)
      BY <1>8 DEF KeysOf
    <3> QED
      BY <3>1, BatchTotals DEF QuantityOf, AmountOf
  <2>3. \A k \in Keys : balance[k].quantity \in Nat /\ balance[k].total_amount \in Nat
    BY DEF StockInv, StockTypeOK, Balance
  <2>4. \A k \in Keys : /\ balance'[k].quantity = balance[k].quantity
                        /\ balance'[k].total_amount = balance[k].total_amount
    BY <2>2, <2>3 DEF Posted
  <2>5. OnHandOf(balance') = OnHandOf(balance)
    BY <2>4 DEF OnHandOf
  <2> QED
    BY <2>1, <2>5 DEF Book!bookVars, OnHandOf
<1> QED
  BY <1>2, <1>7, <1>8

\* The stock starts as an empty book.
LEMMA InitIsBook == StockInit => Book!Init
  BY DEF StockInit, EmptyBalance, Book!Init

-----------------------------------------------------------------------------
(* The batches *)

\* b holds the batches of the first n lines, for every n up to m.
Batches(b, moves, T, m) ==
    /\ b \in [0..m -> Seq(T)]
    /\ b[0] = << >>
    /\ \A i \in 1..m : b[i] = IF i \in DOMAIN moves
                              THEN Append(b[i - 1], moves[i]) ELSE b[i - 1]

LEMMA BatchesExist ==
  ASSUME NEW T, NEW D, NEW moves \in [D -> T], NEW n \in Nat
  PROVE  \E b : Batches(b, moves, T, n)
<1> DEFINE M == {m \in Nat : \E b : Batches(b, moves, T, m)}
<1>1. 0 \in M
  <2>1. Batches([i \in 0..0 |-> << >>], moves, T, 0)
    BY DEF Batches
  <2> QED
    BY <2>1
<1>2. ASSUME NEW m \in M PROVE m + 1 \in M
  <2>1. PICK b : Batches(b, moves, T, m)
    OBVIOUS
  <2> DEFINE x == IF m + 1 \in D THEN Append(b[m], moves[m + 1]) ELSE b[m]
             c == [i \in 0..(m + 1) |-> IF i = m + 1 THEN x ELSE b[i]]
  <2>2. b[m] \in Seq(T)
    BY <2>1 DEF Batches
  <2>3. x \in Seq(T)
    BY <2>2
  <2> HIDE DEF x
  <2>4. c \in [0..(m + 1) -> Seq(T)] /\ c[0] = << >>
    BY <2>1, <2>3 DEF Batches
  <2>5. ASSUME NEW i \in 1..(m + 1)
        PROVE  c[i] = IF i \in DOMAIN moves
                      THEN Append(c[i - 1], moves[i]) ELSE c[i - 1]
    <3>1. CASE i = m + 1
      BY <3>1 DEF x
    <3>2. CASE i # m + 1
      <4>1. i \in 1..m /\ c[i] = b[i] /\ c[i - 1] = b[i - 1]
        BY <3>2
      <4>2. b[i] = IF i \in DOMAIN moves
                   THEN Append(b[i - 1], moves[i]) ELSE b[i - 1]
        BY <2>1, <4>1 DEF Batches
      <4> HIDE DEF c
      <4> QED
        BY <4>1, <4>2
    <3> QED
      BY <3>1, <3>2
  <2>6. Batches(c, moves, T, m + 1)
    BY <2>4, <2>5 DEF Batches
  <2> QED
    BY <2>6
<1> HIDE DEF M
<1>3. M \in SUBSET Nat
  BY DEF M
<1>4. M = Nat
  BY <1>1, <1>2, <1>3, SetInduction
<1> QED
  BY <1>4 DEF M

\* The movements of a batch are the given ones.
LEMMA InLineOrderIs ==
  ASSUME NEW T, NEW D, NEW moves \in [D -> T], NEW n \in Nat
  PROVE  \E c : Batches(c, moves, T, n) /\ InLineOrder(n, moves) = c[n]
<1> DEFINE E(b) == b = [i \in 0..n |->
                          IF i = 0 THEN << >>
                          ELSE IF i \in DOMAIN moves THEN Append(b[i - 1], moves[i])
                          ELSE b[i - 1]]
           c == CHOOSE b : E(b)
<1>1. PICK b : Batches(b, moves, T, n)
  BY BatchesExist
<1>2. E(b)
  <2>1. ASSUME NEW i \in 0..n
        PROVE  b[i] = IF i = 0 THEN << >>
                      ELSE IF i \in DOMAIN moves
                      THEN Append(b[i - 1], moves[i]) ELSE b[i - 1]
    <3>1. CASE i = 0
      BY <1>1, <3>1 DEF Batches
    <3>2. CASE i # 0
      <4>1. i \in 1..n
        BY <3>2
      <4> QED
        BY <1>1, <3>2, <4>1 DEF Batches
    <3> QED
      BY <3>1, <3>2
  <2>2. b = [i \in 0..n |-> b[i]]
    BY <1>1 DEF Batches
  <2> QED
    BY <2>1, <2>2
<1>3. E(c)
  BY <1>2
<1>4. InLineOrder(n, moves) = c[n]
  BY DEF InLineOrder
<1> HIDE DEF c
<1> DEFINE M == {m \in Nat : m <= n => c[m] \in Seq(T)}
<1>5. 0 \in M
  BY <1>3
<1>6. ASSUME NEW m \in M PROVE m + 1 \in M
  <2> SUFFICES ASSUME m + 1 <= n PROVE c[m + 1] \in Seq(T)
    OBVIOUS
  <2>1. c[m] \in Seq(T)
    OBVIOUS
  <2>2. c[m + 1] = IF m + 1 \in D THEN Append(c[m], moves[m + 1]) ELSE c[m]
    <3>1. /\ m + 1 \in 0..n /\ m + 1 # 0 /\ (m + 1) - 1 = m
          /\ DOMAIN moves = D
      OBVIOUS
    <3> DEFINE F(j) == IF j = 0 THEN << >>
                       ELSE IF j \in DOMAIN moves THEN Append(c[j - 1], moves[j])
                       ELSE c[j - 1]
    <3>2. c = [j \in 0..n |-> F(j)]
      BY <1>3
    <3>3. c[m + 1] = F(m + 1)
      <4> HIDE DEF F
      <4> QED
        BY <3>1, <3>2
    <3> QED
      BY <3>1, <3>3
  <2> QED
    BY <2>1, <2>2
<1> HIDE DEF M
<1>7. M \in SUBSET Nat
  BY DEF M
<1>8. M = Nat
  BY <1>5, <1>6, <1>7, SetInduction
<1>9. Batches(c, moves, T, n)
  <2>0. \A m \in 0..n : m \in Nat /\ m <= n
    OBVIOUS
  <2>1. \A m \in 0..n : c[m] \in Seq(T)
    BY <1>8, <2>0 DEF M
  <2>2. c \in [0..n -> Seq(T)]
    <3>1. c = [m \in 0..n |-> c[m]]
      BY <1>3
    <3> QED
      BY <2>1, <3>1
  <2> DEFINE F(j) == IF j = 0 THEN << >>
                     ELSE IF j \in DOMAIN moves THEN Append(c[j - 1], moves[j])
                     ELSE c[j - 1]
  <2>3. c = [j \in 0..n |-> F(j)]
    BY <1>3
  <2>4. \A j \in 0..n : c[j] = F(j)
    <3> HIDE DEF F
    <3> QED
      BY <2>3
  <2>5. c[0] = << >> /\ \A j \in 1..n : c[j] = IF j \in DOMAIN moves
                                    THEN Append(c[j - 1], moves[j]) ELSE c[j - 1]
    BY <2>4
  <2> QED
    BY <2>2, <2>5 DEF Batches
<1> QED
  BY <1>4, <1>9

LEMMA InLineOrderType ==
  ASSUME NEW T, NEW D, NEW moves \in [D -> T], NEW n \in Nat
  PROVE  InLineOrder(n, moves) \in Seq(T)
<1>1. PICK c : Batches(c, moves, T, n) /\ InLineOrder(n, moves) = c[n]
  BY InLineOrderIs
<1>2. n \in 0..n
  OBVIOUS
<1> QED
  BY <1>1, <1>2 DEF Batches

\* The batch b holds the movement of every line of moves up to m, once each.
Enumerates(b, moves, m) ==
    /\ \A p \in 1..Len(b) : /\ b[p].item \in DOMAIN moves /\ b[p].item <= m
                            /\ b[p] = moves[b[p].item]
    /\ \A l \in DOMAIN moves : l <= m => \E p \in 1..Len(b) : b[p].item = l
    /\ \A p, q \in 1..Len(b) : b[p].item = b[q].item => p = q

LEMMA InLineOrderEnumerates ==
  ASSUME NEW T, NEW D, NEW moves \in [D -> T], NEW n \in Nat
  PROVE  D \subseteq 1..n /\ (\A l \in D : moves[l].item = l)
            => Enumerates(InLineOrder(n, moves), moves, n)
<1>1. PICK c : Batches(c, moves, T, n) /\ InLineOrder(n, moves) = c[n]
  BY InLineOrderIs
<1> SUFFICES ASSUME D \subseteq 1..n, \A l \in D : moves[l].item = l
             PROVE  Enumerates(InLineOrder(n, moves), moves, n)
  OBVIOUS
<1> DEFINE M == {m \in Nat : m <= n => Enumerates(c[m], moves, m)}
<1>2. 0 \in M
  <2>1. c[0] = << >> /\ Len(c[0]) = 0 /\ DOMAIN moves = D
    BY <1>1 DEF Batches
  <2>2. \A l \in D : ~(l <= 0)
    OBVIOUS
  <2>3. 1..Len(c[0]) = {}
    BY <2>1
  <2>4. Enumerates(c[0], moves, 0)
    BY <2>1, <2>2, <2>3, Zenon DEF Enumerates
  <2> QED
    BY <2>4
<1>3. ASSUME NEW m \in M PROVE m + 1 \in M
  <2> SUFFICES ASSUME m + 1 <= n PROVE Enumerates(c[m + 1], moves, m + 1)
    OBVIOUS
  <2> DEFINE a == c[m]
             b == c[m + 1]
  <2>1. /\ m \in Nat /\ m + 1 \in 1..n /\ m \in 0..n /\ (m + 1) - 1 = m
        /\ DOMAIN moves = D
    OBVIOUS
  <2>2. a \in Seq(T) /\ Enumerates(a, moves, m)
    BY <1>1, <2>1 DEF Batches
  <2>3. b = IF m + 1 \in D THEN Append(a, moves[m + 1]) ELSE a
    BY <1>1, <2>1 DEF Batches
  <2>4. \A l \in D : l \in Nat
    OBVIOUS
  <2> HIDE DEF a, b
  <2>5. CASE m + 1 \in D
    <3> DEFINE x == moves[m + 1]
               k == Len(a)
    <3>1. x \in T /\ x.item = m + 1 /\ b = Append(a, x)
      BY <2>3, <2>5
    <3> HIDE DEF x
    <3>2. /\ k \in Nat /\ Len(b) = k + 1 /\ b[k + 1] = x
          /\ \A p \in 1..k : b[p] = a[p]
      BY <2>2, <3>1, AppendedSeq
    <3> HIDE DEF k
    <3>3. \A p \in 1..k : /\ a[p].item \in D /\ a[p].item <= m
                          /\ a[p] = moves[a[p].item]
      BY <2>1, <2>2 DEF Enumerates, k
    <3>4. \A p \in 1..(k + 1) : p \in 1..k \/ p = k + 1
      BY <3>2
    <3>5. \A p \in 1..Len(b) : /\ b[p].item \in DOMAIN moves
                               /\ b[p].item <= m + 1 /\ b[p] = moves[b[p].item]
      <4>1. \A l \in D : l <= m => l <= m + 1
        BY <2>1, <2>4
      <4>2. \A p \in 1..k : /\ b[p].item \in D /\ b[p].item <= m + 1
                            /\ b[p] = moves[b[p].item]
        BY <3>2, <3>3, <4>1, Zenon
      <4>3. /\ b[k + 1].item \in D /\ b[k + 1].item <= m + 1
            /\ b[k + 1] = moves[b[k + 1].item]
        BY <2>1, <2>5, <3>1, <3>2 DEF x
      <4> QED
        BY <2>1, <3>2, <3>4, <4>2, <4>3
    <3>6. \A l \in DOMAIN moves : l <= m + 1 => \E p \in 1..Len(b) : b[p].item = l
      <4> SUFFICES ASSUME NEW l \in D, l <= m + 1
                   PROVE  \E p \in 1..(k + 1) : b[p].item = l
        BY <2>1, <3>2
      <4>1. CASE l = m + 1
        BY <3>1, <3>2, <4>1
      <4>2. CASE l # m + 1
        <5>1. l <= m
          BY <2>1, <2>4, <4>2
        <5>2. PICK p \in 1..k : a[p].item = l
          BY <2>1, <2>2, <5>1 DEF Enumerates, k
        <5> QED
          BY <3>2, <5>2
      <4> QED
        BY <4>1, <4>2
    <3>7. \A p, q \in 1..Len(b) : b[p].item = b[q].item => p = q
      <4>1. \A p, q \in 1..k : a[p].item = a[q].item => p = q
        BY <2>2 DEF Enumerates, k
      <4>2. \A p \in 1..k : a[p].item # m + 1
        BY <2>1, <2>4, <3>3
      <4>3. \A p \in 1..k : b[p].item = a[p].item
        BY <3>2
      <4> QED
        BY <3>1, <3>2, <3>4, <4>1, <4>2, <4>3
    <3> QED
      BY <3>5, <3>6, <3>7 DEF Enumerates, b
  <2>6. CASE m + 1 \notin D
    <3>1. b = a
      BY <2>3, <2>6
    <3>2. \A l \in D : l <= m + 1 <=> l <= m
      BY <2>1, <2>4, <2>6
    <3>3. \A p \in 1..Len(a) : a[p].item \in D
      BY <2>1, <2>2 DEF Enumerates
    <3> QED
      BY <2>1, <2>2, <3>1, <3>2, <3>3 DEF Enumerates, b
  <2> QED
    BY <2>5, <2>6
<1> HIDE DEF M
<1>4. M \in SUBSET Nat
  BY DEF M
<1>5. M = Nat
  BY <1>2, <1>3, <1>4, SetInduction
<1> QED
  BY <1>1, <1>5 DEF M

\* A ledger row is the one written for movement m.
SameMove(r, m) ==
    /\ r.type = m.type /\ r.key = m.key /\ r.quantity = m.quantity
    /\ r.unit_cost = m.unit_cost /\ r.amount = m.amount
    /\ r.source = m.source /\ r.item = m.item /\ r.reversed = m.reversed

\* Posting the movements of some lines adds one ledger row for each of them.
LEMMA RowsOfMoves ==
  ASSUME NEW D, NEW moves \in [D -> Row], NEW n \in Nat,
         StockTypeOK, ledger' = ledger \o Rows(InLineOrder(n, moves)),
         Enumerates(InLineOrder(n, moves), moves, n), D \subseteq 1..n
  PROVE  /\ Len(ledger) \in Nat /\ Len(ledger') \in Nat
         /\ Len(ledger') >= Len(ledger)
         /\ \A j \in 1..Len(ledger) : ledger'[j] = ledger[j]
         /\ \A j \in (Len(ledger) + 1)..Len(ledger') :
               /\ ledger'[j].item \in D
               /\ SameMove(ledger'[j], moves[ledger'[j].item])
         /\ \A l \in D : \E j \in (Len(ledger) + 1)..Len(ledger') :
               ledger'[j].item = l
         /\ \A j, h \in (Len(ledger) + 1)..Len(ledger') :
               ledger'[j].item = ledger'[h].item => j = h
<1> DEFINE b == InLineOrder(n, moves)
           R == Rows(b)
           N == Len(ledger)
<1>1. b \in Seq(Row)
  BY InLineOrderType
<1> HIDE DEF b
<1>2. /\ R \in Seq(Row) /\ Len(R) = Len(b) /\ ledger \in Seq(Row)
      /\ \A p \in 1..Len(b) :
            R[p] = [b[p] EXCEPT !.balance_after = BalanceAfter(b, p)]
  BY <1>1, RowsOfBatch DEF StockTypeOK
<1>3. ASSUME NEW p \in 1..Len(b) PROVE SameMove(R[p], b[p])
  <2>1. b[p] \in Row
    BY <1>1
  <2>2. \A r \in Row : \A x : SameMove([r EXCEPT !.balance_after = x], r)
    BY DEF Row, SameMove
  <2> HIDE DEF R
  <2> QED
    BY <1>2, <2>1, <2>2
<1> HIDE DEF R
<1>4. ledger' = ledger \o R
  BY DEF b, R
<1>5. /\ N \in Nat /\ Len(b) \in Nat /\ Len(ledger') = N + Len(b)
      /\ \A j \in 1..N : ledger'[j] = ledger[j]
      /\ \A p \in 1..Len(b) : ledger'[N + p] = R[p]
  <2>1. R \in Seq(Row) /\ Len(R) = Len(b) /\ ledger \in Seq(Row)
    BY <1>2
  <2>2. /\ N \in Nat /\ Len(R) \in Nat /\ Len(ledger \o R) = N + Len(R)
        /\ \A j \in 1..N : (ledger \o R)[j] = ledger[j]
        /\ \A p \in 1..Len(R) : (ledger \o R)[N + p] = R[p]
    <3>1. \A a, c \in Seq(Row) :
             /\ Len(a) \in Nat /\ Len(c) \in Nat /\ Len(a \o c) = Len(a) + Len(c)
             /\ \A i \in 1..Len(a) : (a \o c)[i] = a[i]
             /\ \A i \in 1..Len(c) : (a \o c)[Len(a) + i] = c[i]
      OBVIOUS
    <3> QED
      BY <2>1, <3>1, Zenon
  <2> QED
    BY <1>4, <2>1, <2>2, Zenon
<1>6. \A p \in 1..Len(b) : ledger'[N + p].item = b[p].item
  BY <1>3, <1>5 DEF SameMove
<1>7. /\ \A p \in 1..Len(b) : b[p].item \in D /\ b[p] = moves[b[p].item]
      /\ \A l \in D : \E p \in 1..Len(b) : b[p].item = l
      /\ \A p, q \in 1..Len(b) : b[p].item = b[q].item => p = q
  <2>1. DOMAIN moves = D /\ \A l \in D : l <= n
    OBVIOUS
  <2>2. Enumerates(b, moves, n)
    BY DEF b
  <2> QED
    BY <2>1, <2>2 DEF Enumerates
<1> HIDE DEF N
<1>8. \A j \in (N + 1)..Len(ledger') : j - N \in 1..Len(b) /\ N + (j - N) = j
  BY <1>5
<1>9. \A p \in 1..Len(b) : N + p \in (N + 1)..Len(ledger')
  BY <1>5
<1>10. ASSUME NEW j \in (N + 1)..Len(ledger')
       PROVE  /\ ledger'[j].item = b[j - N].item
              /\ ledger'[j].item \in D
              /\ SameMove(ledger'[j], moves[ledger'[j].item])
  <2> DEFINE p == j - N
  <2>1. p \in 1..Len(b) /\ N + p = j
    BY <1>8
  <2> HIDE DEF p
  <2>2. ledger'[j] = R[p] /\ ledger'[j].item = b[p].item
    BY <1>5, <1>6, <2>1
  <2>3. b[p].item \in D /\ b[p] = moves[b[p].item] /\ SameMove(R[p], b[p])
    BY <1>3, <1>7, <2>1
  <2> QED
    BY <2>2, <2>3 DEF p
<1>11. ASSUME NEW l \in D
       PROVE  \E j \in (N + 1)..Len(ledger') : ledger'[j].item = l
  <2>1. PICK p \in 1..Len(b) : b[p].item = l
    BY <1>7
  <2> QED
    BY <1>6, <1>9, <2>1
<1>12. ASSUME NEW j \in (N + 1)..Len(ledger'), NEW h \in (N + 1)..Len(ledger'),
              ledger'[j].item = ledger'[h].item
       PROVE  j = h
  <2>1. b[j - N].item = b[h - N].item
    BY <1>10, <1>12
  <2>2. j - N \in 1..Len(b) /\ h - N \in 1..Len(b)
    BY <1>8
  <2>3. \A p, q \in 1..Len(b) : b[p].item = b[q].item => p = q
    BY <1>7
  <2>4. j - N = h - N
    BY <2>1, <2>2, <2>3, Zenon
  <2> QED
    BY <1>5, <2>4
<1>13. Len(ledger') \in Nat /\ Len(ledger') >= N
  BY <1>5
<1> QED
  BY <1>5, <1>10, <1>11, <1>12, <1>13 DEF N

-----------------------------------------------------------------------------
(* The totals of a batch, line by line *)

LEMMA AppendTotals ==
  ASSUME NEW a \in Seq(Row), NEW x \in Row, NEW k
  PROVE  /\ QuantityOf(Append(a, x), k)
               = QuantityOf(a, k) + (IF x.key = k THEN x.quantity ELSE 0)
         /\ AmountOf(Append(a, x), k)
               = AmountOf(a, k) + (IF x.key = k THEN x.amount ELSE 0)
<1> DEFINE n == Len(a)
           b == Append(a, x)
           Q(s) == [i \in 1..Len(s) |-> IF s[i].key = k THEN s[i].quantity ELSE 0]
           A(s) == [i \in 1..Len(s) |-> IF s[i].key = k THEN s[i].amount ELSE 0]
<1>1. /\ b \in Seq(Row) /\ n \in Nat /\ Len(b) = n + 1 /\ b[n + 1] = x
      /\ \A i \in 1..n : b[i] = a[i]
  BY AppendedSeq
<1> HIDE DEF b
<1>2. \A i \in 1..Len(b) : b[i].quantity \in Int /\ b[i].amount \in Int
  BY <1>1, RowFields
<1> HIDE DEF n
<1>3. /\ \A i \in 1..n : i \in 1..(n + 1)
      /\ n + 1 \in 1..(n + 1)
  BY <1>1
<1>4. /\ \A i \in 1..(n + 1) :
            /\ Q(b)[i] = (IF b[i].key = k THEN b[i].quantity ELSE 0)
            /\ A(b)[i] = (IF b[i].key = k THEN b[i].amount ELSE 0)
      /\ \A i \in 1..n :
            /\ Q(a)[i] = (IF a[i].key = k THEN a[i].quantity ELSE 0)
            /\ A(a)[i] = (IF a[i].key = k THEN a[i].amount ELSE 0)
  BY <1>1 DEF n
<1>5. /\ QuantityOf(b, k) = SumUpTo(Q(b), n + 1)
      /\ QuantityOf(a, k) = SumUpTo(Q(a), n)
      /\ AmountOf(b, k) = SumUpTo(A(b), n + 1)
      /\ AmountOf(a, k) = SumUpTo(A(a), n)
  BY <1>1 DEF QuantityOf, QuantityUpTo, AmountOf, AmountUpTo, n
<1> HIDE DEF Q, A
<1>6. IntTerms(Q(b), n + 1) /\ IntTerms(A(b), n + 1)
  <2>1. \A i \in 1..(n + 1) : b[i].quantity \in Int /\ b[i].amount \in Int
    BY <1>1, <1>2
  <2>2. \A i \in 1..(n + 1) : Q(b)[i] \in Int /\ A(b)[i] \in Int
    BY <1>4, <2>1
  <2> QED
    BY <2>2 DEF IntTerms
<1>7. IntTerms(Q(b), n) /\ IntTerms(A(b), n)
  BY <1>3, <1>6 DEF IntTerms
<1>8. SameTerms(Q(b), Q(a), n) /\ SameTerms(A(b), A(a), n)
  BY <1>1, <1>3, <1>4 DEF SameTerms
<1>9. /\ SumUpTo(Q(b), n + 1) = SumUpTo(Q(b), n) + Q(b)[n + 1]
      /\ SumUpTo(A(b), n + 1) = SumUpTo(A(b), n) + A(b)[n + 1]
  BY <1>1, <1>6, SumStep
<1>10. /\ SumUpTo(Q(b), n) = SumUpTo(Q(a), n)
       /\ SumUpTo(A(b), n) = SumUpTo(A(a), n)
  BY <1>1, <1>7, <1>8, SumCongruence
<1>11. /\ Q(b)[n + 1] = (IF x.key = k THEN x.quantity ELSE 0)
       /\ A(b)[n + 1] = (IF x.key = k THEN x.amount ELSE 0)
  BY <1>1, <1>3, <1>4
<1> QED
  BY <1>5, <1>9, <1>10, <1>11 DEF b

\* The quantity and the amount that line l of moves moves under key k.
LineQuantity(moves, k, l) ==
    IF l \in DOMAIN moves THEN IF moves[l].key = k THEN moves[l].quantity ELSE 0
    ELSE 0

LineValue(moves, k, l) ==
    IF l \in DOMAIN moves THEN IF moves[l].key = k THEN moves[l].amount ELSE 0
    ELSE 0

\* The totals of a batch are sums over the lines of its document.
LEMMA InLineOrderTotals ==
  ASSUME NEW D, NEW moves \in [D -> Row], NEW n \in Nat, NEW k
  PROVE  /\ QuantityOf(InLineOrder(n, moves), k)
               = SumUpTo([l \in 1..n |-> LineQuantity(moves, k, l)], n)
         /\ AmountOf(InLineOrder(n, moves), k)
               = SumUpTo([l \in 1..n |-> LineValue(moves, k, l)], n)
<1> DEFINE f == [l \in 1..n |-> LineQuantity(moves, k, l)]
           g == [l \in 1..n |-> LineValue(moves, k, l)]
<1>1. PICK c : Batches(c, moves, Row, n) /\ InLineOrder(n, moves) = c[n]
  BY InLineOrderIs
<1>2. \A l \in D : moves[l].quantity \in Int /\ moves[l].amount \in Int
  <2>1. \A r \in Row : r.quantity \in Int /\ r.amount \in Int
    BY DEF Row
  <2>2. \A l \in D : moves[l] \in Row
    OBVIOUS
  <2> QED
    BY <2>1, <2>2, Zenon
<1>3. \A l \in 1..n : /\ f[l] = LineQuantity(moves, k, l) /\ f[l] \in Int
                      /\ g[l] = LineValue(moves, k, l) /\ g[l] \in Int
  BY <1>2 DEF LineQuantity, LineValue
<1> HIDE DEF f, g
<1> DEFINE M == {m \in Nat : m <= n => /\ QuantityOf(c[m], k) = SumUpTo(f, m)
                                      /\ AmountOf(c[m], k) = SumUpTo(g, m)}
<1>4. 0 \in M
  <2>1. c[0] = << >> /\ Len(c[0]) = 0
    BY <1>1 DEF Batches
  <2>2. \A h : SumUpTo(h, 0) = 0
    <3>1. \A h : IntTerms(h, 0)
      BY DEF IntTerms
    <3> QED
      BY <3>1, SumType
  <2>3. QuantityOf(c[0], k) = 0 /\ AmountOf(c[0], k) = 0
    BY <2>1, <2>2 DEF QuantityOf, QuantityUpTo, AmountOf, AmountUpTo
  <2> QED
    BY <2>2, <2>3
<1>5. ASSUME NEW m \in M PROVE m + 1 \in M
  <2> SUFFICES ASSUME m + 1 <= n
               PROVE  /\ QuantityOf(c[m + 1], k) = SumUpTo(f, m + 1)
                      /\ AmountOf(c[m + 1], k) = SumUpTo(g, m + 1)
    OBVIOUS
  <2> DEFINE a == c[m]
             b == c[m + 1]
  <2>1. /\ m \in Nat /\ m + 1 \in 1..n /\ m \in 0..n /\ (m + 1) - 1 = m
        /\ DOMAIN moves = D /\ \A i \in 1..(m + 1) : i \in 1..n
    OBVIOUS
  <2>2. a \in Seq(Row) /\ QuantityOf(a, k) = SumUpTo(f, m)
        /\ AmountOf(a, k) = SumUpTo(g, m)
    BY <1>1, <2>1 DEF Batches
  <2>3. b = IF m + 1 \in D THEN Append(a, moves[m + 1]) ELSE a
    BY <1>1, <2>1 DEF Batches
  <2>4. IntTerms(f, m + 1) /\ IntTerms(g, m + 1)
    BY <1>3, <2>1 DEF IntTerms
  <2>5. /\ SumUpTo(f, m + 1) = SumUpTo(f, m) + f[m + 1]
        /\ SumUpTo(g, m + 1) = SumUpTo(g, m) + g[m + 1]
    BY <2>1, <2>4, SumStep
  <2>6. SumUpTo(f, m) \in Int /\ SumUpTo(g, m) \in Int
    <3>1. IntTerms(f, m) /\ IntTerms(g, m)
      BY <2>1, <2>4 DEF IntTerms
    <3> QED
      BY <2>1, <3>1, SumType
  <2> HIDE DEF a, b
  <2>7. CASE m + 1 \in D
    <3>1. moves[m + 1] \in Row /\ b = Append(a, moves[m + 1])
      BY <2>3, <2>7
    <3>2. /\ QuantityOf(b, k) = QuantityOf(a, k)
                + (IF moves[m + 1].key = k THEN moves[m + 1].quantity ELSE 0)
          /\ AmountOf(b, k) = AmountOf(a, k)
                + (IF moves[m + 1].key = k THEN moves[m + 1].amount ELSE 0)
      BY <2>2, <3>1, AppendTotals
    <3>3. /\ f[m + 1] = (IF moves[m + 1].key = k THEN moves[m + 1].quantity ELSE 0)
          /\ g[m + 1] = (IF moves[m + 1].key = k THEN moves[m + 1].amount ELSE 0)
      BY <1>3, <2>1, <2>7 DEF LineQuantity, LineValue
    <3> QED
      BY <2>2, <2>5, <3>2, <3>3 DEF b
  <2>8. CASE m + 1 \notin D
    <3>1. f[m + 1] = 0 /\ g[m + 1] = 0
      BY <1>3, <2>1, <2>8 DEF LineQuantity, LineValue
    <3>2. b = a
      BY <2>3, <2>8
    <3> QED
      BY <2>2, <2>5, <2>6, <3>1, <3>2 DEF b
  <2> QED
    BY <2>7, <2>8
<1> HIDE DEF M
<1>6. M \in SUBSET Nat
  BY DEF M
<1>7. M = Nat
  BY <1>4, <1>5, <1>6, SetInduction
<1>8. QuantityOf(c[n], k) = SumUpTo(f, n) /\ AmountOf(c[n], k) = SumUpTo(g, n)
  BY <1>7 DEF M
<1> QED
  BY <1>1, <1>8, Zenon DEF f, g

-----------------------------------------------------------------------------
(* Batches whose movements are told apart by their lines or by their keys *)

\* at names, for every movement of the batch b, its line: every line of moves
\* up to m once.
Picks(at, b, moves, m) ==
    /\ \A p \in 1..Len(b) : /\ at[p] \in DOMAIN moves /\ at[p] <= m
                            /\ b[p] = moves[at[p]]
    /\ \A l \in DOMAIN moves : l <= m => \E p \in 1..Len(b) : at[p] = l
    /\ \A p, q \in 1..Len(b) : at[p] = at[q] => p = q

LEMMA InLineOrderPicks ==
  ASSUME NEW T, NEW n \in Nat, NEW D \in SUBSET (1..n), NEW moves \in [D -> T]
  PROVE  \E at : Picks(at, InLineOrder(n, moves), moves, n)
<1>1. PICK c : Batches(c, moves, T, n) /\ InLineOrder(n, moves) = c[n]
  BY InLineOrderIs
<1> DEFINE M == {m \in Nat : m <= n => \E at : Picks(at, c[m], moves, m)}
<1>2. 0 \in M
  <2>1. c[0] = << >> /\ Len(c[0]) = 0 /\ DOMAIN moves = D
    BY <1>1 DEF Batches
  <2>2. \A l \in D : ~(l <= 0)
    OBVIOUS
  <2>3. 1..Len(c[0]) = {}
    BY <2>1
  <2>4. Picks(<< >>, c[0], moves, 0)
    BY <2>1, <2>2, <2>3, Zenon DEF Picks
  <2> QED
    BY <2>4
<1>3. ASSUME NEW m \in M PROVE m + 1 \in M
  <2> SUFFICES ASSUME m + 1 <= n PROVE \E at : Picks(at, c[m + 1], moves, m + 1)
    OBVIOUS
  <2> DEFINE a == c[m]
             b == c[m + 1]
  <2>1. /\ m \in Nat /\ m + 1 \in 1..n /\ m \in 0..n /\ (m + 1) - 1 = m
        /\ DOMAIN moves = D /\ \A l \in D : l \in Nat
    OBVIOUS
  <2>2. a \in Seq(T)
    BY <1>1, <2>1 DEF Batches
  <2>3. PICK at : Picks(at, a, moves, m)
    BY <2>1
  <2>4. b = IF m + 1 \in D THEN Append(a, moves[m + 1]) ELSE a
    BY <1>1, <2>1 DEF Batches
  <2> HIDE DEF a, b
  <2>5. CASE m + 1 \in D
    <3> DEFINE k == Len(a)
               to == [p \in 1..(k + 1) |-> IF p = k + 1 THEN m + 1 ELSE at[p]]
    <3>1. /\ k \in Nat /\ Len(b) = k + 1 /\ b[k + 1] = moves[m + 1]
          /\ \A p \in 1..k : b[p] = a[p]
      BY <2>2, <2>4, <2>5, AppendedSeq
    <3>2. /\ to[k + 1] = m + 1 /\ \A p \in 1..k : to[p] = at[p]
          /\ \A p \in 1..(k + 1) : p \in 1..k \/ p = k + 1
          /\ k + 1 \in 1..(k + 1) /\ \A p \in 1..k : p \in 1..(k + 1)
      BY <3>1
    <3>3. \A p \in 1..k : at[p] \in D /\ at[p] <= m /\ a[p] = moves[at[p]]
      BY <2>1, <2>3 DEF Picks
    <3>4. \A l \in D : l <= m => \E p \in 1..k : at[p] = l
      BY <2>1, <2>3 DEF Picks
    <3>5. \A p, q \in 1..k : at[p] = at[q] => p = q
      BY <2>3 DEF Picks
    <3> HIDE DEF k, to
    <3>6. \A p \in 1..(k + 1) : /\ to[p] \in D /\ to[p] <= m + 1
                                /\ b[p] = moves[to[p]]
      <4>1. \A l \in D : l <= m => l <= m + 1
        BY <2>1
      <4>2. m + 1 <= m + 1
        BY <2>1
      <4> QED
        BY <2>5, <3>1, <3>2, <3>3, <4>1, <4>2, Zenon
    <3>7. \A l \in D : l <= m + 1 => \E p \in 1..(k + 1) : to[p] = l
      <4>1. \A l \in D : l <= m + 1 => l <= m \/ l = m + 1
        BY <2>1
      <4> QED
        BY <3>2, <3>4, <4>1, Zenon
    <3>8. \A p, q \in 1..(k + 1) : to[p] = to[q] => p = q
      <4>1. \A p \in 1..k : at[p] # m + 1
        BY <2>1, <3>3
      <4> QED
        BY <3>2, <3>5, <4>1, Zenon
    <3>9. Picks(to, b, moves, m + 1)
      BY <2>1, <3>1, <3>6, <3>7, <3>8, Zenon DEF Picks
    <3> QED
      BY <3>9 DEF b
  <2>6. CASE m + 1 \notin D
    <3>1. b = a
      BY <2>4, <2>6
    <3>2. \A l \in D : l <= m + 1 <=> l <= m
      BY <2>1, <2>6
    <3>3. Picks(at, b, moves, m + 1)
      BY <2>1, <2>3, <3>1, <3>2, Zenon DEF Picks
    <3> QED
      BY <3>3 DEF b
  <2> QED
    BY <2>5, <2>6
<1> HIDE DEF M
<1>4. M \in SUBSET Nat
  BY DEF M
<1>5. M = Nat
  BY <1>2, <1>3, <1>4, SetInduction
<1>6. n <= n
  OBVIOUS
<1> QED
  BY <1>1, <1>5, <1>6 DEF M

\* No two movements of the batch have the same key.
DistinctKeys(b) == \A p, q \in 1..Len(b) : b[p].key = b[q].key => p = q

\* The totals of a key are then those of its one movement.
LEMMA DistinctTotals ==
  ASSUME NEW b \in Seq(Row), DistinctKeys(b), NEW p \in 1..Len(b)
  PROVE  /\ QuantityUpTo(b, b[p].key, p) = b[p].quantity
         /\ QuantityOf(b, b[p].key) = b[p].quantity
         /\ AmountOf(b, b[p].key) = b[p].amount
<1> DEFINE n == Len(b)
           k == b[p].key
           f == [i \in 1..n |-> IF b[i].key = k THEN b[i].quantity ELSE 0]
           g == [i \in 1..n |-> IF b[i].key = k THEN b[i].amount ELSE 0]
<1>1. /\ n \in Nat /\ p \in 1..n /\ p \in Nat /\ p \in 1..p
      /\ \A i \in 1..p : i \in 1..n
  OBVIOUS
<1>2. b[p].quantity \in Int /\ b[p].amount \in Int
  BY RowFields
<1>3. /\ f[p] = b[p].quantity /\ g[p] = b[p].amount
      /\ \A i \in 1..n : i # p => f[i] = 0 /\ g[i] = 0
  BY DEF DistinctKeys
<1>4. /\ QuantityUpTo(b, k, p) = SumUpTo(f, p) /\ QuantityOf(b, k) = SumUpTo(f, n)
      /\ AmountOf(b, k) = SumUpTo(g, n)
  BY DEF QuantityUpTo, AmountUpTo, QuantityOf, AmountOf
<1> HIDE DEF f, g, n, k
<1>5. SumUpTo(f, n) = f[p] /\ SumUpTo(g, n) = g[p]
  BY <1>1, <1>2, <1>3, SumOfOne
<1>6. SumUpTo(f, p) = f[p]
  <2>1. \A i \in 1..p : i # p => f[i] = 0
    BY <1>1, <1>3
  <2> QED
    BY <1>1, <1>2, <1>3, <2>1, SumOfOne
<1> QED
  BY <1>3, <1>4, <1>5, <1>6 DEF k

\* Posting adds one ledger row for each movement, behind the rows there are.
LEMMA PostedRows ==
  ASSUME StockTypeOK, NEW b \in Seq(Row), Posted(b)
  PROVE  /\ Len(ledger) \in Nat /\ Len(b) \in Nat
         /\ Len(ledger') = Len(ledger) + Len(b)
         /\ \A j \in 1..Len(ledger) : ledger'[j] = ledger[j]
         /\ \A p \in 1..Len(b) :
               /\ SameMove(ledger'[Len(ledger) + p], b[p])
               /\ ledger'[Len(ledger) + p].balance_after = BalanceAfter(b, p)
         /\ \A j \in (Len(ledger) + 1)..Len(ledger') :
               \E p \in 1..Len(b) : j = Len(ledger) + p
<1> DEFINE R == Rows(b)
           N == Len(ledger)
<1>1. /\ R \in Seq(Row) /\ Len(R) = Len(b) /\ ledger \in Seq(Row)
      /\ \A p \in 1..Len(b) :
            /\ R[p] = [b[p] EXCEPT !.balance_after = BalanceAfter(b, p)]
            /\ R[p].balance_after = BalanceAfter(b, p)
  BY RowsOfBatch DEF StockTypeOK
<1> HIDE DEF R
<1>2. ASSUME NEW p \in 1..Len(b) PROVE SameMove(R[p], b[p])
  <2>1. b[p] \in Row
    OBVIOUS
  <2>2. \A r \in Row : \A x : SameMove([r EXCEPT !.balance_after = x], r)
    BY DEF Row, SameMove
  <2> QED
    BY <1>1, <2>1, <2>2
<1>3. ledger' = ledger \o R
  BY DEF Posted, R
<1>4. \A a, c \in Seq(Row) :
         /\ Len(a) \in Nat /\ Len(c) \in Nat /\ Len(a \o c) = Len(a) + Len(c)
         /\ \A i \in 1..Len(a) : (a \o c)[i] = a[i]
         /\ \A i \in 1..Len(c) : (a \o c)[Len(a) + i] = c[i]
  OBVIOUS
<1>5. /\ N \in Nat /\ Len(b) \in Nat /\ Len(ledger') = N + Len(b)
      /\ \A j \in 1..N : ledger'[j] = ledger[j]
      /\ \A p \in 1..Len(b) : ledger'[N + p] = R[p]
  <2>1. R \in Seq(Row) /\ Len(R) = Len(b) /\ ledger \in Seq(Row)
    BY <1>1
  <2>2. /\ N \in Nat /\ Len(R) \in Nat /\ Len(ledger \o R) = N + Len(R)
        /\ \A j \in 1..N : (ledger \o R)[j] = ledger[j]
        /\ \A p \in 1..Len(R) : (ledger \o R)[N + p] = R[p]
    BY <1>4, <2>1, Zenon
  <2> QED
    BY <1>3, <2>1, <2>2, Zenon
<1>6. \A j \in (N + 1)..Len(ledger') : \E p \in 1..Len(b) : j = N + p
  <2> TAKE j \in (N + 1)..Len(ledger')
  <2>1. j - N \in 1..Len(b) /\ j = N + (j - N)
    BY <1>5
  <2> QED
    BY <2>1
<1>7. \A p \in 1..Len(b) :
         /\ SameMove(ledger'[N + p], b[p])
         /\ ledger'[N + p].balance_after = BalanceAfter(b, p)
  BY <1>1, <1>2, <1>5, Zenon
<1> HIDE DEF N
<1> QED
  BY <1>5, <1>6, <1>7 DEF N

=============================================================================
