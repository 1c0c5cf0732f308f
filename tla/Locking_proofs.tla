--------------------------- MODULE Locking_proofs ---------------------------
(***************************************************************************)
(* No cross waits, for every number of sessions, orders, receipts, counts, *)
(* materials and dates, as long as the deliveries of an order share a      *)
(* balance (WholeDeliveries).                                              *)
(*                                                                         *)
(* The rows are ranked: document, balances by material, receipt counter,   *)
(* and the ledger counter with the order and its lines.  A request asks in *)
(* this order, so among the requests of a circle one waits for a row of    *)
(* the highest rank, and of those one is first in the queue of its row:    *)
(* nobody in the circle has what it waits for.  The last rank is the hard  *)
(* one, since lines, order and counter are taken there in several orders;  *)
(* but a request that came so far holds its balances, and two receipts of  *)
(* one order have a balance in common, so nobody waits for a line or for   *)
(* an order that has receipts.                                             *)
(***************************************************************************)
EXTENDS Locking, FiniteSetTheorems, SequenceTheorems, TLAPS

-----------------------------------------------------------------------------
(* Finite sets of integers *)

\* Every non-empty set of naturals has a least element.
LEMMA LeastNatural ==
  ASSUME NEW T \in SUBSET Nat, T # {}
  PROVE  \E x \in T : \A y \in T : x <= y
<1> DEFINE R == OpToRel(<, Nat)
<1>1. IsWellFoundedOn(R, Nat)
  BY NatLessThanWellFounded, Zenon
<1>2. \A x, y \in Nat : x < y => <<x, y>> \in R
  BY DEF OpToRel
<1> HIDE DEF R
<1>3. PICK x \in T : \A y \in T : ~ (<<y, x>> \in R)
  BY <1>1, WFMin
<1>4. \A y \in T : ~ (y < x)
  BY <1>2, <1>3, Zenon
<1>5. \A y \in T : x <= y
  BY <1>4, SMT
<1> QED
  BY <1>5

\* Induction over the naturals, on sets.
LEMMA SetInduction ==
  ASSUME NEW T \in SUBSET Nat, 0 \in T, \A n \in T : n + 1 \in T
  PROVE  T = Nat
<1> SUFFICES ASSUME Nat \ T # {} PROVE FALSE
  OBVIOUS
<1>1. PICK x \in Nat \ T : \A y \in Nat \ T : x <= y
  BY LeastNatural
<1>2. x - 1 \in T
  BY <1>1
<1> QED
  BY <1>2

LEMMA OneLess ==
  ASSUME NEW t, IsFiniteSet(t), NEW a \in t, NEW n \in Nat, Cardinality(t) = n + 1
  PROVE  IsFiniteSet(t \ {a}) /\ Cardinality(t \ {a}) = n
<1>1. IsFiniteSet(t \ {a}) /\ Cardinality(t \ {a}) = Cardinality(t) - 1
  BY FS_RemoveElement, Zenon
<1>2. \A c, d : c = n + 1 /\ d = c - 1 => d = n
  OBVIOUS
<1> QED
  BY <1>1, <1>2, Zenon

\* A member of set where f is largest.
IsTop(f, set, x) == x \in set /\ \A y \in set : f[y] <= f[x]

\* An integer function has a largest value on a finite set.
LEMMA FiniteTop ==
  ASSUME NEW f, NEW set, IsFiniteSet(set), set # {}, \A x \in set : f[x] \in Int
  PROVE  \E x : IsTop(f, set, x)
<1> DEFINE P(n) == \A t \in SUBSET set :
                      IsFiniteSet(t) /\ Cardinality(t) = n /\ t # {}
                         => \E x : IsTop(f, t, x)
           T == {n \in Nat : P(n)}
<1>1. 0 \in T
  <2>1. P(0)
    BY FS_EmptySet
  <2> QED
    BY <2>1
<1>2. ASSUME NEW n \in T PROVE n + 1 \in T
  <2> SUFFICES ASSUME NEW t \in SUBSET set, IsFiniteSet(t), Cardinality(t) = n + 1, t # {}
               PROVE  \E x : IsTop(f, t, x)
    OBVIOUS
  <2>1. PICK a : a \in t
    OBVIOUS
  <2> DEFINE u == t \ {a}
  <2>2. IsFiniteSet(u) /\ Cardinality(u) = n
    BY <2>1, OneLess
  <2>3. f[a] \in Int /\ u \in SUBSET set
    BY <2>1
  <2>4. CASE u = {}
    <3>1. IsTop(f, t, a)
      BY <2>1, <2>3, <2>4 DEF IsTop
    <3> QED
      BY <3>1
  <2>5. CASE u # {}
    <3>1. PICK b : IsTop(f, u, b)
      BY <2>2, <2>3, <2>5
    <3>2. b \in t /\ f[b] \in Int /\ \A y \in t : f[y] \in Int
      BY <2>3, <3>1 DEF IsTop
    <3>3. \A y \in t : y = a \/ f[y] <= f[b]
      BY <3>1 DEF IsTop
    <3>4. CASE f[a] <= f[b]
      <4>1. IsTop(f, t, b)
        BY <3>2, <3>3, <3>4 DEF IsTop
      <4> QED
        BY <4>1
    <3>5. CASE ~(f[a] <= f[b])
      <4>1. \A y \in t : f[y] <= f[a]
        BY <2>3, <3>2, <3>3, <3>5
      <4>2. IsTop(f, t, a)
        BY <2>1, <4>1 DEF IsTop
      <4> QED
        BY <4>2
    <3> QED
      BY <3>4, <3>5
  <2> QED
    BY <2>4, <2>5
<1>3. T = Nat
  <2> HIDE DEF P
  <2>1. T \in SUBSET Nat /\ \A n \in T : n + 1 \in T
    BY <1>2
  <2> QED
    BY <1>1, <2>1, SetInduction
<1>4. Cardinality(set) \in Nat
  BY FS_CardinalityType
<1>5. P(Cardinality(set))
  BY <1>3, <1>4
<1> QED
  BY <1>5

\* f lists the members of set in ascending order.
Lists(f, set, n) == /\ f \in [1..n -> set]
                    /\ Range(f) = set
                    /\ \A i, j \in 1..n : i < j => f[i] < f[j]

LEMMA SortedExists ==
  ASSUME NEW set \in SUBSET Int, IsFiniteSet(set)
  PROVE  \E f : Lists(f, set, Cardinality(set))
<1> DEFINE P(n) == \A t \in SUBSET Int :
                      IsFiniteSet(t) /\ Cardinality(t) = n => \E f : Lists(f, t, n)
           T == {n \in Nat : P(n)}
<1>1. 0 \in T
  <2> SUFFICES ASSUME NEW t \in SUBSET Int, IsFiniteSet(t), Cardinality(t) = 0
               PROVE  \E f : Lists(f, t, 0)
    OBVIOUS
  <2>1. t = {}
    BY FS_EmptySet
  <2>2. Lists([i \in 1..0 |-> 0], t, 0)
    BY <2>1 DEF Lists, Range
  <2> QED
    BY <2>2
<1>2. ASSUME NEW n \in T PROVE n + 1 \in T
  <2> SUFFICES ASSUME NEW t \in SUBSET Int, IsFiniteSet(t), Cardinality(t) = n + 1
               PROVE  \E f : Lists(f, t, n + 1)
    OBVIOUS
  <2>1. n \in Nat /\ t # {}
    BY FS_EmptySet
  <2> DEFINE id == [x \in t |-> x]
  <2>2. \A x \in t : id[x] = x /\ id[x] \in Int
    OBVIOUS
  <2> HIDE DEF id
  <2>3. PICK a : IsTop(id, t, a)
    BY <2>1, <2>2, FiniteTop
  <2>4. a \in t /\ a \in Int /\ \A y \in t : y <= a
    BY <2>2, <2>3 DEF IsTop
  <2> DEFINE u == t \ {a}
  <2>5. IsFiniteSet(u) /\ Cardinality(u) = n /\ u \in SUBSET Int
    BY <2>1, <2>4, OneLess
  <2>6. PICK g : Lists(g, u, n)
    BY <2>5
  <2> DEFINE f == [i \in 1..(n + 1) |-> IF i = n + 1 THEN a ELSE g[i]]
  <2>7. \A i \in 1..n : i \in 1..(n + 1) /\ i # n + 1 /\ f[i] = g[i] /\ g[i] \in u
    BY <2>1, <2>6 DEF Lists
  <2>8. f[n + 1] = a /\ n + 1 \in 1..(n + 1)
    BY <2>1
  <2>9. \A i \in 1..(n + 1) : i = n + 1 \/ i \in 1..n
    BY <2>1
  <2>10. f \in [1..(n + 1) -> t]
    BY <2>4, <2>7, <2>9
  <2>11. Range(f) = t
    <3>1. \A x \in t : \E i \in 1..(n + 1) : f[i] = x
      <4> TAKE x \in t
      <4>1. CASE x = a
        BY <2>8, <4>1
      <4>2. CASE x # a
        <5>1. x \in Range(g)
          BY <2>6, <4>2 DEF Lists
        <5>2. PICK i \in 1..n : g[i] = x
          BY <2>6, <5>1 DEF Lists, Range
        <5> QED
          BY <2>7, <5>2
      <4> QED
        BY <4>1, <4>2
    <3>2. DOMAIN f = 1..(n + 1)
      OBVIOUS
    <3>3. \A x : x \in Range(f) <=> \E i \in 1..(n + 1) : f[i] = x
      BY <3>2, Zenon DEF Range
    <3> QED
      BY <2>10, <3>1, <3>3
  <2>12. ASSUME NEW i \in 1..(n + 1), NEW j \in 1..(n + 1), i < j PROVE f[i] < f[j]
    <3>1. i \in 1..n
      BY <2>1, <2>12
    <3>2. CASE j = n + 1
      <4>1. g[i] \in t /\ g[i] # a /\ g[i] \in Int
        BY <2>5, <2>7, <3>1
      <4>2. g[i] < a
        BY <2>4, <4>1
      <4> QED
        BY <2>7, <2>8, <3>1, <3>2, <4>2
    <3>3. CASE j \in 1..n
      BY <2>6, <2>7, <2>12, <3>1, <3>3 DEF Lists
    <3> QED
      BY <2>9, <3>2, <3>3
  <2> HIDE DEF f
  <2>13. Lists(f, t, n + 1)
    BY <2>10, <2>11, <2>12 DEF Lists
  <2> QED
    BY <2>13
<1>3. T = Nat
  <2> HIDE DEF P
  <2>1. T \in SUBSET Nat /\ \A n \in T : n + 1 \in T
    BY <1>2
  <2> QED
    BY <1>1, <2>1, SetInduction
<1>4. Cardinality(set) \in Nat
  BY FS_CardinalityType
<1>5. P(Cardinality(set))
  BY <1>3, <1>4
<1> QED
  BY <1>5

LEMMA AscendingLists ==
  ASSUME NEW set \in SUBSET Int, IsFiniteSet(set)
  PROVE  Lists(Ascending(set), set, Cardinality(set)) /\ Cardinality(set) \in Nat
<1>1. PICK f : Lists(f, set, Cardinality(set))
  BY SortedExists
<1>2. Lists(Ascending(set), set, Cardinality(set))
  BY <1>1, Zenon DEF Lists, Ascending
<1> QED
  BY <1>2, FS_CardinalityType

-----------------------------------------------------------------------------
(* The order in which a request asks *)

Rank(row) == IF row[1] \in {"receipt", "count"} THEN 0
             ELSE IF row[1] = "balance" THEN 1
             ELSE IF row[1] = "sequence" /\ row[2] = "RCV" THEN 2
             ELSE 3

\* Row x may come before row y in a request: in the last rank anything goes,
\* except that a request draws on one ledger counter.
Precedes(x, y) == \/ Rank(x) < Rank(y)
                  \/ Rank(x) = 1 /\ Rank(y) = 1 /\ x[3] < y[3]
                  \/ /\ Rank(x) = 3 /\ Rank(y) = 3
                     /\ x[1] = "sequence" /\ y[1] = "sequence" => x = y

\* p asks only for locks in set, and for their rows in order.
AsksIn(p, set) ==
    /\ p \in Seq(set)
    /\ \A k, a \in 1..Len(p) : k < a => Precedes(p[k].row, p[a].row)

\* p asks for all locks in set.
AsksFor(p, set) == \A x \in set : \E k \in 1..Len(p) : p[k] = x

Balances(w, materials) == {X(<<"balance", w, m>>) : m \in materials}

\* What a request asks for after its balances and the number of its receipt.
LastLocks(r, d) == {X(<<"order", r.order>>), S(<<"order", r.order>>),
                    X(<<"sequence", "TXN", d>>)}
                   \cup {X(<<"line", l>>) : l \in Range(r.lines)}

ReceiptLocks(r, d) == {X(<<"receipt", r.id>>), X(<<"sequence", "RCV", d>>)}
                      \cup Balances(r.warehouse, Range(MaterialsOf(r)))
                      \cup LastLocks(r, d)

CountLocks(c, d) == {X(<<"count", c.id>>), X(<<"sequence", "TXN", d>>)}
                    \cup Balances(c.warehouse, Range(c.materials))

LEMMA Ranks ==
  /\ \A x : Rank(<<"receipt", x>>) = 0 /\ Rank(<<"count", x>>) = 0
  /\ \A w, m : Rank(<<"balance", w, m>>) = 1 /\ <<"balance", w, m>>[3] = m
  /\ \A d : Rank(<<"sequence", "RCV", d>>) = 2 /\ Rank(<<"sequence", "TXN", d>>) = 3
  /\ \A x : Rank(<<"order", x>>) = 3 /\ Rank(<<"line", x>>) = 3
  /\ \A x : <<"order", x>>[1] # "sequence" /\ <<"line", x>>[1] # "sequence"
BY DEF Rank

LEMMA LockFields == \A row : /\ X(row).row = row /\ X(row).mode = "X"
                             /\ S(row).row = row /\ S(row).mode = "S"
BY DEF X, S

\* One sequence of locks after another.
LEMMA Joined ==
  ASSUME NEW p, NEW q, NEW A, NEW B, AsksIn(p, A), AsksIn(q, B),
         \A x \in A, y \in B : Precedes(x.row, y.row)
  PROVE  /\ AsksIn(p \o q, A \cup B)
         /\ \A set : AsksFor(p, set) \/ AsksFor(q, set) => AsksFor(p \o q, set)
<1>1. p \in Seq(A \cup B) /\ q \in Seq(A \cup B)
  BY DEF AsksIn
<1>2. Len(p) \in Nat /\ Len(q) \in Nat
  BY <1>1
<1>3. /\ p \o q \in Seq(A \cup B) /\ Len(p \o q) = Len(p) + Len(q)
      /\ \A i \in 1..(Len(p) + Len(q)) :
            (p \o q)[i] = IF i <= Len(p) THEN p[i] ELSE q[i - Len(p)]
  BY <1>1, ConcatProperties
<1> DEFINE m == Len(p)
           n == Len(q)
           pq == p \o q
<1>4. \A i \in 1..m : i \in 1..(m + n) /\ pq[i] = p[i] /\ p[i] \in A
  BY <1>2, <1>3 DEF AsksIn
<1>5. \A i \in 1..n : m + i \in 1..(m + n) /\ pq[m + i] = q[i] /\ q[i] \in B
  BY <1>2, <1>3 DEF AsksIn
<1>6. \A i \in 1..(m + n) : i \in 1..m \/ \E j \in 1..n : i = m + j
  <2> TAKE i \in 1..(m + n)
  <2>1. CASE i <= m
    BY <1>2, <2>1
  <2>2. CASE ~(i <= m)
    <3>1. i - m \in 1..n /\ i = m + (i - m)
      BY <1>2, <2>2
    <3> QED
      BY <3>1
  <2> QED
    BY <2>1, <2>2
<1> HIDE DEF pq, m, n
<1>7. ASSUME NEW k \in 1..(m + n), NEW a \in 1..(m + n), k < a
      PROVE  Precedes(pq[k].row, pq[a].row)
  <2>1. CASE a \in 1..m
    <3>1. k \in 1..m
      BY <1>2, <1>7, <2>1 DEF m
    <3> QED
      BY <1>4, <1>7, <2>1, <3>1 DEF AsksIn, m
  <2>2. CASE \E j \in 1..n : a = m + j
    <3>1. PICK j \in 1..n : a = m + j
      BY <2>2
    <3>2. CASE k \in 1..m
      BY <1>4, <1>5, <3>1, <3>2
    <3>3. CASE \E i \in 1..n : k = m + i
      <4>1. PICK i \in 1..n : k = m + i
        BY <3>3
      <4>2. i < j
        BY <1>2, <1>7, <3>1, <4>1 DEF m, n
      <4> QED
        BY <1>5, <3>1, <4>1, <4>2 DEF AsksIn, n
    <3> QED
      BY <1>6, <3>2, <3>3
  <2> QED
    BY <1>6, <2>1, <2>2
<1>8. AsksIn(pq, A \cup B)
  BY <1>3, <1>7, Zenon DEF AsksIn, pq, m, n
<1>9. ASSUME NEW set, AsksFor(p, set) \/ AsksFor(q, set)
      PROVE  AsksFor(pq, set)
  <2> SUFFICES ASSUME NEW x \in set PROVE \E k \in 1..(m + n) : pq[k] = x
    BY <1>3 DEF AsksFor, pq, m, n
  <2>1. CASE AsksFor(p, set)
    <3>1. PICK k \in 1..m : p[k] = x
      BY <2>1 DEF AsksFor, m
    <3> QED
      BY <1>4, <3>1
  <2>2. CASE AsksFor(q, set)
    <3>1. PICK k \in 1..n : q[k] = x
      BY <2>2 DEF AsksFor, n
    <3> QED
      BY <1>5, <3>1
  <2> QED
    BY <1>9, <2>1, <2>2
<1> QED
  BY <1>8, <1>9 DEF pq

LEMMA SingleLock ==
  ASSUME NEW x, NEW set, x \in set
  PROVE  AsksIn(<<x>>, set) /\ AsksIn(<< >>, set)
BY DEF AsksIn

\* The materials of a document are finitely many integers.
LEMMA MaterialsType ==
  /\ \A r \in Receipts : MaterialsOf(r) \in Seq(Int)
  /\ \A c \in Counts : c.materials \in Seq(Int)
<1>1. ASSUME NEW r \in Receipts PROVE MaterialsOf(r) \in Seq(Int)
  <2>1. r.lines \in Seq(DOMAIN MaterialOf)
    BY LockingAssumption
  <2>2. \A i \in 1..Len(r.lines) : r.lines[i] \in DOMAIN MaterialOf
    BY <2>1
  <2>3. \A i \in 1..Len(r.lines) : MaterialOf[r.lines[i]] \in Int
    BY <2>2, LockingAssumption
  <2>4. Len(r.lines) \in Nat
    BY <2>1
  <2> QED
    BY <2>3, <2>4 DEF MaterialsOf
<1> QED
  BY <1>1, LockingAssumption

LEMMA RangeIsFinite ==
  ASSUME NEW seq \in Seq(Int)
  PROVE  Range(seq) \in SUBSET Int /\ IsFiniteSet(Range(seq))
<1>1. DOMAIN seq = 1..Len(seq) /\ Len(seq) \in Nat /\ \A i \in 1..Len(seq) : seq[i] \in Int
  OBVIOUS
<1>2. Range(seq) \in SUBSET Int
  BY <1>1 DEF Range
<1>3. seq \in [1..Len(seq) -> Range(seq)]
  BY <1>1 DEF Range
<1>4. \A y \in Range(seq) : \E i \in 1..Len(seq) : seq[i] = y
  BY <1>1, Zenon DEF Range
<1>5. seq \in Surjection(1..Len(seq), Range(seq))
  BY <1>3, <1>4 DEF Surjection
<1>6. IsFiniteSet(1..Len(seq))
  BY <1>1, FS_Interval
<1> QED
  BY <1>2, <1>5, <1>6, FS_Surjection

\* lock_balances asks for every balance of the document, by material.
LEMMA BalanceLocks ==
  ASSUME NEW w, NEW materials \in Seq(Int)
  PROVE  /\ AsksIn(LockBalances(w, materials), Balances(w, Range(materials)))
         /\ AsksFor(LockBalances(w, materials), Balances(w, Range(materials)))
<1> DEFINE set == Range(materials)
           n == Cardinality(set)
           f == Ascending(set)
           p == LockBalances(w, materials)
<1>1. n \in Nat /\ Lists(f, set, n) /\ set \in SUBSET Int
  BY RangeIsFinite, AscendingLists
<1>2. /\ f \in [1..n -> set] /\ Range(f) = set
      /\ \A i, j \in 1..n : i < j => f[i] < f[j]
  BY <1>1, Zenon DEF Lists
<1> HIDE DEF f, n, set
<1>3. Len(f) = n
  BY <1>1, <1>2
<1>4. p = [i \in 1..n |-> X(<<"balance", w, f[i]>>)]
  BY <1>3, Zenon DEF LockBalances, SortedKeys, f, set
<1> HIDE DEF p
<1>5. /\ Len(p) = n
      /\ \A i \in 1..n : p[i] = X(<<"balance", w, f[i]>>)
  BY <1>1, <1>4
<1>6. \A i \in 1..n : p[i] \in Balances(w, set)
  BY <1>2, <1>5 DEF Balances
<1>7. p \in Seq(Balances(w, set))
  BY <1>1, <1>4, <1>5, <1>6
<1>8. ASSUME NEW k \in 1..n, NEW a \in 1..n, k < a PROVE Precedes(p[k].row, p[a].row)
  <2>1. p[k].row = <<"balance", w, f[k]>> /\ p[a].row = <<"balance", w, f[a]>>
    BY <1>5, LockFields
  <2>2. f[k] < f[a]
    BY <1>2, <1>8
  <2>3. /\ Rank(<<"balance", w, f[k]>>) = 1 /\ <<"balance", w, f[k]>>[3] = f[k]
        /\ Rank(<<"balance", w, f[a]>>) = 1 /\ <<"balance", w, f[a]>>[3] = f[a]
    BY Ranks
  <2> QED
    BY <2>1, <2>2, <2>3 DEF Precedes
<1>9. AsksIn(p, Balances(w, set))
  BY <1>5, <1>7, <1>8 DEF AsksIn
<1>10. ASSUME NEW x \in Balances(w, set) PROVE \E k \in 1..n : p[k] = x
  <2>1. PICK m \in set : x = X(<<"balance", w, m>>)
    BY DEF Balances
  <2>2. PICK k \in 1..n : f[k] = m
    BY <1>2, <2>1 DEF Range
  <2> QED
    BY <1>5, <2>1, <2>2
<1>11. AsksFor(p, Balances(w, set))
  BY <1>5, <1>10 DEF AsksFor
<1> QED
  BY <1>9, <1>11 DEF p, set

\* Locks of the last rank come in any order.
LEMMA LastInAnyOrder ==
  ASSUME NEW r, NEW d
  PROVE  /\ \A x, y \in LastLocks(r, d) : Precedes(x.row, y.row)
         /\ \A x \in LastLocks(r, d) : Rank(x.row) = 3
<1>1. ASSUME NEW x \in LastLocks(r, d)
      PROVE  Rank(x.row) = 3 /\ (x.row[1] = "sequence" => x.row = <<"sequence", "TXN", d>>)
  <2>1. \/ x.row = <<"order", r.order>> \/ x.row = <<"sequence", "TXN", d>>
        \/ \E l : x.row = <<"line", l>>
    <3>1. \/ x = X(<<"order", r.order>>) \/ x = S(<<"order", r.order>>)
          \/ x = X(<<"sequence", "TXN", d>>)
          \/ \E l \in Range(r.lines) : x = X(<<"line", l>>)
      BY Zenon DEF LastLocks
    <3>2. CASE x = X(<<"order", r.order>>) \/ x = S(<<"order", r.order>>)
      BY <3>2, LockFields
    <3>3. CASE x = X(<<"sequence", "TXN", d>>)
      BY <3>3, LockFields
    <3>4. CASE \E l \in Range(r.lines) : x = X(<<"line", l>>)
      <4>1. PICK l \in Range(r.lines) : x = X(<<"line", l>>)
        BY <3>4
      <4>2. x.row = <<"line", l>>
        BY <4>1, LockFields
      <4> QED
        BY <4>2
    <3> QED
      BY <3>1, <3>2, <3>3, <3>4
  <2> QED
    BY <2>1, Ranks
<1> QED
  BY <1>1 DEF Precedes

LEMMA LineLocks ==
  ASSUME NEW r \in Receipts, NEW d
  PROVE  AsksIn(LockLines(r, d), LastLocks(r, d))
<1> DEFINE n == Len(r.lines)
           p == LockLines(r, d)
           row(i) == <<"line", r.lines[(i + 1) \div 2]>>
           txn == X(<<"sequence", "TXN", d>>)
<1>1. n \in Nat /\ \A i \in 1..n : r.lines[i] \in Range(r.lines)
  <2>1. r.lines \in Seq(DOMAIN MaterialOf)
    BY LockingAssumption
  <2>2. DOMAIN r.lines = 1..n /\ n \in Nat
    BY <2>1
  <2> QED
    BY <2>2 DEF Range
<1>2. \A i \in 1..2 * n : i % 2 = 1 => (i + 1) \div 2 \in 1..n
  BY <1>1
<1>3. p = [i \in 1..2 * n |-> IF i % 2 = 1 THEN X(row(i)) ELSE txn]
  BY Zenon DEF LockLines, LockSequence
<1> HIDE DEF p
<1>4. \A i \in 1..2 * n : IF i % 2 = 1 THEN X(row(i)) \in LastLocks(r, d)
                                       ELSE txn \in LastLocks(r, d)
  BY <1>1, <1>2 DEF LastLocks
<1>5. \A i \in 1..2 * n : p[i] \in LastLocks(r, d)
  BY <1>3, <1>4
<1>6. p \in Seq(LastLocks(r, d)) /\ Len(p) = 2 * n
  <2> HIDE DEF row, txn
  <2>1. p \in [1..2 * n -> LastLocks(r, d)]
    BY <1>3, <1>5
  <2>2. 2 * n \in Nat
    BY <1>1
  <2> HIDE DEF n
  <2> QED
    BY <2>1, <2>2
<1> QED
  BY <1>5, <1>6, LastInAnyOrder DEF AsksIn, p

LEMMA FewerLocks ==
  ASSUME NEW p, NEW A, NEW B, AsksIn(p, A), A \subseteq B
  PROVE  AsksIn(p, B)
BY DEF AsksIn

\* The balances of a request come before what has the last rank, and after
\* its document.
LEMMA BalancesRank ==
  ASSUME NEW w, NEW materials, NEW x \in Balances(w, materials)
  PROVE  Rank(x.row) = 1
<1>1. PICK m \in materials : x = X(<<"balance", w, m>>)
  BY DEF Balances
<1> QED
  BY <1>1, LockFields, Ranks

\* The requests of the model, and what each asks for.
IsReceiptRequest(p, r, d) ==
    /\ r \in Receipts
    /\ AsksIn(p, ReceiptLocks(r, d))
    /\ AsksFor(p, Balances(r.warehouse, Range(MaterialsOf(r))))

IsCountRequest(p, c, d) == c \in Counts /\ AsksIn(p, CountLocks(c, d))

LEMMA CreateReceiptAsks ==
  ASSUME NEW r \in Receipts, NEW d, NEW c \in BOOLEAN
  PROVE  IsReceiptRequest(CreateReceipt(r, d, c), r, d)
<1> DEFINE bal == Balances(r.warehouse, Range(MaterialsOf(r)))
           rcv == X(<<"sequence", "RCV", d>>)
           last == LastLocks(r, d)
           p1 == LockBalances(r.warehouse, MaterialsOf(r))
           p2 == LockSequence("RCV", d)
           p3 == <<S(<<"order", r.order>>)>>
           p4 == LockLines(r, d)
           p5 == LockStatus(r.order, c)
<1>1. AsksIn(p1, bal) /\ AsksFor(p1, bal)
  BY MaterialsType, BalanceLocks
<1>2. AsksIn(p2, {rcv})
  BY SingleLock DEF LockSequence
<1>3. AsksIn(p3, last)
  BY SingleLock DEF LastLocks
<1>4. AsksIn(p4, last)
  BY LineLocks
<1>5. AsksIn(p5, last)
  <2>1. X(<<"order", r.order>>) \in last
    BY DEF LastLocks
  <2> QED
    BY <2>1, SingleLock DEF LockStatus
<1>6. Rank(rcv.row) = 2
  BY LockFields, Ranks
<1>7. \A x \in bal : Rank(x.row) = 1
  BY BalancesRank
<1>8. /\ \A x \in last : Rank(x.row) = 3
      /\ \A x, y \in last : Precedes(x.row, y.row)
  BY LastInAnyOrder
<1> HIDE DEF bal, rcv, last, p1, p2, p3, p4, p5
<1>9. AsksIn(p1 \o p2, bal \cup {rcv}) /\ AsksFor(p1 \o p2, bal)
  <2>1. \A x \in bal, y \in {rcv} : Precedes(x.row, y.row)
    BY <1>6, <1>7 DEF Precedes
  <2> QED
    BY <1>1, <1>2, <2>1, Joined
<1> DEFINE q == p1 \o p2
           A == bal \cup {rcv}
<1>10. \A x \in A \cup last, y \in last : Precedes(x.row, y.row)
  BY <1>6, <1>7, <1>8 DEF Precedes
<1>11. A \cup last \cup last = A \cup last
  OBVIOUS
<1> HIDE DEF q, A
<1>12. AsksIn(q, A) /\ AsksFor(q, bal)
  BY <1>9 DEF q, A
<1>13. AsksIn(q \o p3, A \cup last) /\ AsksFor(q \o p3, bal)
  BY <1>3, <1>10, <1>12, Joined
<1>14. AsksIn(q \o p3 \o p4, A \cup last) /\ AsksFor(q \o p3 \o p4, bal)
  BY <1>4, <1>10, <1>11, <1>13, Joined
<1>15. AsksIn(q \o p3 \o p4 \o p5, A \cup last) /\ AsksFor(q \o p3 \o p4 \o p5, bal)
  BY <1>5, <1>10, <1>11, <1>14, Joined
<1>16. CreateReceipt(r, d, c) = q \o p3 \o p4 \o p5
  BY Zenon DEF CreateReceipt, q, p1, p2, p3, p4, p5
<1>17. A \cup last \subseteq ReceiptLocks(r, d)
  BY DEF ReceiptLocks, A, bal, rcv, last
<1>18. AsksIn(q \o p3 \o p4 \o p5, ReceiptLocks(r, d))
  BY <1>15, <1>17, FewerLocks
<1> QED
  BY <1>15, <1>16, <1>18 DEF IsReceiptRequest, bal

LEMMA ReverseReceiptAsks ==
  ASSUME NEW r \in Receipts, NEW d, NEW c \in BOOLEAN
  PROVE  IsReceiptRequest(ReverseReceipt(r, d, c), r, d)
<1> DEFINE bal == Balances(r.warehouse, Range(MaterialsOf(r)))
           doc == X(<<"receipt", r.id>>)
           last == LastLocks(r, d)
           p1 == <<doc>>
           p2 == LockBalances(r.warehouse, MaterialsOf(r))
           p4 == LockLines(r, d)
           p5 == LockStatus(r.order, c)
<1>1. AsksIn(p2, bal) /\ AsksFor(p2, bal)
  BY MaterialsType, BalanceLocks
<1>2. AsksIn(p1, {doc})
  BY SingleLock
<1>4. AsksIn(p4, last)
  BY LineLocks
<1>5. AsksIn(p5, last)
  <2>1. X(<<"order", r.order>>) \in last
    BY DEF LastLocks
  <2> QED
    BY <2>1, SingleLock DEF LockStatus
<1>6. Rank(doc.row) = 0
  BY LockFields, Ranks
<1>7. \A x \in bal : Rank(x.row) = 1
  BY BalancesRank
<1>8. /\ \A x \in last : Rank(x.row) = 3
      /\ \A x, y \in last : Precedes(x.row, y.row)
  BY LastInAnyOrder
<1>9. ReverseReceipt(r, d, c) = p1 \o p2 \o p4 \o p5
  BY Zenon DEF ReverseReceipt
<1> HIDE DEF bal, doc, last, p1, p2, p4, p5
<1>10. AsksIn(p1 \o p2, {doc} \cup bal) /\ AsksFor(p1 \o p2, bal)
  <2> DEFINE D == {doc}
  <2>1. \A x \in D, y \in bal : Precedes(x.row, y.row)
    BY <1>6, <1>7 DEF Precedes
  <2>2. AsksIn(p1, D)
    BY <1>2
  <2> HIDE DEF D
  <2>3. AsksIn(p1 \o p2, D \cup bal) /\ AsksFor(p1 \o p2, bal)
    BY <1>1, <2>1, <2>2, Joined
  <2> QED
    BY <2>3 DEF D
<1> DEFINE q == p1 \o p2
           A == {doc} \cup bal
<1>11. \A x \in A \cup last, y \in last : Precedes(x.row, y.row)
  BY <1>6, <1>7, <1>8 DEF Precedes
<1>12. A \cup last \cup last = A \cup last
  OBVIOUS
<1>13. A \cup last \subseteq ReceiptLocks(r, d)
  BY DEF ReceiptLocks, bal, doc, last
<1> HIDE DEF q, A
<1>14. AsksIn(q \o p4, A \cup last) /\ AsksFor(q \o p4, bal)
  BY <1>4, <1>10, <1>11, Joined DEF q, A
<1>15. AsksIn(q \o p4 \o p5, A \cup last) /\ AsksFor(q \o p4 \o p5, bal)
  BY <1>5, <1>11, <1>12, <1>14, Joined
<1>16. AsksIn(q \o p4 \o p5, ReceiptLocks(r, d))
  BY <1>13, <1>15, FewerLocks
<1> QED
  BY <1>9, <1>15, <1>16 DEF IsReceiptRequest, bal, q

LEMMA ApproveReconciliationAsks ==
  ASSUME NEW c \in Counts, NEW d
  PROVE  IsCountRequest(ApproveReconciliation(c, d), c, d)
<1> DEFINE bal == Balances(c.warehouse, Range(c.materials))
           doc == X(<<"count", c.id>>)
           txn == X(<<"sequence", "TXN", d>>)
           p1 == <<doc>>
           p2 == LockBalances(c.warehouse, c.materials)
           p3 == LockSequence("TXN", d)
<1>1. AsksIn(p2, bal)
  BY MaterialsType, BalanceLocks
<1>2. AsksIn(p1, {doc}) /\ AsksIn(p3, {txn})
  BY SingleLock DEF LockSequence
<1>3. Rank(doc.row) = 0 /\ Rank(txn.row) = 3
  BY LockFields, Ranks
<1>4. \A x \in bal : Rank(x.row) = 1
  BY BalancesRank
<1>5. ApproveReconciliation(c, d) = p1 \o p2 \o p3
  BY Zenon DEF ApproveReconciliation
<1>6. {doc} \cup bal \cup {txn} \subseteq CountLocks(c, d)
  BY DEF CountLocks
<1> HIDE DEF bal, doc, txn, p1, p2, p3
<1>7. AsksIn(p1 \o p2, {doc} \cup bal)
  <2>1. \A x \in {doc}, y \in bal : Precedes(x.row, y.row)
    BY <1>3, <1>4 DEF Precedes
  <2> QED
    BY <1>1, <1>2, <2>1, Joined
<1>8. AsksIn(p1 \o p2 \o p3, {doc} \cup bal \cup {txn})
  <2>1. \A x \in {doc} \cup bal, y \in {txn} : Precedes(x.row, y.row)
    BY <1>3, <1>4 DEF Precedes
  <2> QED
    BY <1>2, <1>7, <2>1, Joined
<1>9. AsksIn(p1 \o p2 \o p3, CountLocks(c, d))
  BY <1>6, <1>8, FewerLocks
<1> QED
  BY <1>5, <1>9 DEF IsCountRequest

LEMMA RequestKinds ==
  ASSUME NEW p \in Programs
  PROVE  \/ \E r, d : IsReceiptRequest(p, r, d)
         \/ \E c, d : IsCountRequest(p, c, d)
         \/ \E o \in Cancellable : p = <<X(<<"order", o>>)>>
<1>0. \/ \E r \in Receipts, d \in Dates, c \in BOOLEAN :
              p = CreateReceipt(r, d, c) \/ p = ReverseReceipt(r, d, c)
      \/ \E c \in Counts, d \in Dates : p = ApproveReconciliation(c, d)
      \/ \E o \in Cancellable : p = CancelPo(o)
  BY DEF Programs
<1>1. CASE \E r \in Receipts, d \in Dates, c \in BOOLEAN :
              p = CreateReceipt(r, d, c) \/ p = ReverseReceipt(r, d, c)
  BY <1>1, CreateReceiptAsks, ReverseReceiptAsks
<1>2. CASE \E c \in Counts, d \in Dates : p = ApproveReconciliation(c, d)
  BY <1>2, ApproveReconciliationAsks
<1>3. CASE \E o \in Cancellable : p = CancelPo(o)
  BY <1>3 DEF CancelPo
<1> QED
  BY <1>0, <1>1, <1>2, <1>3

\* A lock of a request is shared only on an order.
IsLock(x) == \/ x = X(x.row)
             \/ x = S(x.row) /\ x.row[1] = "order"

LEMMA LockOf ==
  /\ \A row : IsLock(X(row))
  /\ \A o : IsLock(S(<<"order", o>>))
BY LockFields DEF IsLock

LEMMA ReceiptLock ==
  ASSUME NEW r, NEW d, NEW x \in ReceiptLocks(r, d)
  PROVE  /\ IsLock(x)
         /\ \/ x.row = <<"receipt", r.id>> \/ x.row = <<"sequence", "RCV", d>>
            \/ x.row = <<"sequence", "TXN", d>> \/ x.row = <<"order", r.order>>
            \/ \E m \in Range(MaterialsOf(r)) : x.row = <<"balance", r.warehouse, m>>
            \/ \E l \in Range(r.lines) : x.row = <<"line", l>>
<1>1. \/ x = X(<<"receipt", r.id>>) \/ x = X(<<"sequence", "RCV", d>>)
      \/ x \in Balances(r.warehouse, Range(MaterialsOf(r)))
      \/ x = X(<<"order", r.order>>) \/ x = S(<<"order", r.order>>)
      \/ x = X(<<"sequence", "TXN", d>>)
      \/ \E l \in Range(r.lines) : x = X(<<"line", l>>)
  BY DEF ReceiptLocks, LastLocks
<1>2. CASE x = X(<<"receipt", r.id>>) \/ x = X(<<"sequence", "RCV", d>>)
  BY <1>2, LockFields, LockOf
<1>3. CASE x \in Balances(r.warehouse, Range(MaterialsOf(r)))
  <2>1. PICK m \in Range(MaterialsOf(r)) : x = X(<<"balance", r.warehouse, m>>)
    BY <1>3 DEF Balances
  <2>2. x.row = <<"balance", r.warehouse, m>> /\ IsLock(x)
    BY <2>1, LockFields, LockOf
  <2> QED
    BY <2>2
<1>4. CASE x = X(<<"order", r.order>>) \/ x = S(<<"order", r.order>>)
  BY <1>4, LockFields, LockOf
<1>5. CASE x = X(<<"sequence", "TXN", d>>)
  BY <1>5, LockFields, LockOf
<1>6. CASE \E l \in Range(r.lines) : x = X(<<"line", l>>)
  <2>1. PICK l \in Range(r.lines) : x = X(<<"line", l>>)
    BY <1>6
  <2>2. x.row = <<"line", l>> /\ IsLock(x)
    BY <2>1, LockFields, LockOf
  <2> QED
    BY <2>2
<1> QED
  BY <1>1, <1>2, <1>3, <1>4, <1>5, <1>6, Zenon

LEMMA CountLock ==
  ASSUME NEW c, NEW d, NEW x \in CountLocks(c, d)
  PROVE  /\ IsLock(x)
         /\ \/ x.row = <<"count", c.id>> \/ x.row = <<"sequence", "TXN", d>>
            \/ \E m \in Range(c.materials) : x.row = <<"balance", c.warehouse, m>>
<1>1. \/ x = X(<<"count", c.id>>) \/ x = X(<<"sequence", "TXN", d>>)
      \/ x \in Balances(c.warehouse, Range(c.materials))
  BY DEF CountLocks
<1>2. CASE x = X(<<"count", c.id>>) \/ x = X(<<"sequence", "TXN", d>>)
  BY <1>2, LockFields, LockOf
<1>3. CASE x \in Balances(c.warehouse, Range(c.materials))
  <2>1. PICK m \in Range(c.materials) : x = X(<<"balance", c.warehouse, m>>)
    BY <1>3 DEF Balances
  <2>2. x.row = <<"balance", c.warehouse, m>> /\ IsLock(x)
    BY <2>1, LockFields, LockOf
  <2> QED
    BY <2>2
<1> QED
  BY <1>1, <1>2, <1>3, Zenon

LEMMA AskedLock ==
  ASSUME NEW p \in Programs
  PROVE  /\ Len(p) \in Nat
         /\ \A k \in 1..Len(p) : p[k].row \in Rows /\ IsLock(p[k])
<1>1. Len(p) \in Nat /\ \A k \in 1..Len(p) : IsLock(p[k])
  <2>1. CASE \E r, d : IsReceiptRequest(p, r, d)
    <3>1. PICK r, d : IsReceiptRequest(p, r, d)
      BY <2>1
    <3>2. p \in Seq(ReceiptLocks(r, d))
      BY <3>1 DEF IsReceiptRequest, AsksIn
    <3> QED
      BY <3>2, ReceiptLock
  <2>2. CASE \E c, d : IsCountRequest(p, c, d)
    <3>1. PICK c, d : IsCountRequest(p, c, d)
      BY <2>2
    <3>2. p \in Seq(CountLocks(c, d))
      BY <3>1 DEF IsCountRequest, AsksIn
    <3> QED
      BY <3>2, CountLock
  <2>3. CASE \E o \in Cancellable : p = <<X(<<"order", o>>)>>
    BY <2>3, LockOf
  <2> QED
    BY <2>1, <2>2, <2>3, RequestKinds
<1>2. \A k \in 1..Len(p) : p[k].row \in Rows
  BY DEF Rows
<1> QED
  BY <1>1, <1>2

-----------------------------------------------------------------------------
(* The invariant of the lock table *)

Entry == [session : Sessions, mode : {"X", "S"}]

TypeInv == /\ program \in [Sessions -> Programs \cup {<< >>}]
           /\ asked \in [Sessions -> Nat]
           /\ \A s \in Sessions : asked[s] <= Len(program[s])
           /\ queue \in [Rows -> Seq(Entry)]

\* Session s has asked for this row, in this mode.
HasAsked(s, row, mode) ==
    \E k \in 1..asked[s] : program[s][k].row = row /\ program[s][k].mode = mode

\* The queues hold the locks the sessions have asked for ...
EntriesAsked ==
    \A row \in Rows : \A i \in 1..Len(queue[row]) :
        HasAsked(queue[row][i].session, row, queue[row][i].mode)

\* ... all of them ...
AskedEntered ==
    \A s \in Sessions : \A k \in 1..asked[s] :
        \E i \in 1..Len(queue[program[s][k].row]) :
            queue[program[s][k].row][i].session = s

\* ... and at most the newest one is not granted.
NewestWaits ==
    \A s \in Sessions, row \in Rows : Pending(s, row) # {} =>
        asked[s] # 0 /\ program[s][asked[s]].row = row

LockInv == TypeInv /\ EntriesAsked /\ AskedEntered /\ NewestWaits

\* Whether the i-th request of queue q is granted.
Clear(q, i) ==
    \/ \A j \in 1..(i - 1) : ~Conflict(q[j], q[i])
    \/ \E j \in 1..(i - 1) : /\ q[j].session = q[i].session
                             /\ q[j].mode \in {"X", q[i].mode}

LEMMA GrantedIsClear ==
  /\ \A row, i : Granted(row, i) <=> Clear(queue[row], i)
  /\ \A row, i : Granted(row, i)' <=> Clear(queue'[row], i)
BY DEF Granted, Clear

LEMMA InitLocks == Init => LockInv
<1> SUFFICES ASSUME Init PROVE LockInv
  OBVIOUS
<1>1. /\ program = [s \in Sessions |-> << >>]
      /\ asked = [s \in Sessions |-> 0]
      /\ queue = [row \in Rows |-> << >>]
  BY DEF Init
<1>2. \A s \in Sessions : program[s] = << >> /\ asked[s] = 0
  BY <1>1
<1>3. \A row \in Rows : Len(queue[row]) = 0
  BY <1>1
<1>4. TypeInv
  BY <1>1, <1>2 DEF TypeInv
<1>5. EntriesAsked
  BY <1>3 DEF EntriesAsked
<1>6. AskedEntered
  BY <1>2 DEF AskedEntered
<1>7. NewestWaits
  BY <1>3 DEF NewestWaits, Pending
<1> QED
  BY <1>4, <1>5, <1>6, <1>7 DEF LockInv

\* A queue entry and its session.
LEMMA EntryType ==
  ASSUME TypeInv, NEW row \in Rows
  PROVE  /\ Len(queue[row]) \in Nat
         /\ \A i \in 1..Len(queue[row]) : /\ queue[row][i].session \in Sessions
                                          /\ queue[row][i].mode \in {"X", "S"}
<1>1. queue[row] \in Seq(Entry)
  BY DEF TypeInv
<1>2. \A i \in 1..Len(queue[row]) : queue[row][i] \in Entry
  BY <1>1
<1> QED
  BY <1>1, <1>2 DEF Entry

LEMMA IdleHasNoLocks ==
  ASSUME LockInv, NEW s \in Sessions, asked[s] = 0
  PROVE  /\ \A row \in Rows : \A i \in 1..Len(queue[row]) : queue[row][i].session # s
         /\ \A row \in Rows : Pending(s, row) = {}
<1>1. \A row \in Rows : \A i \in 1..Len(queue[row]) : queue[row][i].session # s
  BY DEF LockInv, EntriesAsked, HasAsked
<1> QED
  BY <1>1 DEF Pending

LEMMA StartLocks ==
  ASSUME LockInv, NEW s \in Sessions, NEW p \in Programs, Start(s, p)
  PROVE  LockInv'
<1>1. /\ program[s] = << >> /\ program' = [program EXCEPT ![s] = p]
      /\ asked' = asked /\ queue' = queue
  BY DEF Start
<1>2. asked[s] = 0
  BY <1>1 DEF LockInv, TypeInv
<1>3. /\ program \in [Sessions -> Programs \cup {<< >>}]
      /\ asked \in [Sessions -> Nat] /\ queue \in [Rows -> Seq(Entry)]
      /\ \A t \in Sessions : asked[t] <= Len(program[t])
  BY DEF LockInv, TypeInv
<1>4. program'[s] = p /\ \A t \in Sessions : t # s => program'[t] = program[t]
  BY <1>1, <1>3
<1>5. TypeInv'
  <2>1. asked'[s] <= Len(program'[s])
    BY <1>1, <1>2, <1>4, AskedLock
  <2>2. \A t \in Sessions : asked'[t] <= Len(program'[t])
    BY <1>1, <1>3, <1>4, <2>1
  <2>3. program' \in [Sessions -> Programs \cup {<< >>}]
    BY <1>1, <1>3
  <2> QED
    BY <1>1, <1>3, <2>2, <2>3 DEF TypeInv
<1>6. EntriesAsked'
  <2> SUFFICES ASSUME NEW row \in Rows, NEW i \in 1..Len(queue[row])
               PROVE  HasAsked(queue[row][i].session, row, queue[row][i].mode)'
    BY <1>1 DEF EntriesAsked, HasAsked
  <2>1. queue[row][i].session # s /\ queue[row][i].session \in Sessions
    BY <1>2, IdleHasNoLocks, EntryType DEF LockInv
  <2>2. HasAsked(queue[row][i].session, row, queue[row][i].mode)
    BY DEF LockInv, EntriesAsked
  <2> QED
    BY <1>1, <1>4, <2>1, <2>2 DEF HasAsked
<1>7. AskedEntered'
  <2> SUFFICES ASSUME NEW t \in Sessions, NEW k \in 1..asked[t]
               PROVE  \E i \in 1..Len(queue[program'[t][k].row]) :
                         queue[program'[t][k].row][i].session = t
    BY <1>1 DEF AskedEntered
  <2>1. t # s
    BY <1>2
  <2> QED
    BY <1>4, <2>1 DEF LockInv, AskedEntered
<1>8. NewestWaits'
  <2> SUFFICES ASSUME NEW t \in Sessions, NEW row \in Rows, Pending(t, row) # {}
               PROVE  asked[t] # 0 /\ program'[t][asked[t]].row = row
    BY <1>1 DEF NewestWaits, Pending, Granted
  <2>1. asked[t] # 0 /\ program[t][asked[t]].row = row
    BY DEF LockInv, NewestWaits
  <2> QED
    BY <1>2, <1>4, <2>1
<1> QED
  BY <1>5, <1>6, <1>7, <1>8 DEF LockInv

LEMMA AppendedEntry ==
  ASSUME NEW q \in Seq(Entry), NEW e \in Entry
  PROVE  /\ Len(q) \in Nat /\ Len(Append(q, e)) = Len(q) + 1
         /\ Append(q, e)[Len(q) + 1] = e
         /\ \A i \in 1..Len(q) : Append(q, e)[i] = q[i]
OBVIOUS

LEMMA RequestLocks ==
  ASSUME LockInv, NEW s \in Sessions, Request(s)
  PROVE  LockInv'
<1> DEFINE a == asked[s] + 1
           lock == program[s][a]
           e == [session |-> s, mode |-> lock.mode]
<1>1. /\ program \in [Sessions -> Programs \cup {<< >>}]
      /\ asked \in [Sessions -> Nat] /\ queue \in [Rows -> Seq(Entry)]
      /\ \A t \in Sessions : asked[t] <= Len(program[t])
  BY DEF LockInv, TypeInv
<1>2. /\ asked[s] < Len(program[s]) /\ ~Waiting(s) /\ program' = program
      /\ asked' = [asked EXCEPT ![s] = @ + 1]
      /\ queue' = [queue EXCEPT ![lock.row] = Append(@, e)]
  BY DEF Request
<1>3. program[s] \in Programs /\ Len(program[s]) \in Nat
  <2>1. program[s] \in Programs \/ program[s] = << >>
    BY <1>1
  <2>2. program[s] # << >>
    BY <1>1, <1>2
  <2> QED
    BY <2>1, <2>2, AskedLock
<1>4. a \in 1..Len(program[s]) /\ a \in Nat /\ a # 0
  BY <1>1, <1>2, <1>3
<1>5. lock.row \in Rows /\ lock.mode \in {"X", "S"}
  <2>1. lock.row \in Rows /\ IsLock(lock)
    BY <1>3, <1>4, AskedLock
  <2> QED
    BY <2>1, LockFields DEF IsLock
<1>6. e \in Entry /\ e.session = s /\ e.mode = lock.mode
  BY <1>5 DEF Entry
<1>7. asked'[s] = a /\ \A t \in Sessions : t # s => asked'[t] = asked[t]
  BY <1>1, <1>2
<1> DEFINE R == lock.row
           N == Len(queue[R])
<1>8. \A row \in Rows : row # R => queue'[row] = queue[row]
  BY <1>1, <1>2
<1>9. queue'[R] = Append(queue[R], e) /\ queue[R] \in Seq(Entry)
  BY <1>1, <1>2, <1>5
<1> HIDE DEF e
<1>10. /\ N \in Nat /\ Len(queue'[R]) = N + 1 /\ queue'[R][N + 1] = e
       /\ \A i \in 1..N : queue'[R][i] = queue[R][i]
  <2> DEFINE q == queue[R]
             w == queue'[R]
  <2>1. w = Append(q, e) /\ q \in Seq(Entry) /\ e \in Entry
    BY <1>6, <1>9
  <2> HIDE DEF q, w
  <2>2. /\ Len(q) \in Nat /\ Len(w) = Len(q) + 1 /\ w[Len(q) + 1] = e
        /\ \A i \in 1..Len(q) : w[i] = q[i]
    BY <2>1, AppendedEntry, Zenon
  <2> QED
    BY <2>2 DEF q, w
<1>11. \A row \in Rows : \A i \in 1..Len(queue'[row]) :
          \/ i \in 1..Len(queue[row])
          \/ row = R /\ i = N + 1
  BY <1>8, <1>10
<1>12. \A row \in Rows : \A i \in 1..Len(queue[row]) :
          i \in 1..Len(queue'[row]) /\ queue'[row][i] = queue[row][i]
  BY <1>8, <1>10
<1> HIDE DEF N, lock, a
<1>13. TypeInv'
  <2>1. queue' \in [Rows -> Seq(Entry)]
    <3>1. Append(queue[R], e) \in Seq(Entry)
      BY <1>6, <1>9
    <3> QED
      BY <1>1, <1>2, <1>5, <3>1 DEF R
  <2>2. asked' \in [Sessions -> Nat]
    BY <1>1, <1>2
  <2>3. \A t \in Sessions : asked'[t] <= Len(program[t])
    BY <1>1, <1>4, <1>7
  <2> QED
    BY <1>1, <1>2, <2>1, <2>2, <2>3 DEF TypeInv
<1> HIDE DEF R
<1>14. \A t \in Sessions : \A k \in 1..asked[t] : k \in 1..asked'[t]
  BY <1>1, <1>7 DEF a
<1>15. EntriesAsked'
  <2> SUFFICES ASSUME NEW row \in Rows, NEW i \in 1..Len(queue'[row])
               PROVE  \E k \in 1..asked'[queue'[row][i].session] :
                         /\ program[queue'[row][i].session][k].row = row
                         /\ program[queue'[row][i].session][k].mode = queue'[row][i].mode
    BY <1>2 DEF EntriesAsked, HasAsked
  <2>1. CASE i \in 1..Len(queue[row])
    <3>1. queue'[row][i] = queue[row][i] /\ queue[row][i].session \in Sessions
      BY <1>12, <2>1, EntryType DEF LockInv
    <3>2. HasAsked(queue[row][i].session, row, queue[row][i].mode)
      BY <2>1 DEF LockInv, EntriesAsked
    <3> QED
      BY <1>14, <3>1, <3>2 DEF HasAsked
  <2>2. CASE row = R /\ i = N + 1
    <3>1. queue'[row][i].session = s /\ queue'[row][i].mode = lock.mode
      BY <1>6, <1>10, <2>2
    <3>2. a \in 1..asked'[s] /\ program[s][a].row = row /\ program[s][a].mode = lock.mode
      BY <1>4, <1>7, <2>2 DEF R, lock
    <3> QED
      BY <3>1, <3>2
  <2> QED
    BY <1>11, <2>1, <2>2
<1>16. AskedEntered'
  <2> SUFFICES ASSUME NEW t \in Sessions, NEW k \in 1..asked'[t]
               PROVE  \E i \in 1..Len(queue'[program[t][k].row]) :
                         queue'[program[t][k].row][i].session = t
    BY <1>2 DEF AskedEntered
  <2>1. CASE k \in 1..asked[t]
    <3>1. PICK i \in 1..Len(queue[program[t][k].row]) :
             queue[program[t][k].row][i].session = t
      BY <2>1 DEF LockInv, AskedEntered
    <3>2. program[t][k].row \in Rows
      <4>1. k \in 1..Len(program[t]) /\ program[t] \in Programs
        <5>1. program[t] \in Programs \cup {<< >>} /\ asked[t] <= Len(program[t])
              /\ asked[t] \in Nat
          BY <1>1
        <5>2. Len(program[t]) \in Nat
          BY <5>1, AskedLock
        <5>3. k \in 1..Len(program[t])
          BY <2>1, <5>1, <5>2
        <5>4. program[t] # << >>
          BY <5>3
        <5> QED
          BY <5>1, <5>3, <5>4
      <4> QED
        BY <4>1, AskedLock
    <3> QED
      BY <1>12, <3>1, <3>2
  <2>2. CASE t = s /\ k = a
    <3>1. program[t][k].row = R
      BY <2>2 DEF R, lock
    <3>2. N + 1 \in 1..Len(queue'[R]) /\ queue'[R][N + 1].session = s
      BY <1>6, <1>10
    <3> QED
      BY <2>2, <3>1, <3>2
  <2>3. k \in 1..asked[t] \/ (t = s /\ k = a)
    BY <1>1, <1>7 DEF a
  <2> QED
    BY <2>1, <2>2, <2>3
<1>17. NewestWaits'
  <2> SUFFICES ASSUME NEW t \in Sessions, NEW row \in Rows, NEW i \in Pending(t, row)'
               PROVE  asked'[t] # 0 /\ program[t][asked'[t]].row = row
    BY <1>2 DEF NewestWaits
  <2>1. i \in 1..Len(queue'[row]) /\ queue'[row][i].session = t /\ ~Clear(queue'[row], i)
    BY GrantedIsClear DEF Pending
  <2>2. CASE i \in 1..Len(queue[row])
    <3>1. \A j \in 1..i : queue'[row][j] = queue[row][j]
      <4>1. Len(queue[row]) \in Nat
        BY EntryType DEF LockInv
      <4>2. \A j \in 1..i : j \in 1..Len(queue[row])
        BY <2>2, <4>1
      <4> QED
        BY <1>12, <4>2
    <3>2. \A j \in 1..(i - 1) : j \in 1..i
      BY <2>1
    <3>3. i \in 1..i
      BY <2>2
    <3>4. ~Clear(queue[row], i) /\ queue[row][i].session = t
      BY <2>1, <3>1, <3>2, <3>3 DEF Clear
    <3>5. i \in Pending(t, row)
      BY <2>2, <3>4, GrantedIsClear DEF Pending
    <3>6. t # s
      BY <1>2, <3>5 DEF Waiting
    <3>7. asked[t] # 0 /\ program[t][asked[t]].row = row
      BY <3>5 DEF LockInv, NewestWaits
    <3> QED
      BY <1>7, <3>6, <3>7
  <2>3. CASE row = R /\ i = N + 1
    <3>1. t = s
      BY <1>6, <1>10, <2>1, <2>3
    <3> QED
      BY <1>4, <1>7, <2>3, <3>1 DEF R, lock
  <2> QED
    BY <1>11, <2>1, <2>2, <2>3
<1> QED
  BY <1>13, <1>15, <1>16, <1>17 DEF LockInv

\* Queue r holds the requests of queue q that are not of s, in their order:
\* its n-th one is the at[n]-th of q.
Without(r, q, s, at) ==
    /\ r \in Seq(Entry)
    /\ \A n \in 1..Len(r) : /\ at[n] \in 1..Len(q)
                            /\ r[n] = q[at[n]]
                            /\ q[at[n]].session # s
    /\ \A m, n \in 1..Len(r) : m < n => at[m] < at[n]
    /\ \A i \in 1..Len(q) : q[i].session # s => \E n \in 1..Len(r) : at[n] = i

\* The requests of others keep their order when a session gives up its own.
LEMMA ReleasedKeepsOrder ==
  ASSUME TypeInv, NEW s \in Sessions, NEW row \in Rows
  PROVE  \E at : Without(Released(s, row), queue[row], s, at)
<1> DEFINE q == queue[row]
           kept == {i \in 1..Len(q) : q[i].session # s}
           c == Cardinality(kept)
           at == Ascending(kept)
           r == Released(s, row)
<1>1. q \in Seq(Entry) /\ Len(q) \in Nat
  BY DEF TypeInv
<1>2. kept \in SUBSET Int /\ IsFiniteSet(kept)
  <2>1. IsFiniteSet(1..Len(q)) /\ kept \subseteq 1..Len(q)
    BY <1>1, FS_Interval
  <2> QED
    BY <1>1, <2>1, FS_Subset
<1>3. Lists(at, kept, c) /\ c \in Nat
  BY <1>2, AscendingLists
<1>4. r = [n \in 1..c |-> q[at[n]]]
  BY Zenon DEF Released
<1>5. /\ at \in [1..c -> kept] /\ Range(at) = kept
      /\ \A m, n \in 1..c : m < n => at[m] < at[n]
  BY <1>3, Zenon DEF Lists
<1>6. \A i \in kept : i \in 1..Len(q) /\ q[i].session # s
  OBVIOUS
<1>7. \A i \in 1..Len(q) : q[i].session # s => i \in kept
  OBVIOUS
<1> HIDE DEF kept, at, c, r, q
<1>8. \A n \in 1..c : at[n] \in 1..Len(q) /\ q[at[n]].session # s /\ q[at[n]] \in Entry
  BY <1>1, <1>5, <1>6
<1>9. r \in Seq(Entry) /\ Len(r) = c /\ \A n \in 1..c : r[n] = q[at[n]]
  BY <1>3, <1>4, <1>8
<1>10. \A i \in 1..Len(q) : q[i].session # s => \E n \in 1..c : at[n] = i
  BY <1>5, <1>7 DEF Range
<1>11. Without(r, q, s, at)
  BY <1>5, <1>8, <1>9, <1>10 DEF Without
<1> QED
  BY <1>11, Zenon DEF r, q

LEMMA CommitLocks ==
  ASSUME LockInv, NEW s \in Sessions, Commit(s)
  PROVE  LockInv'
<1>1. /\ program \in [Sessions -> Programs \cup {<< >>}]
      /\ asked \in [Sessions -> Nat] /\ queue \in [Rows -> Seq(Entry)]
      /\ \A t \in Sessions : asked[t] <= Len(program[t])
  BY DEF LockInv, TypeInv
<1>2. /\ program' = [program EXCEPT ![s] = << >>]
      /\ asked' = [asked EXCEPT ![s] = 0]
      /\ queue' = [row \in Rows |-> Released(s, row)]
  BY DEF Commit
<1>3. /\ program'[s] = << >> /\ asked'[s] = 0
      /\ \A t \in Sessions : t # s => program'[t] = program[t] /\ asked'[t] = asked[t]
  BY <1>1, <1>2
<1>4. \A row \in Rows : queue'[row] = Released(s, row)
  BY <1>2
<1>a. \A row \in Rows : \E at : Without(Released(s, row), queue[row], s, at)
  BY ReleasedKeepsOrder DEF LockInv
<1>5. TypeInv'
  <2>1. \A row \in Rows : Released(s, row) \in Seq(Entry)
    BY <1>a DEF Without
  <2>2. queue' \in [Rows -> Seq(Entry)]
    BY <1>2, <2>1
  <2>3. program' \in [Sessions -> Programs \cup {<< >>}] /\ asked' \in [Sessions -> Nat]
    BY <1>1, <1>2
  <2>4. \A t \in Sessions : asked'[t] <= Len(program'[t])
    <3>1. Len(<< >>) = 0
      OBVIOUS
    <3> QED
      BY <1>1, <1>3, <3>1
  <2> QED
    BY <2>2, <2>3, <2>4 DEF TypeInv
<1>6. EntriesAsked'
  <2> SUFFICES ASSUME NEW row \in Rows, NEW n \in 1..Len(queue'[row])
               PROVE  \E k \in 1..asked'[queue'[row][n].session] :
                         /\ program'[queue'[row][n].session][k].row = row
                         /\ program'[queue'[row][n].session][k].mode = queue'[row][n].mode
    BY DEF EntriesAsked, HasAsked
  <2>1. PICK i \in 1..Len(queue[row]) :
           queue'[row][n] = queue[row][i] /\ queue[row][i].session # s
    <3> DEFINE r == Released(s, row)
    <3>1. PICK at : Without(r, queue[row], s, at)
      BY <1>a
    <3>2. n \in 1..Len(r) /\ queue'[row] = r
      BY <1>4
    <3> HIDE DEF r
    <3> QED
      BY <3>1, <3>2 DEF Without
  <2>2. HasAsked(queue[row][i].session, row, queue[row][i].mode)
    BY DEF LockInv, EntriesAsked
  <2>3. queue[row][i].session \in Sessions
    BY EntryType DEF LockInv
  <2> QED
    BY <1>3, <2>1, <2>2, <2>3 DEF HasAsked
<1>7. AskedEntered'
  <2> SUFFICES ASSUME NEW t \in Sessions, NEW k \in 1..asked'[t]
               PROVE  \E n \in 1..Len(queue'[program'[t][k].row]) :
                         queue'[program'[t][k].row][n].session = t
    BY DEF AskedEntered
  <2>1. t # s
    BY <1>3
  <2>2. program'[t] = program[t] /\ asked'[t] = asked[t]
    BY <1>3, <2>1
  <2> DEFINE row == program[t][k].row
  <2>3. row \in Rows
    <3>1. program[t] \in Programs \cup {<< >>} /\ asked[t] <= Len(program[t])
          /\ asked[t] \in Nat /\ k \in 1..asked[t]
      BY <1>1, <2>2
    <3>2. Len(program[t]) \in Nat
      BY <3>1, AskedLock
    <3>3. k \in 1..Len(program[t])
      BY <3>1, <3>2
    <3>4. program[t] # << >>
      BY <3>3
    <3> QED
      BY <3>1, <3>3, <3>4, AskedLock
  <2>4. PICK i \in 1..Len(queue[row]) : queue[row][i].session = t
    BY <2>2 DEF LockInv, AskedEntered
  <2> HIDE DEF row
  <2>5. \E n \in 1..Len(queue'[row]) : queue'[row][n] = queue[row][i]
    <3> DEFINE r == Released(s, row)
    <3>1. PICK at : Without(r, queue[row], s, at)
      BY <1>a, <2>3
    <3>2. queue'[row] = r
      BY <1>4, <2>3
    <3> HIDE DEF r
    <3>3. PICK n \in 1..Len(r) : at[n] = i
      BY <2>1, <2>4, <3>1 DEF Without
    <3> QED
      BY <3>1, <3>2, <3>3 DEF Without
  <2>6. \E n \in 1..Len(queue'[row]) : queue'[row][n].session = t
    BY <2>4, <2>5
  <2> QED
    BY <2>2, <2>6 DEF row
<1>8. NewestWaits'
  <2> SUFFICES ASSUME NEW t \in Sessions, NEW row \in Rows, NEW n \in Pending(t, row)'
               PROVE  asked'[t] # 0 /\ program'[t][asked'[t]].row = row
    BY DEF NewestWaits
  <2> DEFINE q == queue[row]
             r == Released(s, row)
  <2>1. n \in 1..Len(r) /\ r[n].session = t /\ ~Clear(r, n)
    BY <1>4, GrantedIsClear DEF Pending
  <2>a. PICK at : Without(r, q, s, at)
    BY <1>a
  <2>3. Len(r) \in Nat /\ Len(q) \in Nat
    <3>1. r \in Seq(Entry)
      BY <2>a DEF Without
    <3> QED
      BY <3>1, EntryType DEF LockInv
  <2> HIDE DEF q, r
  <2>2. /\ \A m \in 1..Len(r) : /\ at[m] \in 1..Len(q)
                                /\ r[m] = q[at[m]]
                                /\ q[at[m]].session # s
        /\ \A m, i \in 1..Len(r) : m < i => at[m] < at[i]
        /\ \A i \in 1..Len(q) : q[i].session # s => \E m \in 1..Len(r) : at[m] = i
    BY <2>a DEF Without
  <2>4. t # s
    BY <2>1, <2>2
  <2>5. ASSUME Clear(q, at[n]) PROVE FALSE
    <3>1. CASE \A j \in 1..(at[n] - 1) : ~Conflict(q[j], q[at[n]])
      <4>1. ASSUME NEW m \in 1..(n - 1) PROVE ~Conflict(r[m], r[n])
        <5>1. m \in 1..Len(r) /\ m < n
          BY <2>1, <2>3
        <5>2. at[m] < at[n] /\ at[m] \in 1..Len(q) /\ at[n] \in 1..Len(q)
          BY <2>1, <2>2, <5>1
        <5>3. at[m] \in 1..(at[n] - 1)
          BY <2>3, <5>2
        <5> QED
          BY <2>1, <2>2, <3>1, <5>1, <5>3
      <4> QED
        BY <2>1, <4>1 DEF Clear
    <3>2. CASE \E j \in 1..(at[n] - 1) : /\ q[j].session = q[at[n]].session
                                         /\ q[j].mode \in {"X", q[at[n]].mode}
      <4>1. PICK j \in 1..(at[n] - 1) : /\ q[j].session = q[at[n]].session
                                        /\ q[j].mode \in {"X", q[at[n]].mode}
        BY <3>2
      <4>2. at[n] \in 1..Len(q) /\ r[n] = q[at[n]] /\ q[at[n]].session # s
        BY <2>1, <2>2
      <4>3. j \in 1..Len(q) /\ j < at[n]
        BY <2>3, <4>2
      <4>4. PICK m \in 1..Len(r) : at[m] = j
        BY <2>2, <4>1, <4>2, <4>3
      <4>5. r[m] = q[j]
        BY <2>2, <4>4
      <4>6. m < n
        <5>1. ~(n < m)
          BY <2>1, <2>2, <4>2, <4>3, <4>4
        <5>2. n # m
          BY <4>2, <4>3, <4>4
        <5> QED
          BY <2>1, <2>3, <5>1, <5>2
      <4>7. m \in 1..(n - 1)
        BY <2>1, <2>3, <4>6
      <4> QED
        BY <2>1, <4>1, <4>2, <4>5, <4>7 DEF Clear
    <3> QED
      BY <2>5, <3>1, <3>2 DEF Clear
  <2>6. at[n] \in Pending(t, row)
    <3>1. at[n] \in 1..Len(q) /\ q[at[n]].session = t
      BY <2>1, <2>2
    <3> QED
      BY <2>5, <3>1, GrantedIsClear DEF Pending, q
  <2>7. asked[t] # 0 /\ program[t][asked[t]].row = row
    BY <2>6 DEF LockInv, NewestWaits
  <2> QED
    BY <1>3, <2>4, <2>7
<1> QED
  BY <1>5, <1>6, <1>7, <1>8 DEF LockInv

LEMMA NextLocks == LockInv /\ [Next]_vars => LockInv'
<1>1. ASSUME LockInv, UNCHANGED vars PROVE LockInv'
  <2>1. program' = program /\ asked' = asked /\ queue' = queue
    BY <1>1 DEF vars
  <2>2. TypeInv'
    BY <1>1, <2>1 DEF LockInv, TypeInv
  <2>3. EntriesAsked'
    BY <1>1, <2>1 DEF LockInv, EntriesAsked, HasAsked
  <2>4. AskedEntered'
    BY <1>1, <2>1 DEF LockInv, AskedEntered
  <2>5. NewestWaits'
    <3>1. \A t, row : Pending(t, row)' = Pending(t, row)
      BY <2>1 DEF Pending, Granted
    <3> QED
      BY <1>1, <2>1, <3>1 DEF LockInv, NewestWaits
  <2> QED
    BY <2>2, <2>3, <2>4, <2>5 DEF LockInv
<1>2. ASSUME LockInv, Next PROVE LockInv'
  BY <1>2, StartLocks, RequestLocks, CommitLocks, Zenon DEF Next
<1> QED
  BY <1>1, <1>2

\* Every reachable state of the lock table has the invariant: a session waits
\* for the lock it asked for last and for no other, and holds the ones before.
THEOREM LockInvariance == Spec => []LockInv
BY InitLocks, NextLocks, PTL DEF Spec

-----------------------------------------------------------------------------
(* Who waits, and where *)

\* The lock a session asked for at some time is one of its request.
LEMMA AskedFor ==
  ASSUME LockInv, NEW s \in Sessions, NEW k \in 1..asked[s]
  PROVE  /\ program[s] \in Programs /\ Len(program[s]) \in Nat
         /\ asked[s] \in 1..Len(program[s]) /\ k \in 1..Len(program[s])
         /\ k \in Nat /\ k <= asked[s]
         /\ program[s][k].row \in Rows /\ IsLock(program[s][k])
<1>1. program[s] \in Programs \cup {<< >>} /\ asked[s] <= Len(program[s]) /\ asked[s] \in Nat
  BY DEF LockInv, TypeInv
<1>2. Len(program[s]) \in Nat
  BY <1>1, AskedLock
<1>3. k \in 1..Len(program[s]) /\ asked[s] \in 1..Len(program[s])
  BY <1>1, <1>2
<1>4. program[s] \in Programs
  BY <1>1, <1>3
<1> QED
  BY <1>1, <1>2, <1>3, <1>4, AskedLock

\* A session at the head of the queue for a row.
Heads(s, row) == 1 \in 1..Len(queue[row]) /\ queue[row][1].session = s

OnlyX(row) == \A i \in 1..Len(queue[row]) : queue[row][i].mode = "X"

\* Only orders are locked in shared mode.
LEMMA OnlyOrdersShared ==
  ASSUME LockInv, NEW row \in Rows, row[1] # "order"
  PROVE  OnlyX(row)
<1> SUFFICES ASSUME NEW i \in 1..Len(queue[row]) PROVE queue[row][i].mode = "X"
  BY DEF OnlyX
<1> DEFINE t == queue[row][i].session
<1>1. t \in Sessions
  BY EntryType DEF LockInv
<1>2. PICK k \in 1..asked[t] : program[t][k].row = row /\ program[t][k].mode = queue[row][i].mode
  BY DEF LockInv, EntriesAsked, HasAsked
<1>3. IsLock(program[t][k])
  BY <1>1, AskedFor
<1>4. program[t][k] = X(row)
  BY <1>2, <1>3 DEF IsLock
<1> QED
  BY <1>2, <1>4, LockFields

\* Whoever has an exclusive row and does not wait for it is at its head.
LEMMA HolderHeads ==
  ASSUME LockInv, NEW row \in Rows, OnlyX(row), NEW s \in Sessions,
         NEW a \in 1..Len(queue[row]), queue[row][a].session = s,
         Pending(s, row) = {}
  PROVE  Heads(s, row)
<1> DEFINE q == queue[row]
           mine == {i \in 1..Len(q) : q[i].session = s}
<1>1. Len(q) \in Nat
  BY EntryType DEF LockInv
<1>2. mine \in SUBSET Nat /\ mine # {}
  BY <1>1
<1>3. PICK i \in mine : \A j \in mine : i <= j
  BY <1>2, LeastNatural
<1>4. i \in 1..Len(q) /\ q[i].session = s
  BY <1>3
<1>5. Granted(row, i)
  BY <1>4 DEF Pending
<1>6. ASSUME NEW j \in 1..(i - 1) PROVE q[j].session # s /\ j \in 1..Len(q)
  <2>1. j \in 1..Len(q) /\ ~(i <= j)
    BY <1>1, <1>4
  <2> QED
    BY <1>3, <2>1
<1>7. \A j \in 1..(i - 1) : ~Conflict(q[j], q[i])
  BY <1>4, <1>5, <1>6 DEF Granted
<1>8. ASSUME NEW j \in 1..(i - 1) PROVE FALSE
  BY <1>4, <1>6, <1>7, <1>8 DEF Conflict, OnlyX
<1>9. i = 1
  <2>1. i > 1 => 1 \in 1..(i - 1)
    BY <1>4
  <2> QED
    BY <1>4, <1>8, <2>1
<1> QED
  BY <1>4, <1>9 DEF Heads

\* In an exclusive row a session waits at its first entry.
LEMMA WaitsAtFirst ==
  ASSUME LockInv, NEW row \in Rows, OnlyX(row), NEW s \in Sessions,
         NEW i \in Pending(s, row), NEW j \in 1..Len(queue[row]),
         queue[row][j].session = s
  PROVE  i \in Nat /\ j \in Nat /\ i <= j
<1>1. /\ i \in 1..Len(queue[row]) /\ queue[row][i].session = s /\ ~Granted(row, i)
      /\ Len(queue[row]) \in Nat
  BY EntryType DEF Pending, LockInv
<1>2. queue[row][j].mode = "X"
  BY DEF OnlyX
<1>3. ~(j < i)
  <2>1. j < i => j \in 1..(i - 1)
    BY <1>1
  <2> QED
    BY <1>1, <1>2, <2>1 DEF Granted
<1> QED
  BY <1>1, <1>3

\* A session waits at its newest row, behind a conflicting request.
LEMMA WaitsBehind ==
  ASSUME LockInv, NEW s \in Sessions, NEW row \in Rows, NEW i \in Pending(s, row)
  PROVE  /\ asked[s] \in 1..asked[s] /\ program[s][asked[s]].row = row
         /\ \E j \in 1..Len(queue[row]) : /\ Conflict(queue[row][j], queue[row][i])
                                          /\ queue[row][i].session = s
<1>1. asked[s] # 0 /\ program[s][asked[s]].row = row /\ asked[s] \in Nat
  BY DEF LockInv, NewestWaits, TypeInv
<1>2. /\ i \in 1..Len(queue[row]) /\ queue[row][i].session = s /\ ~Granted(row, i)
      /\ Len(queue[row]) \in Nat
  BY EntryType DEF Pending, LockInv
<1>3. PICK j \in 1..(i - 1) : Conflict(queue[row][j], queue[row][i])
  BY <1>2 DEF Granted
<1>4. j \in 1..Len(queue[row])
  BY <1>2
<1> QED
  BY <1>1, <1>2, <1>3, <1>4

\* The rows of the last rank: the ledger counter, the rows of an order that
\* has receipts, and the orders that may be cancelled.
Delivers(p, row) ==
    \E r, d : /\ IsReceiptRequest(p, r, d)
              /\ \/ row = <<"order", r.order>>
                 \/ \E l \in Range(r.lines) : row = <<"line", l>>

LEMMA LateRows ==
  ASSUME NEW p \in Programs, NEW k \in 1..Len(p), Rank(p[k].row) = 3
  PROVE  \/ \E d : p[k].row = <<"sequence", "TXN", d>>
         \/ Delivers(p, p[k].row)
         \/ \E o \in Cancellable : p = <<X(<<"order", o>>)>> /\ p[k].row = <<"order", o>>
<1> DEFINE row == p[k].row
<1>1. CASE \E r, d : IsReceiptRequest(p, r, d)
  <2>1. PICK r, d : IsReceiptRequest(p, r, d)
    BY <1>1
  <2>2. p[k] \in ReceiptLocks(r, d)
    BY <2>1 DEF IsReceiptRequest, AsksIn
  <2> HIDE DEF row
  <2>3. \/ row = <<"receipt", r.id>> \/ row = <<"sequence", "RCV", d>>
        \/ row = <<"sequence", "TXN", d>> \/ row = <<"order", r.order>>
        \/ \E m \in Range(MaterialsOf(r)) : row = <<"balance", r.warehouse, m>>
        \/ \E l \in Range(r.lines) : row = <<"line", l>>
    BY <2>2, ReceiptLock DEF row
  <2>4. Rank(row) = 3
    BY DEF row
  <2>5. \/ row = <<"sequence", "TXN", d>> \/ row = <<"order", r.order>>
        \/ \E l \in Range(r.lines) : row = <<"line", l>>
    <3>1. row # <<"receipt", r.id>> /\ row # <<"sequence", "RCV", d>>
      BY <2>4, Ranks
    <3>2. \A m : row # <<"balance", r.warehouse, m>>
      BY <2>4, Ranks
    <3> QED
      BY <2>3, <3>1, <3>2
  <2>6. CASE row = <<"sequence", "TXN", d>>
    BY <2>6 DEF row
  <2>7. CASE row = <<"order", r.order>> \/ \E l \in Range(r.lines) : row = <<"line", l>>
    <3>1. Delivers(p, row)
      BY <2>1, <2>7 DEF Delivers
    <3> QED
      BY <3>1 DEF row
  <2> QED
    BY <2>5, <2>6, <2>7
<1>2. CASE \E c, d : IsCountRequest(p, c, d)
  <2>1. PICK c, d : IsCountRequest(p, c, d)
    BY <1>2
  <2>2. p[k] \in CountLocks(c, d)
    BY <2>1 DEF IsCountRequest, AsksIn
  <2> HIDE DEF row
  <2>3. \/ row = <<"count", c.id>> \/ row = <<"sequence", "TXN", d>>
        \/ \E m : row = <<"balance", c.warehouse, m>>
    BY <2>2, CountLock DEF row
  <2>4. Rank(row) = 3
    BY DEF row
  <2>5. row = <<"sequence", "TXN", d>>
    <3>1. row # <<"count", c.id>> /\ \A m : row # <<"balance", c.warehouse, m>>
      BY <2>4, Ranks
    <3> QED
      BY <2>3, <3>1
  <2> QED
    BY <2>5 DEF row
<1>3. CASE \E o \in Cancellable : p = <<X(<<"order", o>>)>>
  <2>1. PICK o \in Cancellable : p = <<X(<<"order", o>>)>>
    BY <1>3
  <2>2. p[k].row = <<"order", o>>
    BY <2>1, LockFields
  <2> QED
    BY <2>1, <2>2
<1> QED
  BY <1>1, <1>2, <1>3, RequestKinds

\* What comes after a lock of a receipt or a count.
LEMMA AsksInOrder ==
  ASSUME NEW p \in Programs, NEW k \in 1..Len(p), NEW a \in 1..Len(p), k < a
  PROVE  Precedes(p[k].row, p[a].row)
<1>1. CASE \E r, d : IsReceiptRequest(p, r, d)
  BY <1>1 DEF IsReceiptRequest, AsksIn
<1>2. CASE \E c, d : IsCountRequest(p, c, d)
  BY <1>2 DEF IsCountRequest, AsksIn
<1>3. CASE \E o \in Cancellable : p = <<X(<<"order", o>>)>>
  BY <1>3
<1> QED
  BY <1>1, <1>2, <1>3, RequestKinds

LEMMA PrecedesUp ==
  /\ \A x, y : Precedes(x, y) => Rank(x) < Rank(y) \/ Rank(x) = Rank(y)
  /\ \A x : Rank(x) \in 0..3
BY DEF Precedes, Rank

\* A receipt that has come to the order or its lines has its balances.
LEMMA HoldsBalances ==
  ASSUME LockInv, NEW s \in Sessions, NEW k \in 1..asked[s],
         Rank(program[s][k].row) = 3,
         NEW r, NEW d, IsReceiptRequest(program[s], r, d),
         NEW m \in Range(MaterialsOf(r))
  PROVE  <<"balance", r.warehouse, m>> \in Rows /\ Heads(s, <<"balance", r.warehouse, m>>)
<1> DEFINE p == program[s]
           b == <<"balance", r.warehouse, m>>
<1>1. /\ p \in Programs /\ Len(p) \in Nat /\ asked[s] \in 1..Len(p) /\ k \in 1..Len(p)
      /\ k \in Nat /\ k <= asked[s]
  BY AskedFor
<1>2. Rank(b) = 1 /\ b[1] # "order" /\ X(b).row = b
  BY Ranks, LockFields
<1>3. PICK kb \in 1..Len(p) : p[kb] = X(b)
  BY DEF IsReceiptRequest, AsksFor, Balances
<1>4. p[kb].row = b
  BY <1>2, <1>3
<1> HIDE DEF b
<1>5. kb < k
  <2>1. ~(k < kb)
    BY <1>1, <1>2, <1>4, AsksInOrder, PrecedesUp
  <2>2. k # kb
    BY <1>2, <1>4
  <2> QED
    BY <1>1, <2>1, <2>2
<1>6. kb \in 1..asked[s]
  BY <1>1, <1>5
<1>7. b \in Rows
  BY <1>1, <1>4, AskedLock
<1>8. PICK i \in 1..Len(queue[b]) : queue[b][i].session = s
  BY <1>4, <1>6 DEF LockInv, AskedEntered
<1>9. Pending(s, b) = {}
  <2> SUFFICES ASSUME Pending(s, b) # {} PROVE FALSE
    OBVIOUS
  <2>1. p[asked[s]].row = b
    BY <1>7 DEF LockInv, NewestWaits
  <2>2. k = asked[s] \/ k < asked[s]
    BY <1>1
  <2>3. Rank(p[asked[s]].row) # 1
    BY <1>1, <2>2, AsksInOrder, PrecedesUp
  <2> QED
    BY <1>2, <2>1, <2>3
<1>10. OnlyX(b)
  BY <1>2, <1>7, OnlyOrdersShared
<1>11. Heads(s, b)
  BY <1>7, <1>8, <1>9, <1>10, HolderHeads
<1> QED
  BY <1>7, <1>11 DEF b

\* Two receipts that come to the same order or line are of one order, and
\* share a balance.
LEMMA CommonBalance ==
  ASSUME WholeDeliveries, NEW q \in Receipts, NEW r \in Receipts, NEW row,
         row = <<"order", q.order>> \/ \E l \in Range(q.lines) : row = <<"line", l>>,
         row = <<"order", r.order>> \/ \E l \in Range(r.lines) : row = <<"line", l>>
  PROVE  /\ q.warehouse = r.warehouse
         /\ Range(MaterialsOf(q)) \cap Range(MaterialsOf(r)) # {}
<1>1. q.order = r.order
  <2>1. CASE row = <<"order", q.order>>
    <3>1. \A l : row # <<"line", l>>
      BY <2>1
    <3>2. row = <<"order", r.order>>
      BY <3>1
    <3> QED
      BY <2>1, <3>2
  <2>2. CASE \E l \in Range(q.lines) : row = <<"line", l>>
    <3>1. PICK l \in Range(q.lines) : row = <<"line", l>>
      BY <2>2
    <3>2. \A o : row # <<"order", o>>
      BY <3>1
    <3>3. PICK n \in Range(r.lines) : row = <<"line", n>>
      BY <3>2
    <3>4. l = n
      BY <3>1, <3>3
    <3>5. Range(q.lines) \cap Range(r.lines) # {}
      BY <3>4
    <3> QED
      BY <3>5, LockingAssumption
  <2> QED
    BY <2>1, <2>2
<1> QED
  BY <1>1 DEF WholeDeliveries

\* Two receipts never meet at an order or at a line of it.
LEMMA NobodyMeets ==
  ASSUME LockInv, WholeDeliveries, NEW s \in Sessions, NEW t \in Sessions, s # t,
         NEW k \in 1..asked[s], NEW a \in 1..asked[t],
         program[s][k].row = program[t][a].row, Rank(program[s][k].row) = 3,
         Delivers(program[s], program[s][k].row),
         Delivers(program[t], program[t][a].row)
  PROVE  FALSE
<1> DEFINE row == program[s][k].row
<1>1. PICK q, c : /\ IsReceiptRequest(program[s], q, c)
                  /\ \/ row = <<"order", q.order>>
                     \/ \E l \in Range(q.lines) : row = <<"line", l>>
  BY DEF Delivers
<1>2. PICK r, d : /\ IsReceiptRequest(program[t], r, d)
                  /\ \/ row = <<"order", r.order>>
                     \/ \E l \in Range(r.lines) : row = <<"line", l>>
  BY DEF Delivers
<1>3. q \in Receipts /\ r \in Receipts
  BY <1>1, <1>2 DEF IsReceiptRequest
<1> HIDE DEF row
<1>4. q.warehouse = r.warehouse /\ Range(MaterialsOf(q)) \cap Range(MaterialsOf(r)) # {}
  BY <1>1, <1>2, <1>3, CommonBalance
<1>5. PICK m : m \in Range(MaterialsOf(q)) /\ m \in Range(MaterialsOf(r))
  BY <1>4
<1>6. Heads(s, <<"balance", q.warehouse, m>>)
  BY <1>1, <1>5, HoldsBalances DEF row
<1>7. Heads(t, <<"balance", r.warehouse, m>>)
  BY <1>2, <1>5, HoldsBalances DEF row
<1> QED
  BY <1>4, <1>6, <1>7 DEF Heads

\* In the last rank a session waits only for the ledger counter or for an
\* order that has no receipts.
LEMMA LateWaits ==
  ASSUME LockInv, WholeDeliveries, NEW s \in Sessions, NEW row \in Rows,
         Pending(s, row) # {}, Rank(row) = 3
  PROVE  \/ \E d : row = <<"sequence", "TXN", d>>
         \/ \E o \in Cancellable : row = <<"order", o>>
<1>1. PICK i : i \in Pending(s, row)
  OBVIOUS
<1>2. asked[s] \in 1..asked[s] /\ program[s][asked[s]].row = row
  BY <1>1, WaitsBehind
<1>3. PICK j \in 1..Len(queue[row]) : /\ Conflict(queue[row][j], queue[row][i])
                                      /\ queue[row][i].session = s
  BY <1>1, WaitsBehind
<1> DEFINE t == queue[row][j].session
           p == program[s]
           w == program[t]
<1>4. t \in Sessions /\ t # s
  BY <1>3, EntryType DEF LockInv, Conflict
<1>5. PICK a \in 1..asked[t] : w[a].row = row
  BY DEF LockInv, EntriesAsked, HasAsked
<1>6. /\ p \in Programs /\ asked[s] \in 1..Len(p)
      /\ w \in Programs /\ a \in 1..Len(w)
  BY <1>2, <1>4, <1>5, AskedFor
<1>7. CASE Delivers(p, row) /\ Delivers(w, row)
  <2>1. FALSE
    BY <1>2, <1>4, <1>5, <1>7, NobodyMeets
  <2> QED
    BY <2>1
<1>8. CASE ~Delivers(p, row)
  <2> DEFINE k == asked[s]
  <2>1. p \in Programs /\ k \in 1..Len(p) /\ p[k].row = row
    BY <1>2, <1>6
  <2> HIDE DEF p, k
  <2> QED
    BY <1>8, <2>1, LateRows
<1>9. CASE ~Delivers(w, row)
  <2>1. w \in Programs /\ a \in 1..Len(w) /\ w[a].row = row
    BY <1>5, <1>6
  <2> HIDE DEF w
  <2> QED
    BY <1>9, <2>1, LateRows
<1> QED
  BY <1>7, <1>8, <1>9

\* Only its cancellation asks for an order that has no receipts.
LEMMA CancelRows ==
  ASSUME WholeDeliveries, NEW p \in Programs, NEW k \in 1..Len(p),
         NEW o \in Cancellable, p[k].row = <<"order", o>>
  PROVE  Len(p) = 1 /\ p[k].mode = "X"
<1>1. Rank(p[k].row) = 3
  BY Ranks
<1>2. \A d : p[k].row # <<"sequence", "TXN", d>>
  OBVIOUS
<1>3. ~Delivers(p, p[k].row)
  <2> SUFFICES ASSUME NEW r, NEW d, IsReceiptRequest(p, r, d),
                      \/ p[k].row = <<"order", r.order>>
                      \/ \E l \in Range(r.lines) : p[k].row = <<"line", l>>
               PROVE  FALSE
    BY DEF Delivers
  <2>1. \A l : p[k].row # <<"line", l>>
    OBVIOUS
  <2>2. r.order = o
    BY <2>1
  <2>3. r \in Receipts
    BY DEF IsReceiptRequest
  <2> QED
    BY <2>2, <2>3 DEF WholeDeliveries
<1>4. PICK n \in Cancellable : p = <<X(<<"order", n>>)>>
  BY <1>1, <1>2, <1>3, LateRows
<1> QED
  BY <1>4, LockFields

\* Sessions wait for exclusive rows only.
LEMMA WaitsForX ==
  ASSUME LockInv, WholeDeliveries, NEW s \in Sessions, NEW row \in Rows,
         Pending(s, row) # {}
  PROVE  OnlyX(row)
<1>1. CASE row[1] # "order"
  BY <1>1, OnlyOrdersShared
<1>2. CASE row[1] = "order"
  <2>1. Rank(row) = 3
    BY <1>2 DEF Rank
  <2>2. PICK o \in Cancellable : row = <<"order", o>>
    BY <1>2, <2>1, LateWaits
  <2> SUFFICES ASSUME NEW i \in 1..Len(queue[row]) PROVE queue[row][i].mode = "X"
    BY DEF OnlyX
  <2> DEFINE t == queue[row][i].session
  <2>3. t \in Sessions
    BY EntryType DEF LockInv
  <2>4. PICK k \in 1..asked[t] : program[t][k].row = row /\ program[t][k].mode = queue[row][i].mode
    BY DEF LockInv, EntriesAsked, HasAsked
  <2>5. program[t] \in Programs /\ k \in 1..Len(program[t])
    BY <2>3, AskedFor
  <2> QED
    BY <2>2, <2>4, <2>5, CancelRows
<1> QED
  BY <1>1, <1>2

-----------------------------------------------------------------------------
(* No circles *)

\* The materials of the balances are integers.
LEMMA BalanceMaterial ==
  ASSUME NEW p \in Programs, NEW k \in 1..Len(p), Rank(p[k].row) = 1
  PROVE  p[k].row[3] \in Int
<1> DEFINE row == p[k].row
<1>1. CASE \E r, d : IsReceiptRequest(p, r, d)
  <2>1. PICK r, d : IsReceiptRequest(p, r, d)
    BY <1>1
  <2>2. p[k] \in ReceiptLocks(r, d) /\ r \in Receipts
    BY <2>1 DEF IsReceiptRequest, AsksIn
  <2>3. Range(MaterialsOf(r)) \in SUBSET Int
    BY <2>2, MaterialsType, RangeIsFinite
  <2> HIDE DEF row
  <2>4. \/ row = <<"receipt", r.id>> \/ row = <<"sequence", "RCV", d>>
        \/ row = <<"sequence", "TXN", d>> \/ row = <<"order", r.order>>
        \/ \E m \in Range(MaterialsOf(r)) : row = <<"balance", r.warehouse, m>>
        \/ \E l \in Range(r.lines) : row = <<"line", l>>
    BY <2>2, ReceiptLock DEF row
  <2>5. Rank(row) = 1
    BY DEF row
  <2>6. /\ row # <<"receipt", r.id>> /\ row # <<"sequence", "RCV", d>>
        /\ row # <<"sequence", "TXN", d>> /\ row # <<"order", r.order>>
        /\ \A l : row # <<"line", l>>
    BY <2>5, Ranks
  <2>7. PICK m \in Range(MaterialsOf(r)) : row = <<"balance", r.warehouse, m>>
    BY <2>4, <2>6
  <2>8. row[3] = m
    BY <2>7
  <2> QED
    BY <2>3, <2>8 DEF row
<1>2. CASE \E c, d : IsCountRequest(p, c, d)
  <2>1. PICK c, d : IsCountRequest(p, c, d)
    BY <1>2
  <2>2. p[k] \in CountLocks(c, d) /\ c \in Counts
    BY <2>1 DEF IsCountRequest, AsksIn
  <2>3. Range(c.materials) \in SUBSET Int
    BY <2>2, MaterialsType, RangeIsFinite
  <2> HIDE DEF row
  <2>4. \/ row = <<"count", c.id>> \/ row = <<"sequence", "TXN", d>>
        \/ \E m \in Range(c.materials) : row = <<"balance", c.warehouse, m>>
    BY <2>2, CountLock DEF row
  <2>5. Rank(row) = 1
    BY DEF row
  <2>6. row # <<"count", c.id>> /\ row # <<"sequence", "TXN", d>>
    BY <2>5, Ranks
  <2>7. PICK m \in Range(c.materials) : row = <<"balance", c.warehouse, m>>
    BY <2>4, <2>6
  <2>8. row[3] = m
    BY <2>7
  <2> QED
    BY <2>3, <2>8 DEF row
<1>3. CASE \E o \in Cancellable : p = <<X(<<"order", o>>)>>
  <2>1. PICK o \in Cancellable : p = <<X(<<"order", o>>)>>
    BY <1>3
  <2>2. p[k].row = <<"order", o>>
    BY <2>1, LockFields
  <2> QED
    BY <2>2, Ranks
<1> QED
  BY <1>1, <1>2, <1>3, RequestKinds

\* Where a waiting session waits: its row, the material of it, and the place
\* in the queue.
At(s) == program[s][asked[s]].row
Material(s) == IF Rank(At(s)) = 1 THEN At(s)[3] ELSE 0
Place(s) == CHOOSE i \in Pending(s, At(s)) : TRUE

LEMMA WaitingAt ==
  ASSUME LockInv, NEW s \in Sessions, NEW row \in Rows, Pending(s, row) # {}
  PROVE  /\ row = At(s) /\ asked[s] \in 1..asked[s]
         /\ Place(s) \in Pending(s, row) /\ Place(s) \in Nat
         /\ Rank(At(s)) \in Int /\ Material(s) \in Int
<1>1. asked[s] \in 1..asked[s] /\ row = At(s)
  BY WaitsBehind DEF At
<1>2. Place(s) \in Pending(s, row)
  BY <1>1 DEF Place
<1>3. Place(s) \in Nat
  BY <1>2, EntryType DEF Pending, LockInv
<1>4. Rank(At(s)) \in Int
  BY PrecedesUp
<1>5. Material(s) \in Int
  <2>1. program[s] \in Programs /\ asked[s] \in 1..Len(program[s])
    BY <1>1, AskedFor
  <2>2. Rank(At(s)) = 1 => At(s)[3] \in Int
    BY <2>1, BalanceMaterial DEF At
  <2> QED
    BY <2>2 DEF Material
<1> QED
  BY <1>1, <1>2, <1>3, <1>4, <1>5

\* Whoever waits for somebody who waits is at an earlier row, or further back
\* at the same row.
Climbs(s, t) == \/ Rank(At(s)) < Rank(At(t))
                \/ Rank(At(s)) = Rank(At(t)) /\ Material(s) < Material(t)
                \/ At(s) = At(t) /\ Place(t) < Place(s)

LEMMA WaitsClimb ==
  ASSUME LockInv, WholeDeliveries, NEW s \in Sessions, NEW t \in Sessions, WaitsFor(s, t),
         NEW there \in Rows, Pending(t, there) # {}
  PROVE  Climbs(s, t)
<1>1. PICK row \in Rows : \E i \in Pending(s, row), j \in 1..Len(queue[row]) :
          j < i /\ queue[row][j].session = t
  BY DEF WaitsFor
<1>2. PICK i \in Pending(s, row), j \in 1..Len(queue[row]) :
          j < i /\ queue[row][j].session = t
  BY <1>1
<1>3. /\ row = At(s) /\ Place(s) \in Pending(s, row) /\ Place(s) \in Nat
      /\ asked[s] \in 1..asked[s]
  BY WaitingAt
<1>4. /\ there = At(t) /\ Place(t) \in Pending(t, there) /\ Place(t) \in Nat
      /\ asked[t] \in 1..asked[t]
  BY WaitingAt
<1>5. OnlyX(row)
  BY WaitsForX
<1>6. PICK k \in 1..asked[t] : program[t][k].row = row
  BY <1>2 DEF LockInv, EntriesAsked, HasAsked
<1>7. /\ program[t] \in Programs /\ Len(program[t]) \in Nat
      /\ asked[t] \in 1..Len(program[t]) /\ k \in 1..Len(program[t])
      /\ k \in Nat /\ k <= asked[t]
  BY <1>6, AskedFor
<1>8. CASE row = there
  <2>1. i <= Place(s) /\ Place(s) <= i /\ i \in Nat
    <3>1. /\ i \in 1..Len(queue[row]) /\ queue[row][i].session = s
          /\ Place(s) \in 1..Len(queue[row]) /\ queue[row][Place(s)].session = s
      BY <1>3 DEF Pending
    <3> QED
      BY <1>3, <1>5, <3>1, WaitsAtFirst
  <2>2. Place(t) <= j /\ j \in Nat
    BY <1>2, <1>4, <1>5, <1>8, WaitsAtFirst
  <2>3. Place(t) < Place(s)
    BY <1>2, <1>3, <1>4, <2>1, <2>2
  <2> QED
    BY <1>3, <1>4, <1>8, <2>3 DEF Climbs
<1>9. CASE row # there
  <2>1. k < asked[t]
    BY <1>4, <1>6, <1>7, <1>9 DEF At
  <2>2. Precedes(row, there)
    BY <1>4, <1>6, <1>7, <2>1, AsksInOrder DEF At
  <2>3. Len(program[t]) # 1
    <3>1. \A n, a, x : x \in 1..n /\ a \in 1..n /\ n \in Nat /\ x < a => n # 1
      OBVIOUS
    <3> QED
      BY <1>7, <2>1, <3>1, Zenon
  <2>4. program[t][asked[t]].row = there
    BY <1>4 DEF At
  <2>5. CASE Rank(row) < Rank(there)
    BY <1>3, <1>4, <2>5 DEF Climbs
  <2>6. CASE Rank(row) = 1 /\ Rank(there) = 1 /\ row[3] < there[3]
    BY <1>3, <1>4, <2>6 DEF Climbs, Material
  <2>7. CASE /\ Rank(row) = 3 /\ Rank(there) = 3
             /\ row[1] = "sequence" /\ there[1] = "sequence" => row = there
    <3>1. row[1] = "sequence"
      <4>1. ~ \E o \in Cancellable : row = <<"order", o>>
        BY <1>6, <1>7, <2>3, CancelRows
      <4>2. PICK d : row = <<"sequence", "TXN", d>>
        BY <2>7, <4>1, LateWaits
      <4> QED
        BY <4>2
    <3>2. there[1] = "sequence"
      <4>1. ~ \E o \in Cancellable : there = <<"order", o>>
        BY <1>7, <2>3, <2>4, CancelRows
      <4>2. PICK d : there = <<"sequence", "TXN", d>>
        BY <2>7, <4>1, LateWaits
      <4> QED
        BY <4>2
    <3> QED
      BY <1>9, <2>7, <3>1, <3>2
  <2> QED
    BY <2>2, <2>5, <2>6, <2>7 DEF Precedes
<1> QED
  BY <1>8, <1>9

\* An integer function has a largest value among those of a set where another
\* one has its largest value.
LEMMA TopOfTop ==
  ASSUME NEW f, NEW g, NEW set, IsFiniteSet(set), set # {},
         \A x \in set : f[x] \in Int /\ g[x] \in Int
  PROVE  \E t \in SUBSET set :
            /\ t # {} /\ IsFiniteSet(t)
            /\ \A x \in t, y \in set : f[y] <= f[x]
            /\ \A x \in t, y \in set : f[y] = f[x] => g[y] <= g[x]
            /\ \A x \in t, y \in set : f[y] = f[x] /\ g[y] = g[x] => y \in t
<1>1. PICK a : IsTop(f, set, a)
  BY FiniteTop
<1> DEFINE s == {x \in set : f[x] = f[a]}
<1>2. s \in SUBSET set /\ a \in s
  BY <1>1 DEF IsTop
<1>3. IsFiniteSet(s) /\ s # {}
  BY <1>2, FS_Subset
<1>4. \A x \in s : x \in set /\ f[x] = f[a] /\ g[x] \in Int
  OBVIOUS
<1>5. \A x \in set : f[x] = f[a] => x \in s
  OBVIOUS
<1> HIDE DEF s
<1>6. PICK b : IsTop(g, s, b)
  BY <1>3, <1>4, FiniteTop
<1> DEFINE t == {x \in s : g[x] = g[b]}
<1>7. t \in SUBSET set /\ b \in t
  BY <1>2, <1>6 DEF IsTop
<1>8. t # {} /\ IsFiniteSet(t)
  BY <1>7, FS_Subset
<1>9. \A x \in t : x \in s /\ f[x] = f[a] /\ g[x] = g[b]
  BY <1>4
<1>10. \A x \in s : g[x] = g[b] => x \in t
  OBVIOUS
<1> HIDE DEF t
<1>11. \A x \in t, y \in set : f[y] <= f[x]
  BY <1>1, <1>9 DEF IsTop
<1>12. \A x \in t, y \in set : f[y] = f[x] => g[y] <= g[x]
  BY <1>5, <1>6, <1>9 DEF IsTop
<1>13. \A x \in t, y \in set : f[y] = f[x] /\ g[y] = g[x] => y \in t
  BY <1>5, <1>9, <1>10
<1> QED
  BY <1>7, <1>8, <1>11, <1>12, <1>13

LEMMA NoCircle ==
  ASSUME LockInv, WholeDeliveries
  PROVE  NoCrossWait
<1> SUFFICES ASSUME NEW T \in SUBSET Sessions, T # {},
                    \A s \in T : \E t \in T : WaitsFor(s, t)
             PROVE  FALSE
  BY DEF NoCrossWait
<1>1. IsFiniteSet(T)
  BY LockingAssumption, FS_Subset
<1>2. \A s \in T : \E row \in Rows : Pending(s, row) # {}
  BY DEF WaitsFor
<1>3. \A s \in T : Rank(At(s)) \in Int /\ Material(s) \in Int /\ Place(s) \in Nat
  BY <1>2, WaitingAt
<1>4. \A s, t \in T : WaitsFor(s, t) => Climbs(s, t)
  BY <1>2, WaitsClimb
<1> DEFINE f == [s \in T |-> Rank(At(s))]
           g == [s \in T |-> Material(s)]
           h == [s \in T |-> 0 - Place(s)]
<1>5. \A s \in T : /\ f[s] = Rank(At(s)) /\ g[s] = Material(s) /\ h[s] = 0 - Place(s)
                   /\ f[s] \in Int /\ g[s] \in Int /\ h[s] \in Int
  BY <1>3
<1> HIDE DEF f, g, h
<1>6. PICK last \in SUBSET T :
         /\ last # {} /\ IsFiniteSet(last)
         /\ \A x \in last, y \in T : f[y] <= f[x]
         /\ \A x \in last, y \in T : f[y] = f[x] => g[y] <= g[x]
         /\ \A x \in last, y \in T : f[y] = f[x] /\ g[y] = g[x] => y \in last
  <2>1. \A x \in T : f[x] \in Int /\ g[x] \in Int
    BY <1>5
  <2> QED
    BY <1>1, <2>1, TopOfTop, Zenon
<1>7. \A s \in last : h[s] \in Int
  BY <1>5
<1>8. PICK s : IsTop(h, last, s)
  BY <1>6, <1>7, FiniteTop
<1>9. s \in last /\ s \in T
  BY <1>8 DEF IsTop
<1>10. PICK t \in T : WaitsFor(s, t)
  BY <1>9
<1>11. Climbs(s, t)
  BY <1>4, <1>9, <1>10
<1>12. CASE Rank(At(s)) < Rank(At(t))
  BY <1>5, <1>6, <1>9, <1>12
<1>13. CASE Rank(At(s)) = Rank(At(t)) /\ Material(s) < Material(t)
  BY <1>5, <1>6, <1>9, <1>13
<1>14. CASE At(s) = At(t) /\ Place(t) < Place(s)
  <2>1. f[t] = f[s] /\ g[t] = g[s]
    BY <1>5, <1>9, <1>14 DEF Material
  <2>2. t \in last
    BY <1>6, <1>9, <2>1
  <2>3. h[t] <= h[s]
    BY <1>8, <2>2 DEF IsTop
  <2> QED
    BY <1>3, <1>5, <1>9, <1>14, <2>3
<1> QED
  BY <1>11, <1>12, <1>13, <1>14 DEF Climbs

\* The balances, taken first and in key order, leave no cross waits: at no
\* time is there a set of requests each of which waits for another one of the
\* set, provided the deliveries of an order have a balance in common.
THEOREM NobodyWaitsInACircle == ASSUME WholeDeliveries PROVE Spec => []NoCrossWait
<1>1. LockInv => NoCrossWait
  BY NoCircle
<1> QED
  BY <1>1, LockInvariance, PTL

=============================================================================
