-------------------------- MODULE Numbering_proofs --------------------------
(***************************************************************************)
(* Document numbers for every number of sessions, keys, dates and          *)
(* handlers, however their statements interleave and whichever of them     *)
(* fail: a number that was read back is free, the audit rows are those of  *)
(* the committed documents, and the committed numbers are a NumberBook.    *)
(*                                                                         *)
(* The argument: a counter row that a session has advanced is locked, so   *)
(* it is advanced by that session only (Exclusive); the committed          *)
(* documents have the numbers 1, ..., counter (Committed); and the numbers *)
(* the session drew are counter + 1, ..., draft, each of them once         *)
(* (Counted, Numbered).                                                    *)
(***************************************************************************)
EXTENDS Numbering, FiniteSetTheorems, TLAPS

-----------------------------------------------------------------------------
(* The inductive invariant.  r, st, ns and dr are the request, the step,   *)
(* the numbers and the draft of a session, cnt the committed counters.     *)

\* How many of its numbers the session has read back.
ReadUpTo(st, ns) == IF st = "read" THEN Len(ns) - 1 ELSE Len(ns)

\* How far the session is when it is about to execute step st.
StepOK(r, st, ns) ==
    /\ Len(ns) <= Len(r)
    /\ st = "upsert" => r = << >> \/ Len(ns) < Len(r)
    /\ st \in {"read", "insert"} => Len(ns) >= 1
    /\ st \in {"audit", "commit"} => Len(ns) = Len(r)

\* The draws from a counter row among the first n.
Drawn(r, n, row) == {i \in 1..n : r[i] = row}

\* A draft counts the draws from its row.
Counted(r, ns, dr, cnt) ==
    \A row \in Rows :
        IF dr[row] = 0 THEN Drawn(r, Len(ns), row) = {}
        ELSE dr[row] > cnt[row] /\ dr[row] = cnt[row] + Cardinality(Drawn(r, Len(ns), row))

\* The numbers read so far lie above the committed counter.
Above(r, k, ns, dr, cnt) ==
    \A i \in 1..k : cnt[r[i]] < ns[i] /\ ns[i] <= dr[r[i]]

\* They differ.
Distinct(r, k, ns) ==
    \A i, j \in 1..k : i # j /\ r[i] = r[j] => ns[i] # ns[j]

\* Before the read-back the newest value of the counter is not in use.
Pending(r, st, k, ns, dr) ==
    st = "read" => /\ ns[Len(ns)] = 0
                   /\ dr[r[Len(ns)]] # 0
                   /\ \A i \in 1..k : r[i] = r[Len(ns)] => ns[i] < dr[r[Len(ns)]]

\* No number between the committed counter and the draft is left out.
NoGap(r, st, k, ns, dr, cnt) ==
    \A row \in Rows, n \in Nat : dr[row] # 0 /\ cnt[row] < n /\ n <= dr[row] =>
        \/ st = "read" /\ row = r[Len(ns)] /\ n = dr[row]
        \/ \E i \in 1..k : r[i] = row /\ ns[i] = n

Numbered(r, st, ns, dr, cnt) ==
    /\ Above(r, ReadUpTo(st, ns), ns, dr, cnt)
    /\ Distinct(r, ReadUpTo(st, ns), ns)
    /\ Pending(r, st, ReadUpTo(st, ns), ns, dr)
    /\ NoGap(r, st, ReadUpTo(st, ns), ns, dr, cnt)

SessionOK(r, st, ns, dr, cnt) ==
    StepOK(r, st, ns) /\ Counted(r, ns, dr, cnt) /\ Numbered(r, st, ns, dr, cnt)

\* An advanced counter row is locked.
Exclusive == \A s, t \in Sessions : s # t =>
                 \A row \in Rows : draft[s][row] = 0 \/ draft[t][row] = 0

\* The committed documents have the numbers 1, ..., counter.
Committed ==
    /\ \A d \in documents : d.number > 0 /\ d.number <= counter[d.row]
    /\ \A row \in Rows, n \in Nat : n > 0 /\ n <= counter[row] =>
          [row |-> row, number |-> n] \in documents

\* A closed session has written nothing.
Idle == \A s \in Sessions : request[s] = << >> =>
            step[s] = "upsert" /\ numbers[s] = << >> /\ draft[s] = NoRows

Drawing == \A s \in Sessions :
               SessionOK(request[s], step[s], numbers[s], draft[s], counter)

IInv == TypeOK /\ Exclusive /\ Committed /\ Idle /\ Drawing /\ AuditFollowsDocuments

-----------------------------------------------------------------------------
(* The statements of one session *)

\* A request is a sequence of counter rows, at least one.
LEMMA RequestType ==
  ASSUME NEW r \in Requests
  PROVE  r \in Seq(Rows) /\ Len(r) \in Nat \ {0} /\ r # << >>
<1>1. PICK p \in Programs, date \in Dates :
          r = [i \in 1..Len(p) |-> <<p[i], SequenceDate(p[i], date)>>]
  BY DEF Requests
<1>2. p \in Seq(DailyKeys \cup GlobalKeys) /\ p # << >>
  BY <1>1, NumberingAssumption
<1>3. Len(p) \in Nat \ {0}
  BY <1>2
<1>4. \A i \in 1..Len(p) : p[i] \in DailyKeys \cup GlobalKeys
  BY <1>2
<1>5. \A i \in 1..Len(p) : <<p[i], SequenceDate(p[i], date)>> \in Rows
  BY <1>4 DEF Rows
<1>6. r \in [1..Len(p) -> Rows]
  BY <1>1, <1>5
<1>7. r \in Seq(Rows) /\ Len(r) = Len(p)
  BY <1>3, <1>6
<1> QED
  BY <1>3, <1>7

\* The draws from a row are finitely many, and one more draw adds one.
LEMMA OneMoreDraw ==
  ASSUME NEW r, NEW n \in Nat, NEW row
  PROVE  /\ IsFiniteSet(Drawn(r, n, row))
         /\ Cardinality(Drawn(r, n, row)) \in Nat
         /\ r[n + 1] # row => Drawn(r, n + 1, row) = Drawn(r, n, row)
         /\ r[n + 1] = row => Cardinality(Drawn(r, n + 1, row)) = Cardinality(Drawn(r, n, row)) + 1
<1>1. IsFiniteSet(1..n)
  BY FS_Interval
<1>2. Drawn(r, n, row) \in SUBSET (1..n)
  BY DEF Drawn
<1>3. IsFiniteSet(Drawn(r, n, row))
  BY <1>1, <1>2, FS_Subset
<1>4. Cardinality(Drawn(r, n, row)) \in Nat
  BY <1>3, FS_CardinalityType
<1>5. ASSUME r[n + 1] # row PROVE Drawn(r, n + 1, row) = Drawn(r, n, row)
  BY <1>5 DEF Drawn
<1>6. ASSUME r[n + 1] = row
      PROVE  Cardinality(Drawn(r, n + 1, row)) = Cardinality(Drawn(r, n, row)) + 1
  <2>1. Drawn(r, n + 1, row) = Drawn(r, n, row) \cup {n + 1}
    BY <1>6 DEF Drawn
  <2>2. n + 1 \notin Drawn(r, n, row)
    BY DEF Drawn
  <2> QED
    BY <2>1, <2>2, <1>3, FS_AddElement
<1> QED
  BY <1>3, <1>4, <1>5, <1>6

\* The steps other than "read" say the same of the numbers.
LEMMA SameNumbers ==
  ASSUME NEW r, NEW st, NEW st1, NEW ns, NEW dr, NEW cnt,
         Numbered(r, st, ns, dr, cnt), st # "read", st1 # "read"
  PROVE  Numbered(r, st1, ns, dr, cnt)
  BY DEF Numbered, Pending, NoGap, ReadUpTo

\* A session without draws.
LEMMA NothingDrawn ==
  ASSUME NEW r, NEW st, NEW cnt, st # "read"
  PROVE  Counted(r, << >>, NoRows, cnt) /\ Numbered(r, st, << >>, NoRows, cnt)
<1>1. Len(<< >>) = 0 /\ 1..0 = {}
  OBVIOUS
<1>2. Counted(r, << >>, NoRows, cnt)
  BY <1>1 DEF Counted, Drawn, NoRows
<1>3. Numbered(r, st, << >>, NoRows, cnt)
  BY <1>1 DEF Numbered, Above, Distinct, Pending, NoGap, ReadUpTo, NoRows
<1> QED
  BY <1>2, <1>3

LEMMA Appended ==
  ASSUME NEW ns \in Seq(Nat), NEW x \in Nat
  PROVE  /\ Append(ns, x) \in Seq(Nat)
         /\ Len(Append(ns, x)) = Len(ns) + 1
         /\ Append(ns, x)[Len(ns) + 1] = x
         /\ \A i \in 1..Len(ns) : Append(ns, x)[i] = ns[i] /\ ns[i] \in Nat
  OBVIOUS

LEMMA Overwritten ==
  ASSUME NEW ns \in Seq(Nat), NEW k, NEW v \in Nat
  PROVE  [ns EXCEPT ![k] = v] \in Seq(Nat)
<1>1. Len(ns) \in Nat /\ ns \in [1..Len(ns) -> Nat]
  OBVIOUS
<1>2. [ns EXCEPT ![k] = v] \in [1..Len(ns) -> Nat]
  BY <1>1
<1> QED
  BY <1>1, <1>2

\* The upsert advances the counter row of the next draw.
LEMMA UpsertDraw ==
  ASSUME NEW r \in Seq(Rows), NEW ns \in Seq(Nat), NEW dr \in [Rows -> Nat],
         NEW cnt \in [Rows -> Nat], NEW st, st # "read", Len(ns) < Len(r),
         Counted(r, ns, dr, cnt), Numbered(r, st, ns, dr, cnt),
         NEW row, row = r[Len(ns) + 1],
         NEW v, v = (IF dr[row] # 0 THEN dr[row] ELSE cnt[row]) + 1
  PROVE  SessionOK(r, "read", Append(ns, 0), [dr EXCEPT ![row] = v], cnt)
<1> DEFINE n == Len(ns)
           ns1 == Append(ns, 0)
           dr1 == [dr EXCEPT ![row] = v]
<1>1. /\ n \in Nat /\ Len(r) \in Nat /\ Len(ns1) = n + 1
      /\ row \in Rows /\ \A i \in 1..n : r[i] \in Rows
      /\ ns1[n + 1] = 0 /\ \A i \in 1..n : ns1[i] = ns[i] /\ ns[i] \in Nat
  <2>1. n \in Nat /\ Len(r) \in Nat /\ Len(ns1) = n + 1 /\ ns1[n + 1] = 0
    BY Appended
  <2>2. \A i \in 1..n : ns1[i] = ns[i] /\ ns[i] \in Nat
    BY Appended
  <2>3. row \in Rows /\ \A i \in 1..n : r[i] \in Rows
    BY <2>1
  <2> QED
    BY <2>1, <2>2, <2>3
<1>2. /\ dr[row] \in Nat /\ cnt[row] \in Nat /\ v \in Nat
      /\ dr1[row] = v /\ \A q \in Rows : q # row => dr1[q] = dr[q]
      /\ \A q \in Rows : dr[q] \in Nat /\ cnt[q] \in Nat
  BY <1>1
<1>3. ReadUpTo("read", ns1) = n /\ ReadUpTo(st, ns) = n
  BY <1>1 DEF ReadUpTo
<1>4. dr[row] # 0 => dr[row] > cnt[row]
  BY <1>1 DEF Counted
<1>5. v > cnt[row] /\ v > dr[row] /\ v # 0
  BY <1>2, <1>4
<1> HIDE DEF n, ns1, dr1
<1>6. StepOK(r, "read", ns1)
  <2>1. n < Len(r) /\ n + 1 >= 1 /\ n + 1 <= Len(r)
    BY <1>1 DEF n
  <2> QED
    BY <2>1, <1>1 DEF StepOK
<1>7. Counted(r, ns1, dr1, cnt)
  <2> SUFFICES ASSUME NEW q \in Rows
               PROVE  IF dr1[q] = 0 THEN Drawn(r, n + 1, q) = {}
                      ELSE dr1[q] > cnt[q] /\ dr1[q] = cnt[q] + Cardinality(Drawn(r, n + 1, q))
    BY <1>1 DEF Counted
  <2>1. IF dr[q] = 0 THEN Drawn(r, n, q) = {}
        ELSE dr[q] > cnt[q] /\ dr[q] = cnt[q] + Cardinality(Drawn(r, n, q))
    BY DEF Counted, n
  <2>2. CASE q # row
    <3>1. Drawn(r, n + 1, q) = Drawn(r, n, q)
      BY <2>2, <1>1, OneMoreDraw DEF n
    <3> QED
      BY <3>1, <2>1, <2>2, <1>2
  <2>3. CASE q = row
    <3>1. Cardinality(Drawn(r, n + 1, row)) = Cardinality(Drawn(r, n, row)) + 1
      BY <1>1, OneMoreDraw DEF n
    <3>2. Cardinality(Drawn(r, n, row)) \in Nat
      BY <1>1, OneMoreDraw
    <3>3. CASE dr[row] = 0
      <4>1. Cardinality(Drawn(r, n, row)) = 0
        BY <2>1, <2>3, <3>3, FS_EmptySet
      <4> QED
        BY <4>1, <3>1, <3>3, <2>3, <1>2, <1>5
    <3>4. CASE dr[row] # 0
      <4>1. dr[row] = cnt[row] + Cardinality(Drawn(r, n, row)) /\ v = dr[row] + 1
        BY <2>1, <2>3, <3>4
      <4>2. PICK c \in Nat : c = Cardinality(Drawn(r, n, row))
        BY <3>2
      <4>3. dr[row] = cnt[row] + c
        BY <4>1, <4>2, Zenon
      <4>4. \A x, y, z, w \in Nat : x = y + z /\ w = x + 1 => w = y + (z + 1)
        OBVIOUS
      <4>5. v = cnt[row] + (c + 1)
        <5>1. v = dr[row] + 1
          BY <4>1, Zenon
        <5>2. dr[row] \in Nat /\ cnt[row] \in Nat
          BY <1>2, Zenon
        <5> QED
          BY <5>1, <5>2, <4>3, <4>4, Z3
      <4> QED
        BY <4>2, <4>5, <3>1, <2>3, <1>2, <1>5
    <3> QED
      BY <3>3, <3>4
  <2> QED
    BY <2>2, <2>3
<1>8. Above(r, n, ns, dr, cnt) /\ Distinct(r, n, ns) /\ NoGap(r, st, n, ns, dr, cnt)
  BY <1>3 DEF Numbered
<1>9. Above(r, n, ns1, dr1, cnt)
  <2> SUFFICES ASSUME NEW i \in 1..n PROVE cnt[r[i]] < ns1[i] /\ ns1[i] <= dr1[r[i]]
    BY DEF Above
  <2>1. cnt[r[i]] < ns[i] /\ ns[i] <= dr[r[i]]
    BY <1>8 DEF Above
  <2>2. r[i] \in Rows /\ ns1[i] = ns[i] /\ ns[i] \in Nat
    BY <1>1
  <2>3. dr[r[i]] \in Nat /\ dr1[r[i]] \in Nat /\ dr1[r[i]] >= dr[r[i]]
    <3>1. CASE r[i] = row
      BY <3>1, <1>2, <1>5
    <3>2. CASE r[i] # row
      <4>1. PICK x \in Rows : x = r[i]
        BY <2>2, Zenon
      <4>2. dr1[x] = dr[x] /\ dr[x] \in Nat
        BY <1>2, <3>2, <4>1
      <4>3. \A y \in Nat : y >= y
        OBVIOUS
      <4> QED
        BY <4>1, <4>2, <4>3, Zenon
    <3> QED
      BY <3>1, <3>2
  <2> QED
    BY <2>1, <2>2, <2>3
<1>10. Distinct(r, n, ns1)
  BY <1>1, <1>8 DEF Distinct
<1>11. Pending(r, "read", n, ns1, dr1)
  <2>1. r[Len(ns1)] = row /\ ns1[Len(ns1)] = 0 /\ dr1[row] = v
    BY <1>1, <1>2 DEF n
  <2>2. ASSUME NEW i \in 1..n, r[i] = row PROVE ns1[i] < v
    <3>1. ns[i] <= dr[row]
      BY <2>2, <1>8 DEF Above
    <3>2. ns1[i] = ns[i] /\ ns[i] \in Nat
      BY <1>1
    <3> QED
      BY <3>1, <3>2, <1>2, <1>5
  <2> QED
    BY <2>1, <2>2, <1>5 DEF Pending
<1>12. NoGap(r, "read", n, ns1, dr1, cnt)
  <2> SUFFICES ASSUME NEW q \in Rows, NEW k \in Nat, dr1[q] # 0, cnt[q] < k, k <= dr1[q]
               PROVE  \/ q = r[Len(ns1)] /\ k = dr1[q]
                      \/ \E i \in 1..n : r[i] = q /\ ns1[i] = k
    BY DEF NoGap
  <2>1. r[Len(ns1)] = row
    BY <1>1 DEF n
  <2>2. CASE q # row \/ k # dr1[q]
    <3>1. dr[q] # 0 /\ k <= dr[q]
      BY <2>2, <1>2
    <3>2. \E i \in 1..n : r[i] = q /\ ns[i] = k
      BY <3>1, <1>8 DEF NoGap
    <3> QED
      BY <3>2, <1>1
  <2> QED
    BY <2>1, <2>2
<1> QED
  BY <1>3, <1>6, <1>7, <1>9, <1>10, <1>11, <1>12 DEF SessionOK, Numbered, ns1, dr1

\* The read-back fills in the number.
LEMMA ReadDraw ==
  ASSUME NEW r \in Seq(Rows), NEW ns \in Seq(Nat), NEW dr \in [Rows -> Nat],
         NEW cnt \in [Rows -> Nat], SessionOK(r, "read", ns, dr, cnt),
         NEW v, v = dr[r[Len(ns)]]
  PROVE  /\ v # 0
         /\ SessionOK(r, "insert", [ns EXCEPT ![Len(ns)] = v], dr, cnt)
<1> DEFINE n == Len(ns)
           ns1 == [ns EXCEPT ![n] = v]
           row == r[n]
<1>1. n \in Nat /\ n >= 1 /\ n <= Len(r) /\ Len(r) \in Nat
  BY DEF SessionOK, StepOK
<1>2. /\ row \in Rows /\ v \in Nat /\ \A i \in 1..n : r[i] \in Rows /\ ns[i] \in Nat
      /\ \A q \in Rows : dr[q] \in Nat /\ cnt[q] \in Nat
  <2>1. \A q \in Rows : dr[q] \in Nat /\ cnt[q] \in Nat
    OBVIOUS
  <2>2. \A i \in 1..n : ns[i] \in Nat
    OBVIOUS
  <2>3. n \in 1..Len(r) /\ \A i \in 1..n : i \in 1..Len(r)
    BY <1>1
  <2>4. \A i \in 1..Len(r) : r[i] \in Rows
    OBVIOUS
  <2> QED
    BY <2>1, <2>2, <2>3, <2>4, Zenon
<1>3. Len(ns1) = n /\ ns1[n] = v /\ \A i \in 1..(n - 1) : ns1[i] = ns[i]
  BY <1>1
<1>4. ReadUpTo("read", ns) = n - 1 /\ ReadUpTo("insert", ns1) = n
  BY <1>1, <1>3 DEF ReadUpTo
<1> HIDE DEF n, ns1, row
<1>5. /\ Above(r, n - 1, ns, dr, cnt) /\ Distinct(r, n - 1, ns)
      /\ Pending(r, "read", n - 1, ns, dr) /\ NoGap(r, "read", n - 1, ns, dr, cnt)
  BY <1>4 DEF SessionOK, Numbered
<1>6. v = dr[row] /\ v # 0 /\ \A i \in 1..(n - 1) : r[i] = row => ns[i] < v
  BY <1>5 DEF Pending, n, row
<1>7. v > cnt[row]
  BY <1>2, <1>6 DEF SessionOK, Counted
<1>8. \A i \in 1..n : i = n \/ i \in 1..(n - 1)
  BY <1>1
<1>9. StepOK(r, "insert", ns1) /\ Counted(r, ns1, dr, cnt)
  BY <1>1, <1>3 DEF SessionOK, StepOK, Counted, n
<1>10. Above(r, n, ns1, dr, cnt)
  <2> SUFFICES ASSUME NEW i \in 1..n PROVE cnt[r[i]] < ns1[i] /\ ns1[i] <= dr[r[i]]
    BY DEF Above
  <2>1. CASE i = n
    BY <2>1, <1>2, <1>3, <1>6, <1>7 DEF row
  <2>2. CASE i \in 1..(n - 1)
    BY <2>2, <1>3, <1>5 DEF Above
  <2> QED
    BY <1>8, <2>1, <2>2
<1>11. Distinct(r, n, ns1)
  <2> SUFFICES ASSUME NEW i \in 1..n, NEW j \in 1..n, i # j, r[i] = r[j]
               PROVE  ns1[i] # ns1[j]
    BY DEF Distinct
  <2>1. CASE i = n
    BY <2>1, <1>2, <1>3, <1>6, <1>8 DEF row
  <2>2. CASE j = n
    BY <2>2, <1>2, <1>3, <1>6, <1>8 DEF row
  <2>3. CASE i \in 1..(n - 1) /\ j \in 1..(n - 1)
    BY <2>3, <1>3, <1>5 DEF Distinct
  <2> QED
    BY <1>8, <2>1, <2>2, <2>3
<1>12. Pending(r, "insert", n, ns1, dr)
  BY DEF Pending
<1>13. NoGap(r, "insert", n, ns1, dr, cnt)
  <2> SUFFICES ASSUME NEW q \in Rows, NEW k \in Nat, dr[q] # 0, cnt[q] < k, k <= dr[q]
               PROVE  \E i \in 1..n : r[i] = q /\ ns1[i] = k
    BY DEF NoGap
  <2>1. \/ q = row /\ k = dr[q]
        \/ \E i \in 1..(n - 1) : r[i] = q /\ ns[i] = k
    BY <1>5 DEF NoGap, n, row
  <2>2. CASE q = row /\ k = dr[q]
    BY <2>2, <1>1, <1>3, <1>6 DEF row
  <2>3. CASE \E i \in 1..(n - 1) : r[i] = q /\ ns[i] = k
    <3>1. PICK i \in 1..(n - 1) : r[i] = q /\ ns[i] = k
      BY <2>3
    <3>2. \A h \in 1..(n - 1) : h \in 1..n
      BY <1>1
    <3>3. i \in 1..n /\ ns1[i] = k
      BY <3>1, <3>2, <1>3, Zenon
    <3> QED
      BY <3>1, <3>3, Zenon
  <2> QED
    BY <2>1, <2>2, <2>3
<1> QED
  BY <1>4, <1>6, <1>9, <1>10, <1>11, <1>12, <1>13 DEF SessionOK, Numbered, ns1, n

\* Counters that the session has not advanced may move.
LEMMA OtherCounters ==
  ASSUME NEW r \in Seq(Rows), NEW st, NEW ns \in Seq(Nat), NEW dr \in [Rows -> Nat],
         NEW cnt \in [Rows -> Nat], NEW cnt1 \in [Rows -> Nat],
         SessionOK(r, st, ns, dr, cnt),
         \A row \in Rows : dr[row] # 0 => cnt1[row] = cnt[row]
  PROVE  SessionOK(r, st, ns, dr, cnt1)
<1>1. StepOK(r, st, ns) /\ Counted(r, ns, dr, cnt) /\ Numbered(r, st, ns, dr, cnt)
  BY DEF SessionOK
<1>2. Counted(r, ns, dr, cnt1)
  BY <1>1 DEF Counted
<1> DEFINE k == ReadUpTo(st, ns)
<1>3. Above(r, k, ns, dr, cnt) /\ NoGap(r, st, k, ns, dr, cnt)
  BY <1>1 DEF Numbered
<1>4. k \in Int /\ k <= Len(r) /\ Len(r) \in Nat /\ \A i \in 1..Len(ns) : ns[i] \in Nat
  <2>1. Len(ns) \in Nat /\ Len(r) \in Nat /\ \A i \in 1..Len(ns) : ns[i] \in Nat
    OBVIOUS
  <2>2. Len(ns) <= Len(r)
    BY <1>1 DEF StepOK
  <2> QED
    BY <2>1, <2>2 DEF ReadUpTo
<1>5. k <= Len(ns)
  BY DEF ReadUpTo
<1> HIDE DEF k
<1>6. Above(r, k, ns, dr, cnt1)
  <2> SUFFICES ASSUME NEW i \in 1..k PROVE cnt1[r[i]] < ns[i] /\ ns[i] <= dr[r[i]]
    BY DEF Above
  <2>1. cnt[r[i]] < ns[i] /\ ns[i] <= dr[r[i]]
    BY <1>3 DEF Above
  <2>2. r[i] \in Rows /\ ns[i] \in Nat /\ cnt[r[i]] \in Nat /\ dr[r[i]] \in Nat
    BY <1>4, <1>5
  <2>3. dr[r[i]] # 0
    BY <2>1, <2>2
  <2> QED
    BY <2>1, <2>2, <2>3
<1>7. NoGap(r, st, k, ns, dr, cnt1)
  BY <1>3 DEF NoGap
<1> QED
  BY <1>1, <1>2, <1>6, <1>7 DEF SessionOK, Numbered, k

-----------------------------------------------------------------------------
(* The steps of the specification *)

\* The state of a session.
LEMMA SessionType ==
  ASSUME TypeOK, NEW s \in Sessions
  PROVE  /\ request[s] \in Seq(Rows) /\ request[s] \in Requests \cup {<< >>}
         /\ numbers[s] \in Seq(Nat)
         /\ draft[s] \in [Rows -> Nat] /\ seen[s] \in [Rows -> Nat]
         /\ counter \in [Rows -> Nat]
         /\ IsOpen(s) => request[s] \in Requests /\ Len(request[s]) \in Nat \ {0}
<1>1. request[s] \in Requests \cup {<< >>}
  BY DEF TypeOK
<1>2. << >> \in Seq(Rows)
  OBVIOUS
<1>3. request[s] \in Seq(Rows)
  BY <1>1, <1>2, RequestType
<1> QED
  BY <1>1, <1>3, RequestType DEF TypeOK, IsOpen

\* A step of session s leaves the other ones as they are, and moves no counter
\* that one of them has advanced.
Others(s) ==
    \A t \in Sessions : t # s =>
        /\ request'[t] = request[t] /\ step'[t] = step[t]
        /\ numbers'[t] = numbers[t] /\ draft'[t] = draft[t]
        /\ \A row \in Rows : draft[t][row] # 0 => counter'[row] = counter[row]

LEMMA OneSession ==
  ASSUME TypeOK, TypeOK', Drawing, NEW s \in Sessions, Others(s),
         SessionOK(request'[s], step'[s], numbers'[s], draft'[s], counter')
  PROVE  Drawing'
<1> SUFFICES ASSUME NEW t \in Sessions, t # s
             PROVE  SessionOK(request'[t], step'[t], numbers'[t], draft'[t], counter')
  BY DEF Drawing
<1>1. SessionOK(request[t], step[t], numbers[t], draft[t], counter)
  BY DEF Drawing
<1>2. counter' \in [Rows -> Nat]
  BY DEF TypeOK
<1>3. \A row \in Rows : draft[t][row] # 0 => counter'[row] = counter[row]
  BY DEF Others
<1>4. SessionOK(request[t], step[t], numbers[t], draft[t], counter')
  BY <1>1, <1>2, <1>3, SessionType, OtherCounters
<1> QED
  BY <1>4 DEF Others

LEMMA InitStep == Init => IInv
<1> SUFFICES ASSUME Init PROVE IInv
  OBVIOUS
<1>1. NoRows \in [Rows -> Nat]
  BY DEF NoRows
<1>2. TypeOK
  BY <1>1 DEF Init, TypeOK
<1>3. \A s \in Sessions : draft[s] = NoRows /\ request[s] = << >> /\ numbers[s] = << >>
                          /\ step[s] = "upsert"
  BY DEF Init
<1>4. \A row \in Rows : NoRows[row] = 0
  BY DEF NoRows
<1>5. Exclusive
  BY <1>3, <1>4 DEF Exclusive
<1>6. Committed
  BY <1>4 DEF Committed, Init
<1>7. Idle
  BY <1>3 DEF Idle
<1>8. Drawing
  <2> SUFFICES ASSUME NEW s \in Sessions
               PROVE  SessionOK(<< >>, "upsert", << >>, NoRows, counter)
    BY <1>3 DEF Drawing
  <2>1. StepOK(<< >>, "upsert", << >>)
    BY DEF StepOK
  <2> QED
    BY <2>1, NothingDrawn DEF SessionOK
<1>9. AuditFollowsDocuments
  BY DEF Init, AuditFollowsDocuments
<1> QED
  BY <1>2, <1>5, <1>6, <1>7, <1>8, <1>9 DEF IInv

\* The documents and the audit rows do not move.
LEMMA SameDocuments ==
  ASSUME Committed, AuditFollowsDocuments, UNCHANGED <<counter, documents, audit>>
  PROVE  Committed' /\ AuditFollowsDocuments'
  BY DEF Committed, AuditFollowsDocuments

LEMMA StartStep ==
  ASSUME IInv, NEW s \in Sessions, NEW r \in Requests, Start(s, r)
  PROVE  IInv'
<1>1. TypeOK /\ Exclusive /\ Committed /\ Idle /\ Drawing /\ AuditFollowsDocuments
  BY DEF IInv
<1>2. /\ request' = [request EXCEPT ![s] = r] /\ step' = [step EXCEPT ![s] = "upsert"]
      /\ seen' = [seen EXCEPT ![s] = counter] /\ request[s] = << >>
      /\ UNCHANGED <<counter, documents, audit, draft, numbers>>
  BY DEF Start, IsOpen
<1>3. TypeOK'
  BY <1>1, <1>2 DEF TypeOK
<1>4. Others(s)
  BY <1>1, <1>2 DEF Others, TypeOK
<1>5. /\ request'[s] = r /\ step'[s] = "upsert"
      /\ numbers'[s] = << >> /\ draft'[s] = NoRows
  BY <1>1, <1>2 DEF Idle, TypeOK
<1>6. StepOK(r, "upsert", << >>)
  BY RequestType DEF StepOK
<1>7. SessionOK(request'[s], step'[s], numbers'[s], draft'[s], counter')
  BY <1>5, <1>6, NothingDrawn DEF SessionOK
<1>8. Drawing'
  BY <1>1, <1>3, <1>4, <1>7, OneSession
<1>9. Exclusive'
  BY <1>1, <1>2 DEF Exclusive
<1>10. Idle'
  BY <1>1, <1>2, <1>5, RequestType DEF Idle, Others, TypeOK
<1> QED
  BY <1>1, <1>2, <1>3, <1>8, <1>9, <1>10, SameDocuments DEF IInv

\* What a step of an open session says of closed ones.
LEMMA StillIdle ==
  ASSUME Idle, NEW s \in Sessions, IsOpen(s), request' = request, Others(s)
  PROVE  Idle'
  BY DEF Idle, Others, IsOpen

LEMMA UpsertStep ==
  ASSUME IInv, NEW s \in Sessions, Upsert(s)
  PROVE  IInv'
<1>1. TypeOK /\ Exclusive /\ Committed /\ Idle /\ Drawing /\ AuditFollowsDocuments
  BY DEF IInv
<1>2. PICK row, v : row = RowOf(s) /\ v = Current(s, row) + 1
  OBVIOUS
<1>3. /\ draft' = [draft EXCEPT ![s][row] = v]
      /\ numbers' = [numbers EXCEPT ![s] = Append(@, 0)]
      /\ step' = [step EXCEPT ![s] = "read"]
      /\ step[s] = "upsert" /\ ~Locked(s, row) /\ IsOpen(s)
      /\ UNCHANGED <<counter, documents, audit, request, seen>>
  BY <1>2 DEF Upsert
<1>4. SessionOK(request[s], "upsert", numbers[s], draft[s], counter)
  BY <1>1, <1>3 DEF Drawing
<1>5. Len(numbers[s]) < Len(request[s])
  BY <1>3, <1>4 DEF SessionOK, StepOK, IsOpen
<1>6. row = request[s][Len(numbers[s]) + 1]
  BY <1>2, <1>3 DEF RowOf
<1>7. /\ request[s] \in Seq(Rows) /\ numbers[s] \in Seq(Nat)
      /\ draft[s] \in [Rows -> Nat] /\ counter \in [Rows -> Nat]
  BY <1>1, SessionType
<1>8. row \in Rows
  BY <1>5, <1>6, <1>7
<1>9. v = (IF draft[s][row] # 0 THEN draft[s][row] ELSE counter[row]) + 1
  BY <1>2 DEF Current
<1>10. v \in Nat
  BY <1>7, <1>8, <1>9
<1>11. SessionOK(request[s], "read", Append(numbers[s], 0), [draft[s] EXCEPT ![row] = v], counter)
  BY <1>4, <1>5, <1>6, <1>7, <1>9, UpsertDraw DEF SessionOK
<1>12. /\ draft'[s] = [draft[s] EXCEPT ![row] = v] /\ numbers'[s] = Append(numbers[s], 0)
       /\ step'[s] = "read"
  BY <1>1, <1>3 DEF TypeOK
<1>13. Others(s)
  BY <1>1, <1>3 DEF Others, TypeOK
<1>14. TypeOK'
  <2>1. draft' \in [Sessions -> [Rows -> Nat]]
    BY <1>1, <1>3, <1>10 DEF TypeOK
  <2>2. numbers' \in [Sessions -> Seq(Nat)]
    BY <1>1, <1>3 DEF TypeOK
  <2> QED
    BY <2>1, <2>2, <1>1, <1>3 DEF TypeOK
<1>15. Drawing'
  BY <1>1, <1>3, <1>11, <1>12, <1>13, <1>14, OneSession
<1>16. Exclusive'
  <2> SUFFICES ASSUME NEW a \in Sessions, NEW b \in Sessions, a # b, NEW q \in Rows
               PROVE  draft'[a][q] = 0 \/ draft'[b][q] = 0
    BY DEF Exclusive
  <2>1. draft[a][q] = 0 \/ draft[b][q] = 0
    BY <1>1 DEF Exclusive
  <2>2. \A t \in Sessions : t # s => draft'[t] = draft[t] /\ draft[t][row] = 0
    BY <1>3, <1>13 DEF Others, Locked
  <2>3. q # row => draft'[s][q] = draft[s][q]
    BY <1>7, <1>12
  <2> QED
    BY <2>1, <2>2, <2>3
<1>17. Idle'
  BY <1>1, <1>3, <1>13, StillIdle
<1> QED
  BY <1>1, <1>3, <1>14, <1>15, <1>16, <1>17, SameDocuments DEF IInv

LEMMA ReadStep ==
  ASSUME IInv, NEW s \in Sessions, Read(s)
  PROVE  IInv'
<1>1. TypeOK /\ Exclusive /\ Committed /\ Idle /\ Drawing /\ AuditFollowsDocuments
  BY DEF IInv
<1>2. /\ IsOpen(s) /\ step[s] = "read" /\ step' = [step EXCEPT ![s] = "insert"]
      /\ numbers' = [numbers EXCEPT ![s][Len(numbers[s])] = ReadBack(s, RowOf(s))]
      /\ UNCHANGED <<counter, documents, audit, request, seen, draft>>
  BY DEF Read
<1>3. PICK v : v = draft[s][request[s][Len(numbers[s])]]
  OBVIOUS
<1>4. /\ request[s] \in Seq(Rows) /\ numbers[s] \in Seq(Nat)
      /\ draft[s] \in [Rows -> Nat] /\ counter \in [Rows -> Nat]
  BY <1>1, SessionType
<1>5. SessionOK(request[s], "read", numbers[s], draft[s], counter)
  BY <1>1, <1>2 DEF Drawing
<1>6. v # 0 /\ SessionOK(request[s], "insert", [numbers[s] EXCEPT ![Len(numbers[s])] = v],
                         draft[s], counter)
  BY <1>3, <1>4, <1>5, ReadDraw
<1>7. ReadBack(s, RowOf(s)) = v
  BY <1>2, <1>3, <1>6 DEF ReadBack, RowOf
<1>8. numbers' = [numbers EXCEPT ![s] = [numbers[s] EXCEPT ![Len(numbers[s])] = v]]
  BY <1>1, <1>2, <1>7 DEF TypeOK
<1>9. numbers'[s] = [numbers[s] EXCEPT ![Len(numbers[s])] = v] /\ step'[s] = "insert"
  BY <1>1, <1>2, <1>8 DEF TypeOK
<1>10. [numbers[s] EXCEPT ![Len(numbers[s])] = v] \in Seq(Nat)
  <2>1. Len(numbers[s]) \in 1..Len(request[s])
    BY <1>4, <1>5 DEF SessionOK, StepOK
  <2>2. v \in Nat
    BY <2>1, <1>3, <1>4
  <2> QED
    BY <2>2, <1>4, Overwritten
<1>11. TypeOK'
  BY <1>1, <1>2, <1>8, <1>10 DEF TypeOK
<1>12. Others(s)
  BY <1>1, <1>2, <1>8 DEF Others, TypeOK
<1>13. Drawing'
  BY <1>1, <1>2, <1>6, <1>9, <1>11, <1>12, OneSession
<1>14. Exclusive'
  BY <1>1, <1>2 DEF Exclusive
<1> QED
  BY <1>1, <1>2, <1>11, <1>12, <1>13, <1>14, StillIdle, SameDocuments DEF IInv

\* A step that only moves the session on.
LEMMA MoveOn ==
  ASSUME IInv, NEW s \in Sessions, IsOpen(s), step[s] # "read",
         NEW st \in {"upsert", "audit", "commit"},
         StepOK(request[s], st, numbers[s]),
         step' = [step EXCEPT ![s] = st],
         UNCHANGED <<counter, documents, audit, request, seen, draft, numbers>>
  PROVE  IInv'
<1>1. TypeOK /\ Exclusive /\ Committed /\ Idle /\ Drawing /\ AuditFollowsDocuments
  BY DEF IInv
<1>2. TypeOK'
  BY <1>1 DEF TypeOK
<1>3. Others(s)
  BY <1>1 DEF Others, TypeOK
<1>4. step'[s] = st
  BY <1>1 DEF TypeOK
<1>5. SessionOK(request[s], step[s], numbers[s], draft[s], counter)
  BY <1>1 DEF Drawing
<1>6. Numbered(request[s], st, numbers[s], draft[s], counter)
  BY <1>5, SameNumbers DEF SessionOK
<1>7. SessionOK(request[s], st, numbers[s], draft[s], counter)
  BY <1>5, <1>6 DEF SessionOK
<1>8. Drawing'
  BY <1>1, <1>2, <1>3, <1>4, <1>7, OneSession
<1>9. Exclusive'
  BY <1>1 DEF Exclusive
<1> QED
  BY <1>1, <1>2, <1>3, <1>8, <1>9, StillIdle, SameDocuments DEF IInv

LEMMA InsertStep ==
  ASSUME IInv, NEW s \in Sessions, Insert(s)
  PROVE  IInv'
<1>1. PICK st : st = IF Len(numbers[s]) < Len(request[s]) THEN "upsert" ELSE "audit"
  OBVIOUS
<1>2. /\ IsOpen(s) /\ step[s] = "insert" /\ step' = [step EXCEPT ![s] = st]
      /\ UNCHANGED <<counter, documents, audit, request, seen, draft, numbers>>
  BY <1>1 DEF Insert
<1>3. StepOK(request[s], "insert", numbers[s])
  BY <1>2 DEF IInv, Drawing, SessionOK
<1>4. request[s] \in Seq(Rows) /\ numbers[s] \in Seq(Nat)
  BY SessionType DEF IInv
<1>5. Len(request[s]) \in Nat /\ Len(numbers[s]) \in Nat
  BY <1>4
<1>6. StepOK(request[s], st, numbers[s]) /\ st \in {"upsert", "audit", "commit"}
  BY <1>1, <1>3, <1>5 DEF StepOK
<1> QED
  BY <1>2, <1>6, MoveOn

LEMMA WriteAuditStep ==
  ASSUME IInv, NEW s \in Sessions, WriteAudit(s)
  PROVE  IInv'
<1>1. /\ IsOpen(s) /\ step[s] = "audit" /\ step' = [step EXCEPT ![s] = "commit"]
      /\ UNCHANGED <<counter, documents, audit, request, seen, draft, numbers>>
  BY DEF WriteAudit
<1>2. StepOK(request[s], "audit", numbers[s])
  BY <1>1 DEF IInv, Drawing, SessionOK
<1>3. StepOK(request[s], "commit", numbers[s])
  BY <1>2 DEF StepOK
<1> QED
  BY <1>1, <1>3, MoveOn

\* Commit and rollback close the session.
LEMMA ClosedSession ==
  ASSUME TypeOK, NEW s \in Sessions, Close(s)
  PROVE  /\ request' \in [Sessions -> Requests \cup {<< >>}]
         /\ step' \in [Sessions -> {"upsert", "read", "insert", "audit", "commit"}]
         /\ seen' \in [Sessions -> [Rows -> Nat]]
         /\ draft' \in [Sessions -> [Rows -> Nat]]
         /\ numbers' \in [Sessions -> Seq(Nat)]
         /\ \A t \in Sessions : t # s =>
               /\ request'[t] = request[t] /\ step'[t] = step[t]
               /\ numbers'[t] = numbers[t] /\ draft'[t] = draft[t]
         /\ request'[s] = << >> /\ step'[s] = "upsert"
         /\ numbers'[s] = << >> /\ draft'[s] = NoRows
         /\ Exclusive => Exclusive'
         /\ Idle => Idle'
         /\ SessionOK(request'[s], step'[s], numbers'[s], draft'[s], counter')
<1>1. NoRows \in [Rows -> Nat] /\ \A row \in Rows : NoRows[row] = 0
  BY DEF NoRows
<1>2. << >> \in Seq(Nat)
  OBVIOUS
<1>3. /\ request' = [request EXCEPT ![s] = << >>] /\ step' = [step EXCEPT ![s] = "upsert"]
      /\ seen' = [seen EXCEPT ![s] = NoRows] /\ draft' = [draft EXCEPT ![s] = NoRows]
      /\ numbers' = [numbers EXCEPT ![s] = << >>]
  BY DEF Close
<1>4. /\ request' \in [Sessions -> Requests \cup {<< >>}]
      /\ step' \in [Sessions -> {"upsert", "read", "insert", "audit", "commit"}]
      /\ seen' \in [Sessions -> [Rows -> Nat]]
      /\ draft' \in [Sessions -> [Rows -> Nat]]
      /\ numbers' \in [Sessions -> Seq(Nat)]
  BY <1>1, <1>2, <1>3 DEF TypeOK
<1>5. \A t \in Sessions : t # s =>
          /\ request'[t] = request[t] /\ step'[t] = step[t]
          /\ numbers'[t] = numbers[t] /\ draft'[t] = draft[t]
  BY <1>3 DEF TypeOK
<1>6. /\ request'[s] = << >> /\ step'[s] = "upsert"
      /\ numbers'[s] = << >> /\ draft'[s] = NoRows
  BY <1>3 DEF TypeOK
<1>7. Exclusive => Exclusive'
  BY <1>1, <1>5, <1>6 DEF Exclusive
<1>8. Idle => Idle'
  BY <1>5, <1>6 DEF Idle
<1>9. StepOK(<< >>, "upsert", << >>)
  BY DEF StepOK
<1>10. SessionOK(request'[s], step'[s], numbers'[s], draft'[s], counter')
  BY <1>6, <1>9, NothingDrawn DEF SessionOK
<1> QED
  BY <1>4, <1>5, <1>6, <1>7, <1>8, <1>10

LEMMA RollbackStep ==
  ASSUME IInv, NEW s \in Sessions, Rollback(s)
  PROVE  IInv'
<1>1. TypeOK /\ Exclusive /\ Committed /\ Idle /\ Drawing /\ AuditFollowsDocuments
  BY DEF IInv
<1>2. Close(s) /\ UNCHANGED <<counter, documents, audit>>
  BY DEF Rollback, UndoneCounter, UndoneAudit
<1>3. TypeOK'
  BY <1>1, <1>2, ClosedSession DEF TypeOK
<1>4. Others(s)
  BY <1>1, <1>2, ClosedSession DEF Others
<1>5. Drawing'
  BY <1>1, <1>2, <1>3, <1>4, ClosedSession, OneSession
<1> QED
  BY <1>1, <1>2, <1>3, <1>5, ClosedSession, SameDocuments DEF IInv

\* The documents of a request that is about to commit.
LEMMA Inserting ==
  ASSUME IInv, NEW s \in Sessions, IsOpen(s), step[s] = "commit"
  PROVE  /\ Len(numbers[s]) = Len(request[s])
         /\ Inserted(s) \subseteq Document
         /\ Subject(s) \in Inserted(s)
         /\ \A d \in Inserted(s) : d.number > 0 /\ d.number <= Current(s, d.row)
         /\ \A row \in Rows, n \in Nat : counter[row] < n /\ n <= Current(s, row) =>
               [row |-> row, number |-> n] \in Inserted(s)
<1>1. SessionOK(request[s], "commit", numbers[s], draft[s], counter)
  BY DEF IInv, Drawing
<1>2. /\ request[s] \in Seq(Rows) /\ numbers[s] \in Seq(Nat)
      /\ draft[s] \in [Rows -> Nat] /\ counter \in [Rows -> Nat]
      /\ Len(request[s]) \in Nat \ {0}
  BY SessionType DEF IInv
<1>3. Len(numbers[s]) = Len(request[s])
  BY <1>1 DEF SessionOK, StepOK
<1>4. \A i \in 1..Len(numbers[s]) : request[s][i] \in Rows /\ numbers[s][i] \in Nat
  BY <1>2, <1>3
<1>5. /\ Above(request[s], Len(numbers[s]), numbers[s], draft[s], counter)
      /\ NoGap(request[s], "commit", Len(numbers[s]), numbers[s], draft[s], counter)
  BY <1>1 DEF SessionOK, Numbered, ReadUpTo
<1>6. Inserted(s) \subseteq Document
  BY <1>4 DEF Inserted, Document
<1>7. Subject(s) \in Inserted(s)
  <2>1. 1 \in 1..Len(numbers[s])
    BY <1>2, <1>3
  <2> QED
    BY <2>1 DEF Subject, Inserted
<1>8. ASSUME NEW d \in Inserted(s) PROVE d.number > 0 /\ d.number <= Current(s, d.row)
  <2>1. PICK i \in 1..Len(numbers[s]) : d = [row |-> request[s][i], number |-> numbers[s][i]]
    BY DEF Inserted
  <2>2. d.row = request[s][i] /\ d.number = numbers[s][i] /\ d.row \in Rows /\ d.number \in Nat
    BY <2>1, <1>4
  <2>3. counter[d.row] < d.number /\ d.number <= draft[s][d.row]
    BY <2>2, <1>5 DEF Above
  <2>4. counter[d.row] \in Nat /\ draft[s][d.row] \in Nat
    BY <2>2, <1>2
  <2>5. d.number > 0 /\ draft[s][d.row] # 0
    BY <2>2, <2>3, <2>4
  <2> QED
    BY <2>3, <2>5 DEF Current
<1>9. ASSUME NEW row \in Rows, NEW n \in Nat, counter[row] < n, n <= Current(s, row)
      PROVE  [row |-> row, number |-> n] \in Inserted(s)
  <2>1. counter[row] \in Nat
    BY <1>2
  <2>2. draft[s][row] # 0 /\ n <= draft[s][row]
    BY <2>1, <1>9 DEF Current
  <2>3. \E i \in 1..Len(numbers[s]) : request[s][i] = row /\ numbers[s][i] = n
    BY <2>2, <1>5, <1>9 DEF NoGap
  <2> QED
    BY <2>3 DEF Inserted
<1> QED
  BY <1>3, <1>6, <1>7, <1>8, <1>9

\* No handler is about a document of another position than the first.
LEMMA SubjectFirst ==
  ASSUME NEW r \in Requests, NEW i \in 1..Len(r), r[i][1] \in {p[1] : p \in Programs}
  PROVE  i = 1
<1>1. PICK p \in Programs, date \in Dates :
          r = [j \in 1..Len(p) |-> <<p[j], SequenceDate(p[j], date)>>]
  BY DEF Requests
<1>2. Len(p) \in Nat
  BY <1>1, NumberingAssumption
<1>3. Len(r) = Len(p) /\ r[i] = <<p[i], SequenceDate(p[i], date)>>
  BY <1>1, <1>2
<1>4. PICK q \in Programs : p[i] = q[1]
  BY <1>3
<1>5. i \notin 2..Len(p)
  BY <1>4, NumberingAssumption
<1> QED
  BY <1>2, <1>3, <1>5

LEMMA CommitStep ==
  ASSUME IInv, NEW s \in Sessions, Commit(s)
  PROVE  IInv'
<1>1. TypeOK /\ Exclusive /\ Committed /\ Idle /\ Drawing /\ AuditFollowsDocuments
  BY DEF IInv
<1>2. /\ IsOpen(s) /\ step[s] = "commit" /\ Close(s)
      /\ counter' = [row \in Rows |-> Current(s, row)]
      /\ documents' = documents \cup Inserted(s)
      /\ audit' = audit \cup {Subject(s)}
  BY DEF Commit
<1>3. draft[s] \in [Rows -> Nat] /\ counter \in [Rows -> Nat]
      /\ request[s] \in Requests
  BY <1>1, <1>2, SessionType
<1>4. \A row \in Rows : /\ Current(s, row) \in Nat /\ counter[row] \in Nat
                        /\ counter[row] <= Current(s, row)
  <2> SUFFICES ASSUME NEW row \in Rows
               PROVE  /\ Current(s, row) \in Nat /\ counter[row] \in Nat
                      /\ counter[row] <= Current(s, row)
    OBVIOUS
  <2>1. draft[s][row] \in Nat /\ counter[row] \in Nat
    BY <1>3
  <2>2. draft[s][row] # 0 => draft[s][row] > counter[row]
    BY <1>1 DEF Drawing, SessionOK, Counted
  <2> QED
    BY <2>1, <2>2 DEF Current
<1>5. counter' \in [Rows -> Nat] /\ \A row \in Rows : counter'[row] = Current(s, row)
  BY <1>2, <1>4
<1>6. /\ Inserted(s) \subseteq Document /\ Subject(s) \in Inserted(s)
      /\ \A d \in Inserted(s) : d.number > 0 /\ d.number <= Current(s, d.row)
      /\ \A row \in Rows, n \in Nat : counter[row] < n /\ n <= Current(s, row) =>
               [row |-> row, number |-> n] \in Inserted(s)
  BY <1>2, Inserting
<1>7. documents' \subseteq Document /\ audit' \subseteq Document
  BY <1>1, <1>2, <1>6 DEF TypeOK
<1>8. TypeOK'
  BY <1>1, <1>2, <1>5, <1>7, ClosedSession DEF TypeOK
<1>9. Others(s)
  <2> SUFFICES ASSUME NEW t \in Sessions, t # s, NEW row \in Rows, draft[t][row] # 0
               PROVE  counter'[row] = counter[row]
    BY <1>1, <1>2, ClosedSession DEF Others
  <2>1. draft[s][row] = 0
    BY <1>1 DEF Exclusive
  <2> QED
    BY <2>1, <1>5 DEF Current
<1>10. Drawing'
  BY <1>1, <1>2, <1>8, <1>9, ClosedSession, OneSession
<1>11. Committed'
  <2>1. ASSUME NEW d \in documents' PROVE d.number > 0 /\ d.number <= counter'[d.row]
    <3>1. d \in Document
      BY <1>7
    <3>2. d.row \in Rows /\ d.number \in Nat
      BY <3>1 DEF Document
    <3>3. CASE d \in documents
      <4>1. d.number > 0 /\ d.number <= counter[d.row]
        BY <3>3, <1>1 DEF Committed
      <4> QED
        BY <4>1, <3>2, <1>4, <1>5
    <3>4. CASE d \in Inserted(s)
      BY <3>2, <3>4, <1>5, <1>6
    <3> QED
      BY <3>3, <3>4, <1>2
  <2>2. ASSUME NEW row \in Rows, NEW n \in Nat, n > 0, n <= counter'[row]
        PROVE  [row |-> row, number |-> n] \in documents'
    <3>1. CASE n <= counter[row]
      BY <3>1, <2>2, <1>1, <1>2 DEF Committed
    <3>2. CASE counter[row] < n
      BY <3>2, <2>2, <1>2, <1>5, <1>6
    <3> QED
      BY <3>1, <3>2, <1>4
  <2> QED
    BY <2>1, <2>2 DEF Committed
<1>12. AuditFollowsDocuments'
  <2>1. audit' \subseteq documents'
    BY <1>1, <1>2, <1>6 DEF AuditFollowsDocuments
  <2>2. ASSUME NEW d \in documents', d.row[1] \in {p[1] : p \in Programs}
        PROVE  d \in audit'
    <3>1. CASE d \in documents
      BY <3>1, <2>2, <1>1, <1>2 DEF AuditFollowsDocuments
    <3>2. CASE d \in Inserted(s)
      <4>1. PICK i \in 1..Len(numbers[s]) :
                d = [row |-> request[s][i], number |-> numbers[s][i]]
        BY <3>2 DEF Inserted
      <4>2. i \in 1..Len(request[s]) /\ d.row = request[s][i]
        BY <4>1, <1>2, Inserting
      <4>3. i = 1
        BY <4>2, <2>2, <1>3, SubjectFirst
      <4> QED
        BY <4>1, <4>3, <1>2 DEF Subject
    <3> QED
      BY <3>1, <3>2, <1>2
  <2> QED
    BY <2>1, <2>2 DEF AuditFollowsDocuments
<1> QED
  BY <1>1, <1>2, <1>8, <1>10, <1>11, <1>12, ClosedSession DEF IInv

LEMMA InvariantStep == IInv /\ [Next]_vars => IInv'
<1> SUFFICES ASSUME IInv, [Next]_vars PROVE IInv'
  OBVIOUS
<1>1. CASE Next
  BY <1>1, StartStep, UpsertStep, ReadStep, InsertStep, WriteAuditStep, CommitStep,
     RollbackStep, Zenon DEF Next
<1>2. CASE UNCHANGED vars
  BY <1>2 DEF vars, IInv, TypeOK, Exclusive, Committed, Idle, Drawing, AuditFollowsDocuments
<1> QED
  BY <1>1, <1>2

-----------------------------------------------------------------------------
(* A number that was read back is free *)

LEMMA FreeNumber == IInv => NeverCollides
<1> SUFFICES ASSUME IInv, NEW s \in Sessions, IsOpen(s), step[s] = "insert"
             PROVE  LET d == [row |-> RowOf(s), number |-> numbers[s][Len(numbers[s])]]
                    IN  d.number > 0 /\ ~Taken(s, d)
  BY DEF NeverCollides
<1> DEFINE n == Len(numbers[s])
           row == request[s][n]
           d == [row |-> row, number |-> numbers[s][n]]
<1>1. RowOf(s) = row
  BY DEF RowOf
<1>2. SessionOK(request[s], "insert", numbers[s], draft[s], counter)
  BY DEF IInv, Drawing
<1>3. /\ request[s] \in Seq(Rows) /\ numbers[s] \in Seq(Nat)
      /\ draft[s] \in [Rows -> Nat] /\ counter \in [Rows -> Nat]
  BY SessionType DEF IInv
<1>4. n \in 1..Len(request[s]) /\ n \in 1..n
  BY <1>2, <1>3 DEF SessionOK, StepOK
<1>5. row \in Rows /\ d.number \in Nat /\ counter[row] \in Nat /\ draft[s][row] \in Nat
  BY <1>3, <1>4
<1>6. /\ Above(request[s], n, numbers[s], draft[s], counter)
      /\ Distinct(request[s], n, numbers[s])
  BY <1>2 DEF SessionOK, Numbered, ReadUpTo
<1>7. counter[row] < d.number /\ d.number <= draft[s][row]
  BY <1>4, <1>6 DEF Above
<1>8. d.number > 0 /\ draft[s][row] # 0
  BY <1>5, <1>7
<1>9. d \notin documents
  BY <1>5, <1>7 DEF IInv, Committed
<1>10. ASSUME NEW t \in Sessions, t # s, d \in Inserted(t) PROVE FALSE
  <2>1. PICK i \in 1..Len(numbers[t]) : row = request[t][i] /\ d.number = numbers[t][i]
    BY <1>10 DEF Inserted
  <2>2. SessionOK(request[t], step[t], numbers[t], draft[t], counter)
    BY DEF IInv, Drawing
  <2>3. draft[t][row] # 0
    <3>1. /\ numbers[t] \in Seq(Nat) /\ draft[t] \in [Rows -> Nat]
      BY SessionType DEF IInv
    <3>2. CASE i \in 1..ReadUpTo(step[t], numbers[t])
      <4>1. d.number <= draft[t][row]
        BY <2>1, <2>2, <3>2 DEF SessionOK, Numbered, Above
      <4> QED
        BY <4>1, <3>1, <1>5, <1>8
    <3>3. CASE i \notin 1..ReadUpTo(step[t], numbers[t])
      <4>1. step[t] = "read" /\ i = Len(numbers[t])
        BY <3>1, <3>3 DEF ReadUpTo
      <4> QED
        BY <4>1, <2>1, <2>2, <1>8 DEF SessionOK, Numbered, Pending
    <3> QED
      BY <3>2, <3>3
  <2> QED
    BY <2>3, <1>5, <1>8, <1>10 DEF IInv, Exclusive
<1>11. ASSUME NEW i \in 1..(n - 1),
              d = [row |-> request[s][i], number |-> numbers[s][i]]
       PROVE  FALSE
  <2>1. request[s][i] = row /\ numbers[s][i] = numbers[s][n]
    BY <1>11
  <2>2. i \in 1..n /\ i # n
    BY <1>4
  <2> QED
    BY <2>1, <2>2, <1>4, <1>6 DEF Distinct
<1> HIDE DEF d, row, n
<1>12. ~Taken(s, d)
  BY <1>9, <1>10, <1>11, Zenon DEF Taken, n
<1> QED
  BY <1>1, <1>8, <1>12 DEF d, n

\* The UNIQUE key of a document never refuses a number that was read back,
\* whichever requests draw from the same counter row at the same time and
\* whichever of them roll back (numbering_service.next_sequence_value).
THEOREM NumbersNeverCollide == Spec => []NeverCollides
<1>1. Spec => []IInv
  BY InitStep, InvariantStep, PTL DEF Spec
<1> QED
  BY <1>1, FreeNumber, PTL

\* The audit rows of creations are those of the committed documents
\* (audit_service.write_audit on the session of the request).
THEOREM AuditRowsFollow == Spec => []AuditFollowsDocuments
<1>1. Spec => []IInv
  BY InitStep, InvariantStep, PTL DEF Spec
<1>2. IInv => AuditFollowsDocuments
  BY DEF IInv
<1> QED
  BY <1>1, <1>2, PTL

-----------------------------------------------------------------------------
(* The numbers are a NumberBook *)

Issued == [row \in Rows |-> {d.number : d \in {e \in documents : e.row = row}}]

\* The numbers of a counter row are 1, ..., counter.
IssuedUpToCounter == \A row \in Rows : /\ Issued[row] = 1..counter[row]
                                       /\ Cardinality(Issued[row]) = counter[row]

LEMMA IssuedIs == IInv => IssuedUpToCounter
<1> SUFFICES ASSUME TypeOK, Committed, NEW row \in Rows
             PROVE  /\ Issued[row] = 1..counter[row]
                    /\ Cardinality(Issued[row]) = counter[row]
  BY DEF IInv, IssuedUpToCounter
<1>1. counter[row] \in Nat
  BY DEF TypeOK
<1>2. ASSUME NEW n \in Issued[row] PROVE n \in 1..counter[row]
  <2>1. PICK d \in documents : d.row = row /\ d.number = n
    BY <1>2 DEF Issued
  <2>2. d \in Document
    BY DEF TypeOK
  <2>3. n \in Nat
    BY <2>1, <2>2 DEF Document
  <2>4. n > 0 /\ n <= counter[row]
    BY <2>1 DEF Committed
  <2> QED
    BY <2>3, <2>4, <1>1
<1>3. ASSUME NEW n \in 1..counter[row] PROVE n \in Issued[row]
  <2>1. n \in Nat /\ n > 0 /\ n <= counter[row]
    BY <1>1
  <2>2. [row |-> row, number |-> n] \in documents
    BY <2>1 DEF Committed
  <2> QED
    BY <2>2 DEF Issued
<1>4. Issued[row] = 1..counter[row]
  BY <1>2, <1>3
<1>5. Cardinality(1..counter[row]) = counter[row]
  BY <1>1, FS_Interval
<1> QED
  BY <1>4, <1>5

\* A commit takes greater numbers of every counter row it drew from, one for
\* every draw.
LEMMA CommitIssues ==
  ASSUME IInv, NEW s \in Sessions, Commit(s)
  PROVE  \E r \in Requests : \A row \in Rows :
            LET new == Issued'[row] \ Issued[row]
            IN  /\ Issued[row] \subseteq Issued'[row]
                /\ Cardinality(new) = Book!Demand(r, row)
                /\ \A n \in new, k \in Issued[row] : n > k
<1>1. IInv'
  BY CommitStep
<1>2. /\ IsOpen(s) /\ step[s] = "commit"
      /\ counter' = [row \in Rows |-> Current(s, row)]
  BY DEF Commit
<1>3. TypeOK /\ Committed /\ TypeOK' /\ Committed'
  BY <1>1 DEF IInv
<1>4. PICK r \in Requests : r = request[s]
  BY <1>2, <1>3, SessionType
<1>5. SessionOK(r, "commit", numbers[s], draft[s], counter)
  BY <1>2, <1>4 DEF IInv, Drawing
<1>6. Len(numbers[s]) = Len(r)
  BY <1>5 DEF SessionOK, StepOK
<1>7. ASSUME NEW row \in Rows
      PROVE  LET new == Issued'[row] \ Issued[row]
             IN  /\ Issued[row] \subseteq Issued'[row]
                 /\ Cardinality(new) = Book!Demand(r, row)
                 /\ \A n \in new, k \in Issued[row] : n > k
  <2>1. PICK c : c = counter[row]
    OBVIOUS
  <2>2. c \in Nat /\ draft[s][row] \in Nat
    BY <2>1, <1>3 DEF TypeOK
  <2>3. Len(r) \in Nat
    BY RequestType
  <2>4. Book!Demand(r, row) = Cardinality(Drawn(r, Len(r), row))
    BY DEF Book!Demand, Drawn, Cardinality, Book!Cardinality
  <2>5. Book!Demand(r, row) \in Nat
    BY <2>3, <2>4, OneMoreDraw
  <2>6. Current(s, row) = c + Book!Demand(r, row)
    <3>1. CASE draft[s][row] = 0
      <4>1. Drawn(r, Len(r), row) = {}
        BY <3>1, <1>5, <1>6 DEF SessionOK, Counted
      <4>2. Book!Demand(r, row) = 0
        BY <4>1, <2>4, FS_EmptySet
      <4> QED
        BY <4>2, <3>1, <2>1, <2>2 DEF Current
    <3>2. CASE draft[s][row] # 0
      <4>1. draft[s][row] = counter[row] + Cardinality(Drawn(r, Len(r), row))
        BY <3>2, <1>5, <1>6 DEF SessionOK, Counted
      <4> QED
        BY <4>1, <3>2, <2>1, <2>4 DEF Current
    <3> QED
      BY <3>1, <3>2
  <2>7. PICK m \in Nat : m = Book!Demand(r, row)
    BY <2>5
  <2>8. counter'[row] = c + m
    BY <2>6, <2>7, <1>2
  <2>9. Issued'[row] = 1..(c + m)
    <3>1. IssuedUpToCounter'
      BY <1>1, IssuedIs, PTL
    <3>2. Issued'[row] = 1..counter'[row]
      BY <3>1 DEF IssuedUpToCounter
    <3> QED
      BY <3>2, <2>8
  <2>10. Issued[row] = 1..c
    BY <2>1, IssuedIs DEF IssuedUpToCounter
  <2>11. /\ (1..(c + m)) \ (1..c) = (c + 1)..(c + m)
         /\ 1..c \subseteq 1..(c + m)
         /\ \A n \in (c + 1)..(c + m), k \in 1..c : n > k
    BY <2>2
  <2>12. Cardinality((c + 1)..(c + m)) = m
    <3>1. /\ c + 1 \in Int /\ c + m \in Int
          /\ m = 0 => c + 1 > c + m
          /\ (c + m) - (c + 1) + 1 = m /\ (m # 0 => ~(c + 1 > c + m))
      BY <2>2
    <3>2. Cardinality((c + 1)..(c + m))
             = IF c + 1 > c + m THEN 0 ELSE (c + m) - (c + 1) + 1
      BY <3>1, FS_Interval
    <3> QED
      BY <3>1, <3>2
  <2> QED
    BY <2>7, <2>9, <2>10, <2>11, <2>12
<1> QED
  BY <1>7

\* The numbers of a row are positive.
IssuedPositive == Issued \in [Rows -> SUBSET (Nat \ {0})]

LEMMA IssuedType == IInv => IssuedPositive
<1> SUFFICES ASSUME TypeOK, Committed, NEW row \in Rows
             PROVE  {d.number : d \in {e \in documents : e.row = row}} \in SUBSET (Nat \ {0})
  BY DEF IInv, IssuedPositive, Issued
<1>1. ASSUME NEW d \in documents PROVE d.number \in Nat \ {0}
  <2>1. d \in Document
    BY DEF TypeOK
  <2>2. d.number \in Nat /\ d.number > 0
    BY <2>1 DEF Document, Committed
  <2> QED
    BY <2>2
<1> QED
  BY <1>1

LEMMA BookStep == IInv /\ [Next]_vars => [Book!Next]_Issued
<1> SUFFICES ASSUME IInv, [Next]_vars PROVE [Book!Next]_Issued
  OBVIOUS
<1>1. ASSUME NEW s \in Sessions, Commit(s) PROVE Book!Next
  <2>1. PICK r \in Requests : \A row \in Rows :
            LET new == Issued'[row] \ Issued[row]
            IN  /\ Issued[row] \subseteq Issued'[row]
                /\ Cardinality(new) = Book!Demand(r, row)
                /\ \A n \in new, k \in Issued[row] : n > k
    BY <1>1, CommitIssues
  <2>2. IInv'
    BY <1>1, CommitStep
  <2>3. Issued' \in [Rows -> SUBSET (Nat \ {0})]
    <3>1. IssuedPositive'
      BY <2>2, IssuedType, PTL
    <3> QED
      BY <3>1 DEF IssuedPositive, Issued
  <2>4. Book!Issue(r)
    BY <2>1, <2>3 DEF Book!Issue, Issued, Cardinality, Book!Cardinality
  <2> QED
    BY <2>4 DEF Book!Next
<1>2. ASSUME documents' = documents PROVE Issued' = Issued
  BY <1>2 DEF Issued
<1>3. ASSUME NEW s \in Sessions,
             (\E r \in Requests : Start(s, r)) \/ Upsert(s) \/ Read(s) \/ Insert(s)
                 \/ WriteAudit(s) \/ Rollback(s)
      PROVE  documents' = documents
  BY <1>3 DEF Start, Upsert, Read, Insert, WriteAudit, Rollback
<1>4. UNCHANGED vars => documents' = documents
  BY DEF vars
<1> QED
  BY <1>1, <1>2, <1>3, <1>4, Zenon DEF Next

LEMMA BookInit == Init => Book!Init
  BY DEF Init, Book!Init

\* The committed documents implement NumberBook: on every counter a commit adds
\* one number for each of its draws, greater than all numbers in use, whatever
\* interleaves with it and whatever rolled back before
\* (numbering_service.next_sequence_value).
THEOREM NumbersFormABook == Spec => NumbersAreABook
<1>1. Spec => []IInv
  BY InitStep, InvariantStep, PTL DEF Spec
<1> QED
  BY <1>1, BookInit, BookStep, PTL DEF Spec, NumbersAreABook, Book!Spec, Issued

=============================================================================
