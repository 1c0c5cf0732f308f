---------------------------- MODULE Sums_proofs ----------------------------
(***************************************************************************)
(* What SumUpTo computes, for sums of any length.  Induction over the      *)
(* naturals is done on sets: a set of naturals that contains 0 and is      *)
(* closed under successor is Nat, because its complement would have a      *)
(* least element.  At the end, the types of amounts and average costs, the *)
(* elements of a sequence that is changed at one place, the ids of new     *)
(* lines, and which lines of a document can be dropped.                    *)
(***************************************************************************)
EXTENDS Sums, Costing, LineNumbers, WellFoundedInduction, SequenceTheorems, TLAPS

\* Every non-empty set of naturals has a least element.
LEMMA LeastNatural ==
  ASSUME NEW T \in SUBSET Nat, T # {}
  PROVE  \E x \in T : \A y \in T : x <= y
<1> DEFINE R == OpToRel(<, Nat)
<1>1. IsWellFoundedOn(R, Nat)
  BY NatLessThanWellFounded, Zenon
<1>2. \A x, y \in Nat : x < y => <<x, y>> \in R
  BY DEF OpToRel
<1> HIDE DEF R
<1>3. PICK x \in T : \A y \in T : ~ (<<y, x>> \in R)
  BY <1>1, WFMin
<1>4. \A y \in T : ~ (y < x)
  BY <1>2, <1>3, Zenon
<1>5. \A y \in T : x <= y
  BY <1>4, SMT
<1> QED
  BY <1>5

\* Induction over the naturals, on sets.
LEMMA SetInduction ==
  ASSUME NEW T \in SUBSET Nat, 0 \in T, \A n \in T : n + 1 \in T
  PROVE  T = Nat
<1> SUFFICES ASSUME Nat \ T # {} PROVE FALSE
  OBVIOUS
<1>1. PICK x \in Nat \ T : \A y \in Nat \ T : x <= y
  BY LeastNatural
<1>2. x - 1 \in T
  BY <1>1
<1> QED
  BY <1>2

\* s holds the partial sums of f up to n.
IsSum(s, f, n) == /\ s \in [0..n -> Int]
                  /\ s[0] = 0
                  /\ \A i \in 1..n : s[i] = s[i - 1] + f[i]

LEMMA SumExists ==
  ASSUME NEW f, NEW n \in Nat, \A i \in 1..n : f[i] \in Int
  PROVE  \E s : IsSum(s, f, n)
<1> DEFINE T == {m \in Nat : m <= n => \E s : IsSum(s, f, m)}
<1>1. 0 \in T
  <2>1. IsSum([i \in 0..0 |-> 0], f, 0)
    BY DEF IsSum
  <2> QED
    BY <2>1
<1>2. ASSUME NEW m \in T PROVE m + 1 \in T
  <2> SUFFICES ASSUME m + 1 <= n PROVE \E s : IsSum(s, f, m + 1)
    OBVIOUS
  <2>1. PICK s : IsSum(s, f, m)
    OBVIOUS
  <2> DEFINE t == [i \in 0..(m + 1) |-> IF i = m + 1 THEN s[m] + f[m + 1]
                                        ELSE s[i]]
  <2>2. f[m + 1] \in Int /\ s[m] \in Int
    BY <2>1 DEF IsSum
  <2>3. t \in [0..(m + 1) -> Int]
    BY <2>1, <2>2 DEF IsSum
  <2>4. t[0] = 0
    BY <2>1 DEF IsSum
  <2>5. ASSUME NEW i \in 1..(m + 1) PROVE t[i] = t[i - 1] + f[i]
    BY <2>1 DEF IsSum
  <2>6. IsSum(t, f, m + 1)
    BY <2>3, <2>4, <2>5 DEF IsSum
  <2> QED
    BY <2>6
<1> HIDE DEF T
<1>3. T \in SUBSET Nat
  BY DEF T
<1>4. T = Nat
  BY <1>1, <1>2, <1>3, SetInduction
<1> QED
  BY <1>4 DEF T

LEMMA SumUnique ==
  ASSUME NEW f, NEW n \in Nat, NEW s, NEW t, IsSum(s, f, n), IsSum(t, f, n)
  PROVE  s = t
<1> DEFINE T == {m \in Nat : m <= n => s[m] = t[m]}
<1>1. 0 \in T
  BY DEF IsSum
<1>2. ASSUME NEW m \in T PROVE m + 1 \in T
  BY DEF IsSum
<1> HIDE DEF T
<1>3. T \in SUBSET Nat
  BY DEF T
<1>4. T = Nat
  BY <1>1, <1>2, <1>3, SetInduction
<1>5. \A i \in 0..n : s[i] = t[i]
  BY <1>4 DEF T
<1> QED
  BY <1>5 DEF IsSum

\* The recursive function inside SumUpTo is the function of partial sums.
LEMMA SumIs ==
  ASSUME NEW f, NEW n \in Nat, \A i \in 1..n : f[i] \in Int
  PROVE  \E s : IsSum(s, f, n) /\ SumUpTo(f, n) = s[n]
<1> DEFINE E(s) == s = [i \in 0..n |-> IF i = 0 THEN 0 ELSE s[i - 1] + f[i]]
<1> DEFINE c == CHOOSE s : E(s)
<1>1. PICK s : IsSum(s, f, n)
  BY SumExists
<1>2. E(s)
  BY <1>1 DEF IsSum
<1>3. E(c)
  BY <1>2
<1>4. SumUpTo(f, n) = c[n]
  BY DEF SumUpTo
<1>5. c = s
  <2> HIDE DEF c
  <2> DEFINE T == {m \in Nat : m <= n => c[m] = s[m]}
  <2>1. 0 \in T
    BY <1>1, <1>3 DEF IsSum
  <2>2. ASSUME NEW m \in T PROVE m + 1 \in T
    <3> SUFFICES ASSUME m + 1 <= n PROVE c[m + 1] = s[m + 1]
      OBVIOUS
    <3>1. c[m + 1] = c[m] + f[m + 1]
      BY <1>3
    <3> QED
      BY <3>1, <1>1 DEF IsSum
  <2> HIDE DEF T
  <2>3. T \in SUBSET Nat
    BY DEF T
  <2>4. T = Nat
    BY <2>1, <2>2, <2>3, SetInduction
  <2>5. \A i \in 0..n : c[i] = s[i]
    BY <2>4 DEF T
  <2>6. DOMAIN c = 0..n /\ c = [i \in 0..n |-> c[i]]
    BY <1>3
  <2> QED
    BY <2>5, <2>6, <1>1 DEF IsSum
<1> QED
  BY <1>1, <1>4, <1>5

-----------------------------------------------------------------------------
(* The facts the other modules use, stated with opaque hypotheses so that a *)
(* prover finds the instance at once.                                       *)

\* The first n terms of f are integers.
IntTerms(f, n) == \A i \in 1..n : f[i] \in Int

\* g starts like f, for n terms.
SameTerms(f, g, n) == \A i \in 1..n : f[i] = g[i]

\* The n terms of g follow the first m terms of f.
Follows(g, f, m, n) == \A i \in 1..n : g[i] = f[m + i]

\* A sum of integers is an integer, and an empty sum is 0.
LEMMA SumType ==
  ASSUME NEW f, NEW n \in Nat, IntTerms(f, n)
  PROVE  SumUpTo(f, n) \in Int /\ SumUpTo(f, 0) = 0
<1>1. SumUpTo(f, n) \in Int
  BY SumIs DEF IsSum, IntTerms
<1>2. \A i \in 1..0 : f[i] \in Int
  OBVIOUS
<1>3. SumUpTo(f, 0) = 0
  BY <1>2, SumIs DEF IsSum
<1> QED
  BY <1>1, <1>3

\* The sum of one more term.
LEMMA SumStep ==
  ASSUME NEW f, NEW n \in Nat, IntTerms(f, n + 1)
  PROVE  SumUpTo(f, n + 1) = SumUpTo(f, n) + f[n + 1]
<1>1. PICK s : IsSum(s, f, n + 1) /\ SumUpTo(f, n + 1) = s[n + 1]
  BY SumIs DEF IntTerms
<1>2. PICK t : IsSum(t, f, n) /\ SumUpTo(f, n) = t[n]
  BY SumIs DEF IntTerms
<1> DEFINE r == [i \in 0..n |-> s[i]]
<1>3. IsSum(r, f, n)
  BY <1>1 DEF IsSum
<1>4. r = t
  BY <1>2, <1>3, SumUnique
<1>5. s[n + 1] = s[n] + f[n + 1]
  BY <1>1 DEF IsSum
<1> QED
  BY <1>1, <1>2, <1>4, <1>5

\* Equal terms have equal sums.
LEMMA SumCongruence ==
  ASSUME NEW f, NEW g, NEW n \in Nat, IntTerms(f, n), SameTerms(f, g, n)
  PROVE  SumUpTo(f, n) = SumUpTo(g, n)
<1>1. PICK s : IsSum(s, f, n) /\ SumUpTo(f, n) = s[n]
  BY SumIs DEF IntTerms
<1>2. PICK t : IsSum(t, g, n) /\ SumUpTo(g, n) = t[n]
  BY SumIs DEF IntTerms, SameTerms
<1>3. IsSum(s, g, n)
  BY <1>1 DEF IsSum, SameTerms
<1>4. s = t
  BY <1>2, <1>3, SumUnique
<1> QED
  BY <1>1, <1>2, <1>4

\* The terms of g, behind the first m terms of f, add up separately.
LEMMA SumShift ==
  ASSUME NEW f, NEW g, NEW m \in Nat, NEW n \in Nat,
         IntTerms(f, m + n), Follows(g, f, m, n)
  PROVE  SumUpTo(f, m + n) = SumUpTo(f, m) + SumUpTo(g, n)
<1> DEFINE T == {j \in Nat : j <= n =>
                    SumUpTo(f, m + j) = SumUpTo(f, m) + SumUpTo(g, j)}
<1>0. /\ IntTerms(f, m)
      /\ \A j \in 0..n : IntTerms(g, j) /\ IntTerms(f, m + j)
  BY DEF IntTerms, Follows
<1>1. 0 \in T
  <2>1. SumUpTo(f, m) \in Int
    BY <1>0, SumType
  <2>2. SumUpTo(g, 0) = 0
    BY <1>0, SumType
  <2> QED
    BY <2>1, <2>2
<1>2. ASSUME NEW j \in T PROVE j + 1 \in T
  <2> SUFFICES ASSUME j + 1 <= n
               PROVE  SumUpTo(f, m + (j + 1))
                         = SumUpTo(f, m) + SumUpTo(g, j + 1)
    OBVIOUS
  <2>1. m + j \in Nat /\ IntTerms(f, (m + j) + 1) /\ IntTerms(g, j + 1)
    BY DEF IntTerms, Follows
  <2>2. SumUpTo(f, (m + j) + 1) = SumUpTo(f, m + j) + f[(m + j) + 1]
    BY <2>1, SumStep
  <2>3. SumUpTo(g, j + 1) = SumUpTo(g, j) + g[j + 1]
    BY <2>1, SumStep
  <2>4. /\ g[j + 1] = f[m + (j + 1)] /\ (m + j) + 1 = m + (j + 1)
        /\ f[m + (j + 1)] \in Int
    BY DEF IntTerms, Follows
  <2>5. j \in 0..n
    OBVIOUS
  <2>6. SumUpTo(f, m) \in Int /\ SumUpTo(g, j) \in Int
    BY <1>0, <2>5, SumType
  <2>7. SumUpTo(f, m + j) = SumUpTo(f, m) + SumUpTo(g, j)
    OBVIOUS
  <2> QED
    BY <2>2, <2>3, <2>4, <2>6, <2>7
<1> HIDE DEF T
<1>3. T \in SUBSET Nat
  BY DEF T
<1>4. T = Nat
  BY <1>1, <1>2, <1>3, SetInduction
<1> QED
  BY <1>4 DEF T

\* A sum of terms of one sign has that sign.
LEMMA SumSign ==
  ASSUME NEW f, NEW n \in Nat, IntTerms(f, n)
  PROVE  /\ (\A i \in 1..n : f[i] >= 0) => SumUpTo(f, n) >= 0
         /\ (\A i \in 1..n : f[i] <= 0) => SumUpTo(f, n) <= 0
<1>1. PICK s : IsSum(s, f, n) /\ SumUpTo(f, n) = s[n]
  BY SumIs DEF IntTerms
<1> DEFINE T == {m \in Nat : m <= n =>
                    /\ (\A i \in 1..n : f[i] >= 0) => s[m] >= 0
                    /\ (\A i \in 1..n : f[i] <= 0) => s[m] <= 0}
<1>2. 0 \in T
  BY <1>1 DEF IsSum
<1>3. ASSUME NEW m \in T PROVE m + 1 \in T
  <2> SUFFICES ASSUME m + 1 <= n
               PROVE  /\ (\A i \in 1..n : f[i] >= 0) => s[m + 1] >= 0
                      /\ (\A i \in 1..n : f[i] <= 0) => s[m + 1] <= 0
    OBVIOUS
  <2>1. s[m + 1] = s[m] + f[m + 1] /\ s[m] \in Int /\ f[m + 1] \in Int
    BY <1>1 DEF IsSum, IntTerms
  <2>2. (\A i \in 1..n : f[i] >= 0) => s[m] >= 0 /\ f[m + 1] >= 0
    OBVIOUS
  <2>3. (\A i \in 1..n : f[i] <= 0) => s[m] <= 0 /\ f[m + 1] <= 0
    OBVIOUS
  <2> QED
    BY <2>1, <2>2, <2>3
<1> HIDE DEF T
<1>4. T \in SUBSET Nat
  BY DEF T
<1>5. T = Nat
  BY <1>2, <1>3, <1>4, SetInduction
<1> QED
  BY <1>1, <1>5 DEF T

\* A sum of naturals is a natural.
LEMMA SumNat ==
  ASSUME NEW f, NEW n \in Nat, \A i \in 1..n : f[i] \in Nat
  PROVE  SumUpTo(f, n) \in Nat
<1>1. IntTerms(f, n) /\ \A i \in 1..n : f[i] >= 0
  BY DEF IntTerms
<1>2. SumUpTo(f, n) \in Int /\ SumUpTo(f, n) >= 0
  BY <1>1, SumType, SumSign
<1> QED
  BY <1>2

\* The terms of h are those of f and g together.
TermsAdd(h, f, g, n) == \A i \in 1..n : h[i] = f[i] + g[i]

\* Sums are added term by term.
LEMMA SumAdd ==
  ASSUME NEW f, NEW g, NEW h, NEW n \in Nat, IntTerms(f, n), IntTerms(g, n),
         TermsAdd(h, f, g, n)
  PROVE  SumUpTo(h, n) = SumUpTo(f, n) + SumUpTo(g, n)
<1>1. PICK s : IsSum(s, f, n) /\ SumUpTo(f, n) = s[n]
  BY SumIs DEF IntTerms
<1>2. PICK t : IsSum(t, g, n) /\ SumUpTo(g, n) = t[n]
  BY SumIs DEF IntTerms
<1>3. IntTerms(h, n)
  BY DEF IntTerms, TermsAdd
<1>4. PICK u : IsSum(u, h, n) /\ SumUpTo(h, n) = u[n]
  BY <1>3, SumIs DEF IntTerms
<1> DEFINE r == [i \in 0..n |-> s[i] + t[i]]
<1>5. IsSum(r, h, n)
  <2>1. r \in [0..n -> Int] /\ r[0] = 0
    BY <1>1, <1>2 DEF IsSum
  <2>2. ASSUME NEW i \in 1..n PROVE r[i] = r[i - 1] + h[i]
    <3>1. i \in 0..n /\ i - 1 \in 0..n
      OBVIOUS
    <3>2. /\ s[i] = s[i - 1] + f[i] /\ t[i] = t[i - 1] + g[i]
          /\ s[i - 1] \in Int /\ t[i - 1] \in Int
      BY <1>1, <1>2, <3>1 DEF IsSum
    <3>3. f[i] \in Int /\ g[i] \in Int /\ h[i] = f[i] + g[i]
      BY DEF IntTerms, TermsAdd
    <3> QED
      BY <3>1, <3>2, <3>3
  <2> QED
    BY <2>1, <2>2 DEF IsSum
<1>6. r = u
  BY <1>4, <1>5, SumUnique
<1>7. n \in 0..n
  OBVIOUS
<1> QED
  BY <1>1, <1>2, <1>4, <1>6, <1>7

\* g is f with another j-th term.
DiffersAt(f, g, n, j) == \A i \in 1..n : i # j => g[i] = f[i]

\* A sum changes by what its j-th term changes.
LEMMA SumChange ==
  ASSUME NEW f, NEW g, NEW n \in Nat, NEW j \in 1..n,
         IntTerms(f, n), IntTerms(g, n), DiffersAt(f, g, n, j)
  PROVE  SumUpTo(g, n) = SumUpTo(f, n) + (g[j] - f[j])
<1>1. PICK s : IsSum(s, f, n) /\ SumUpTo(f, n) = s[n]
  BY SumIs DEF IntTerms
<1>2. PICK t : IsSum(t, g, n) /\ SumUpTo(g, n) = t[n]
  BY SumIs DEF IntTerms
<1> DEFINE d == g[j] - f[j]
           r == [i \in 0..n |-> IF i < j THEN s[i] ELSE s[i] + d]
<1>3. d \in Int /\ f[j] \in Int /\ g[j] = f[j] + d
  BY DEF IntTerms
<1> HIDE DEF d
<1>4. IsSum(r, g, n)
  <2>1. r \in [0..n -> Int] /\ r[0] = 0
    BY <1>1, <1>3 DEF IsSum
  <2>2. ASSUME NEW i \in 1..n PROVE r[i] = r[i - 1] + g[i]
    <3>1. i \in 0..n /\ i - 1 \in 0..n
      OBVIOUS
    <3>2. s[i] = s[i - 1] + f[i] /\ s[i - 1] \in Int /\ f[i] \in Int
      BY <1>1, <3>1 DEF IsSum, IntTerms
    <3>3. i # j => g[i] = f[i]
      BY DEF DiffersAt
    <3> QED
      BY <1>3, <3>1, <3>2, <3>3
  <2> QED
    BY <2>1, <2>2 DEF IsSum
<1>5. r = t
  BY <1>2, <1>4, SumUnique
<1>6. n \in 0..n /\ ~(n < j)
  OBVIOUS
<1> QED
  BY <1>1, <1>2, <1>5, <1>6 DEF d

\* No term of a sum of naturals exceeds the sum.
LEMMA SumBound ==
  ASSUME NEW f, NEW n \in Nat, \A i \in 1..n : f[i] \in Nat, NEW j \in 1..n
  PROVE  f[j] <= SumUpTo(f, n)
<1> DEFINE g == [i \in 1..n |-> IF i = j THEN 0 ELSE f[i]]
<1>1. /\ IntTerms(f, n) /\ IntTerms(g, n) /\ DiffersAt(f, g, n, j)
      /\ g[j] = 0 /\ \A i \in 1..n : g[i] \in Nat
  BY DEF IntTerms, DiffersAt
<1> HIDE DEF g
<1>2. SumUpTo(g, n) = SumUpTo(f, n) + (g[j] - f[j])
  BY <1>1, SumChange
<1>3. SumUpTo(g, n) \in Nat /\ SumUpTo(f, n) \in Nat
  BY <1>1, SumNat
<1> QED
  BY <1>1, <1>2, <1>3

\* A sum of zeros is 0.
LEMMA SumOfZeros ==
  ASSUME NEW f, NEW n \in Nat, \A i \in 1..n : f[i] = 0
  PROVE  SumUpTo(f, n) = 0
<1>1. /\ IntTerms(f, n) /\ \A i \in 1..n : f[i] >= 0
      /\ \A i \in 1..n : f[i] <= 0
  BY DEF IntTerms
<1>2. SumUpTo(f, n) \in Int /\ SumUpTo(f, n) >= 0 /\ SumUpTo(f, n) <= 0
  BY <1>1, SumType, SumSign
<1> QED
  BY <1>2

\* The terms of g are those of f with the other sign.
Negates(g, f, n) == \A i \in 1..n : g[i] = -f[i]

LEMMA SumNegated ==
  ASSUME NEW f, NEW g, NEW n \in Nat, IntTerms(f, n), Negates(g, f, n)
  PROVE  SumUpTo(g, n) = -SumUpTo(f, n)
<1> DEFINE z == [i \in 1..n |-> 0]
<1>1. \A i \in 1..n : z[i] = 0
  OBVIOUS
<1> HIDE DEF z
<1>2. IntTerms(g, n)
  BY DEF IntTerms, Negates
<1>3. TermsAdd(z, f, g, n)
  BY <1>1 DEF IntTerms, Negates, TermsAdd
<1>4. SumUpTo(z, n) = SumUpTo(f, n) + SumUpTo(g, n)
  BY <1>2, <1>3, SumAdd
<1>5. SumUpTo(z, n) = 0
  BY <1>1, SumOfZeros
<1>6. SumUpTo(f, n) \in Int /\ SumUpTo(g, n) \in Int
  BY <1>2, SumType
<1> QED
  BY <1>4, <1>5, <1>6

-----------------------------------------------------------------------------
(* Amounts *)

\* The quotient of naturals is a natural.
LEMMA QuotientType ==
  ASSUME NEW a \in Nat, NEW b \in Nat \ {0}
  PROVE  a \div b \in Nat
  OBVIOUS

LEMMA RoundType ==
  ASSUME NEW n \in Nat, NEW d \in Nat \ {0}
  PROVE  RoundHalfUp(n, d) \in Nat
<1>1. 2 * n + d \in Nat /\ 2 * d \in Nat \ {0}
  OBVIOUS
<1> QED
  BY <1>1, QuotientType DEF RoundHalfUp

\* Amounts and average costs are naturals.
LEMMA CostType ==
  ASSUME NEW a \in Nat, NEW b \in Nat
  PROVE  LineAmount(a, b) \in Nat /\ NewAverage(a, b) \in Nat
<1>1. a * b \in Nat /\ a * Scale \in Nat
  BY ScaleAssumption
<1>2. LineAmount(a, b) \in Nat
  BY <1>1, ScaleAssumption, RoundType DEF LineAmount
<1>3. CASE b = 0
  BY <1>2, <1>3 DEF NewAverage
<1>4. CASE b # 0
  <2>1. RoundHalfUp(a * Scale, b) \in Nat
    BY <1>1, <1>4, RoundType
  <2> QED
    BY <1>2, <1>4, <2>1 DEF NewAverage
<1> QED
  BY <1>3, <1>4

-----------------------------------------------------------------------------
(* Sequences of rows *)

\* A row is changed in place.
LEMMA UpdatedSeq ==
  ASSUME NEW T, NEW a \in Seq(T), NEW r \in 1..Len(a), NEW x \in T
  PROVE  LET b == [a EXCEPT ![r] = x]
         IN  /\ b \in Seq(T) /\ Len(b) = Len(a) /\ b[r] = x
             /\ \A i \in 1..Len(a) : i # r => b[i] = a[i]
  OBVIOUS

\* A row is added at the end.
LEMMA AppendedSeq ==
  ASSUME NEW T, NEW a \in Seq(T), NEW x \in T
  PROVE  LET b == Append(a, x)
         IN  /\ b \in Seq(T) /\ Len(b) = Len(a) + 1 /\ b[Len(a) + 1] = x
             /\ \A i \in 1..Len(a) : b[i] = a[i]
  OBVIOUS

-----------------------------------------------------------------------------
(* Largest elements *)

LEMMA LargestOf ==
  ASSUME NEW S \in SUBSET Nat, S # {}, NEW n \in Nat, \A x \in S : x <= n
  PROVE  \E x \in S : \A y \in S : y <= x
<1> DEFINE T == {n - x : x \in S}
<1>1. T \in SUBSET Nat /\ T # {}
  <2>1. \A x \in S : x \in Nat /\ n - x \in Nat
    OBVIOUS
  <2> QED
    BY <2>1
<1>2. PICK t \in T : \A u \in T : t <= u
  BY <1>1, LeastNatural
<1>3. PICK x \in S : t = n - x
  OBVIOUS
<1>4. \A y \in S : n - x <= n - y
  BY <1>2, <1>3
<1>5. \A y \in S : y <= x
  BY <1>4
<1> QED
  BY <1>5

\* Finitely many numbers have a largest one: all are bounded by their sum.
LEMMA LargestTerm ==
  ASSUME NEW f, NEW n \in Nat, n # 0, \A i \in 1..n : f[i] \in Nat
  PROVE  \E i \in 1..n : \A j \in 1..n : f[j] <= f[i]
<1> DEFINE S == {f[i] : i \in 1..n}
<1>1. S \in SUBSET Nat /\ S # {} /\ SumUpTo(f, n) \in Nat
  BY SumNat
<1>2. \A x \in S : x <= SumUpTo(f, n)
  BY SumBound
<1>3. PICK x \in S : \A y \in S : y <= x
  BY <1>1, <1>2, LargestOf
<1>4. PICK i \in 1..n : x = f[i]
  OBVIOUS
<1> QED
  BY <1>3, <1>4

\* A sum with one term that is not 0.
LEMMA SumOfOne ==
  ASSUME NEW f, NEW n \in Nat, NEW j \in 1..n, f[j] \in Int,
         \A i \in 1..n : i # j => f[i] = 0
  PROVE  SumUpTo(f, n) = f[j]
<1> DEFINE z == [i \in 1..n |-> 0]
<1>1. /\ \A i \in 1..n : z[i] = 0
      /\ IntTerms(f, n) /\ IntTerms(z, n) /\ DiffersAt(z, f, n, j)
  BY DEF IntTerms, DiffersAt
<1> HIDE DEF z
<1>2. SumUpTo(z, n) = 0
  BY <1>1, SumOfZeros
<1>3. SumUpTo(f, n) = SumUpTo(z, n) + (f[j] - z[j])
  BY <1>1, SumChange
<1> QED
  BY <1>1, <1>2, <1>3

\* The ids of the rows are numbers.
NatIds(rows) == Len(rows) \in Nat /\ \A j \in 1..Len(rows) : rows[j].id \in Nat

\* A new row of a document gets an id above those of its rows, and two new rows
\* get different ones.
LEMMA FreshIdIs ==
  ASSUME NEW rows, NatIds(rows)
  PROVE  \E top \in Nat : /\ \A j \in 1..Len(rows) : rows[j].id <= top
                          /\ \A i : FreshId(rows, i) = i + top
<1> DEFINE ids == {rows[j].id : j \in 1..Len(rows)}
           n == Len(rows)
           f == [j \in 1..n |-> rows[j].id]
<1>1. n \in Nat /\ \A j \in 1..n : f[j] = rows[j].id /\ f[j] \in Nat
  BY DEF NatIds
<1>2. CASE n = 0
  <2>1. ids = {} /\ 1..n = {}
    BY <1>2
  <2> QED
    BY <2>1 DEF FreshId
<1>3. CASE n # 0
  <2> HIDE DEF f
  <2>1. PICK j \in 1..n : \A h \in 1..n : f[h] <= f[j]
    BY <1>1, <1>3, LargestTerm
  <2> DEFINE P(m) == \A h \in ids : h <= m
             top == CHOOSE m \in ids : P(m)
  <2>2. rows[j].id \in ids /\ P(rows[j].id) /\ ids # {} /\ ids \subseteq Nat
    BY <1>1, <2>1
  <2> HIDE DEF ids, P
  <2>3. top \in ids /\ P(top)
    BY <2>2
  <2> HIDE DEF top
  <2>4. \A h \in 1..n : rows[h].id <= top
    BY <2>3 DEF P, ids
  <2>5. \A i : FreshId(rows, i) = i + top
    BY <2>2 DEF FreshId, ids, top, P
  <2> QED
    BY <2>2, <2>3, <2>4, <2>5
<1> QED
  BY <1>2, <1>3

LEMMA DroppedRows ==
  ASSUME NEW T, NEW rows \in Seq(T), NEW i \in 1..Len(rows)
  PROVE  /\ Len(rows) \in Nat
         /\ Len(Dropped(rows, i)) = Len(rows) - 1
         /\ \A p \in 1..(Len(rows) - 1) :
               Dropped(rows, i)[p] = IF p < i THEN rows[p] ELSE rows[p + 1]
<1> DEFINE a == SubSeq(rows, 1, i - 1)
           b == SubSeq(rows, i + 1, Len(rows))
           n == Len(rows)
<1>1. n \in Nat /\ i \in 1..n
  OBVIOUS
<1>2. a \in Seq(T) /\ Len(a) = i - 1 /\ \A p \in 1..(i - 1) : a[p] = rows[p]
  BY SubSeqProperties
<1>3. b \in Seq(T) /\ Len(b) = n - i /\ \A p \in 1..(n - i) : b[p] = rows[i + p]
  BY SubSeqProperties
<1> HIDE DEF a, b, n
<1>4. /\ Len(a \o b) = Len(a) + Len(b)
      /\ \A p \in 1..(Len(a) + Len(b)) :
            (a \o b)[p] = IF p <= Len(a) THEN a[p] ELSE b[p - Len(a)]
  BY <1>2, <1>3, ConcatProperties
<1>5. Len(a) + Len(b) = n - 1
  BY <1>1, <1>2, <1>3
<1>6. ASSUME NEW p \in 1..(n - 1)
      PROVE  (a \o b)[p] = IF p < i THEN rows[p] ELSE rows[p + 1]
  <2>1. CASE p < i
    <3>1. p <= Len(a) /\ p \in 1..(i - 1) /\ p \in 1..(Len(a) + Len(b))
      BY <1>1, <1>2, <1>5, <2>1
    <3> QED
      BY <1>2, <1>4, <2>1, <3>1
  <2>2. CASE ~(p < i)
    <3>1. /\ ~(p <= Len(a)) /\ p \in 1..(Len(a) + Len(b))
          /\ p - Len(a) \in 1..(n - i) /\ i + (p - Len(a)) = p + 1
      BY <1>1, <1>2, <1>5, <2>2
    <3> QED
      BY <1>3, <1>4, <2>2, <3>1
  <2> QED
    BY <2>1, <2>2
<1>7. Dropped(rows, i) = a \o b
  BY DEF Dropped, a, b, n
<1> QED
  BY <1>1, <1>4, <1>5, <1>6, <1>7 DEF n

\* A document can lose its last line and no other one: the row that moves up
\* takes the number of the dropped row, which is deleted after the renumbering
\* (stock_reconciliation_service and purchase_requisition_service replace the
\* rows in one flush, under uk_rc_line and uk_pri_line).
THEOREM OnlyTheLastLineDrops ==
  ASSUME NEW T, NEW rows \in Seq(T), NEW i \in 1..Len(rows),
         \A p \in 1..Len(rows) : rows[p].id \in Nat,
         \A p, q \in 1..Len(rows) : rows[p].id = rows[q].id => p = q
  PROVE  LinesFit(rows, Dropped(rows, i)) <=> i = Len(rows)
<1> DEFINE new == Dropped(rows, i)
           n == Len(rows)
<1>1. /\ n \in Nat /\ i \in 1..n /\ Len(new) = n - 1
      /\ \A p \in 1..(n - 1) : new[p] = IF p < i THEN rows[p] ELSE rows[p + 1]
  BY DroppedRows
<1> HIDE DEF new, n
<1>2. ASSUME i = n PROVE LinesFit(rows, new)
  <2> SUFFICES ASSUME NEW p \in 1..n, p <= Len(new) PROVE new[p].id = rows[p].id
    BY DEF LinesFit, n
  <2>1. p \in 1..(n - 1) /\ p < i
    BY <1>1, <1>2
  <2> QED
    BY <1>1, <2>1
<1>3. ASSUME i # n, LinesFit(rows, new) PROVE FALSE
  <2>1. i \in 1..(n - 1) /\ i + 1 \in 1..n /\ i <= Len(new) /\ ~(i < i) /\ i + 1 # i
    BY <1>1, <1>3
  <2>2. new[i] = rows[i + 1] /\ new[i].id # rows[i].id
    BY <1>1, <2>1 DEF n
  <2>3. PICK q \in 1..Len(new) : new[q].id = rows[i].id
    BY <1>1, <1>3, <2>1, <2>2 DEF LinesFit, n
  <2>4. \E r \in 1..n : r # i /\ new[q] = rows[r]
    <3>1. q \in 1..(n - 1) /\ q \in 1..n /\ q + 1 \in 1..n
      BY <1>1, <2>3
    <3>2. CASE q < i
      BY <1>1, <3>1, <3>2
    <3>3. CASE ~(q < i)
      <4>1. q + 1 # i
        BY <1>1, <3>1, <3>3
      <4> QED
        BY <1>1, <3>1, <3>3, <4>1
    <3> QED
      BY <3>2, <3>3
  <2> QED
    BY <1>1, <2>3, <2>4 DEF n
<1> QED
  BY <1>2, <1>3 DEF new, n

=============================================================================
