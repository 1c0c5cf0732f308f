----------------------------- MODULE NumberBook -----------------------------
(***************************************************************************)
(* What the numbering service promises: a request that commits adds as     *)
(* many numbers as it draws to each counter, all of them greater than the  *)
(* numbers in use, so numbers never repeat and follow the commits.  Gaps   *)
(* are allowed.                                                            *)
(***************************************************************************)
EXTENDS Naturals, Sequences, FiniteSets

CONSTANTS Rows,      \* the counters
          Requests   \* sequences of the counters a request draws from

VARIABLE issued      \* per counter the set of numbers in use

\* How many numbers request r draws from a counter.
Demand(r, row) == Cardinality({i \in 1..Len(r) : r[i] = row})

Init == issued = [row \in Rows |-> {}]

Issue(r) ==
    /\ issued' \in [Rows -> SUBSET (Nat \ {0})]
    /\ \A row \in Rows :
          LET new == issued'[row] \ issued[row]
          IN  /\ issued[row] \subseteq issued'[row]
              /\ Cardinality(new) = Demand(r, row)
              /\ \A n \in new, m \in issued[row] : n > m

Next == \E r \in Requests : Issue(r)

Spec == Init /\ [][Next]_issued

=============================================================================
