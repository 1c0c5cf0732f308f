--------------------------- MODULE MCProcurement ---------------------------
(***************************************************************************)
(* Instances of Procurement for TLC: values for the constants that are     *)
(* functions.  Item, line and price tables may be longer than an instance  *)
(* uses; prices are chosen so that line amounts round up and down.         *)
(***************************************************************************)
EXTENDS Procurement, TLC

CONSTANTS s1, s2, r1, o1, o2, w1, m1, v1

OneItem  == [p \in 1..1 |-> r1]
TwoItems == [p \in 1..2 |-> r1]

RequestedTwo   == [p \in Items |-> 2]
RequestedThree == [p \in Items |-> 3]

OneLine        == 1 :> o1
TwoLines       == 1 :> o1 @@ 2 :> o1
OneLineEach    == 1 :> o1 @@ 2 :> o2
TwoLinesAndOne == 1 :> o1 @@ 2 :> o1 @@ 3 :> o2

SameMaterial == [l \in Lines |-> m1]
Prices       == [l \in Lines |-> <<5, 6, 2>>[l]]
Supplied     == [o \in Orders |-> v1]

SessionSymmetry == Permutations(Sessions)

=============================================================================
