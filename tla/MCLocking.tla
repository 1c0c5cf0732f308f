----------------------------- MODULE MCLocking -----------------------------
(***************************************************************************)
(* Instances of Locking for TLC.  Orders 1 and 2 each have a line of both  *)
(* materials, order 1 in one order and order 2 in the other.               *)
(***************************************************************************)
EXTENDS Locking, TLC

LineMaterials == <<1, 2, 2, 1>>

\* Whole deliveries of two orders to one warehouse.
WholeReceipts == {[id |-> 1, order |-> 1, warehouse |-> 1, lines |-> <<1, 2>>],
                  [id |-> 2, order |-> 2, warehouse |-> 1, lines |-> <<3, 4>>]}

\* Deliveries of one order line to two warehouses.
SplitReceipts == {[id |-> 1, order |-> 1, warehouse |-> 1, lines |-> <<1>>],
                  [id |-> 2, order |-> 1, warehouse |-> 2, lines |-> <<1>>]}

StockCounts == {[id |-> 1, warehouse |-> 1, materials |-> <<2, 1>>]}

\* The two instances lie on either side of the condition of NoCrossWait.
ASSUME InstanceAssumption == WholeDeliveries <=> Receipts = WholeReceipts

SessionSymmetry == Permutations(Sessions)

=============================================================================
