----------------------- MODULE MCStockReconciliation -----------------------
(***************************************************************************)
(* Instances of StockReconciliation for TLC.                               *)
(***************************************************************************)
EXTENDS StockReconciliation, TLC

SessionSymmetry == Permutations(Sessions)

=============================================================================
