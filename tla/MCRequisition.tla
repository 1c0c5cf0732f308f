--------------------------- MODULE MCRequisition ---------------------------
(***************************************************************************)
(* Instances of Requisition for TLC.                                       *)
(***************************************************************************)
EXTENDS Requisition, TLC

SessionSymmetry == Permutations(Sessions)

=============================================================================
