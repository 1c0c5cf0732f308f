---------------------------- MODULE MCMasterData ----------------------------
(***************************************************************************)
(* Symmetry of MasterData for TLC.                                         *)
(***************************************************************************)
EXTENDS MasterData, TLC

SessionSymmetry == Permutations(Sessions)

=============================================================================
