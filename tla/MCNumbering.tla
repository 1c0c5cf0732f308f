---------------------------- MODULE MCNumbering ----------------------------
(***************************************************************************)
(* Instances of Numbering for TLC: create_material, create_pr and          *)
(* create_receipt with two lines, on two business dates.                   *)
(***************************************************************************)
EXTENDS Numbering, TLC

Handlers == {<<"MAT">>, <<"PR">>, <<"RCV", "TXN", "TXN">>}

SessionSymmetry == Permutations(Sessions)

=============================================================================
