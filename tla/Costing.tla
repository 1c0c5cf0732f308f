------------------------------ MODULE Costing ------------------------------
(***************************************************************************)
(* The money arithmetic of app/utils/money.py and the moving-average cost  *)
(* of inventory_service._new_average, on scaled integers.                  *)
(*                                                                         *)
(* The database stores quantities and unit prices with 4 decimals and      *)
(* amounts with 2.  Counting each in units of its last decimal makes every *)
(* value an integer, and Scale (10^6 in the code) is the one factor that   *)
(* relates them: an amount is quantity * price / Scale rounded, an average *)
(* is amount * Scale / quantity rounded.  A sum of amounts is already at 2 *)
(* decimals, so money() of it is the sum itself.                           *)
(***************************************************************************)
EXTENDS Integers

CONSTANT Scale

ASSUME ScaleAssumption == Scale \in Nat \ {0}

\* Decimal.quantize(..., ROUND_HALF_UP) of the non-negative ratio n / d.
RoundHalfUp(n, d) == (2 * n + d) \div (2 * d)

\* money.line_amount: the amount of a line.
LineAmount(quantity, price) == RoundHalfUp(quantity * price, Scale)

\* inventory_service._new_average: the moving average, 0 on an empty balance.
NewAverage(total, quantity) ==
    IF quantity <= 0 THEN 0 ELSE RoundHalfUp(total * Scale, quantity)

=============================================================================
