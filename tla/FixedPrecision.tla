--------------------------- MODULE FixedPrecision ---------------------------
(***************************************************************************)
(* Amounts, prices and quantities are decimals quantized to eight places   *)
(* (app/fixed_precision.py).  The specifications count those quanta, so a  *)
(* value is an integer and comparisons with a tolerance stay exact.        *)
(***************************************************************************)
EXTENDS Integers

\* FIXED_EPSILON, HOLDING_QUANTITY_EPSILON: the tolerance is one quantum.
Epsilon == 1
=============================================================================
