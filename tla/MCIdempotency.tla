--------------------------- MODULE MCIdempotency ----------------------------
(***************************************************************************)
(* Idempotency with four requests, the first of which has parameters of    *)
(* its own.                                                                *)
(***************************************************************************)
EXTENDS Idempotency

CONSTANTS r1, r2, r3, r4

MCBody == [r \in Requests |-> IF r = r1 THEN "other" ELSE "same"]
=============================================================================
