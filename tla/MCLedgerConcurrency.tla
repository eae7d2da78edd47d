------------------------ MODULE MCLedgerConcurrency -------------------------
(***************************************************************************)
(* Any three of six requests at once: buys of two stocks, a sale, two      *)
(* opposite transfers and an adjustment.                                   *)
(***************************************************************************)
EXTENDS LedgerConcurrency, TLC

CONSTANTS r1, r2, r3, r4, r5, r6, a, b, h, k

Amounts(f) == [x \in Rows |-> IF x \in DOMAIN f THEN f[x] ELSE 0]

MCStart == Amounts(a :> 3 @@ b :> 1 @@ h :> 2)

MCProgram ==
  r1 :> BuySteps(h, a) @@ r2 :> SellSteps(h, a) @@ r3 :> TransferSteps(a, b)
    @@ r4 :> TransferSteps(b, a) @@ r5 :> BuySteps(k, a) @@ r6 :> AdjustSteps(a)

MCEffect ==
  r1 :> Amounts(a :> -2 @@ h :> 1) @@ r2 :> Amounts(a :> 2 @@ h :> -3)
    @@ r3 :> Amounts(a :> -2 @@ b :> 2) @@ r4 :> Amounts(a :> 1 @@ b :> -1)
    @@ r5 :> Amounts(a :> -3 @@ k :> 1) @@ r6 :> Amounts(a :> -1)

=============================================================================
