---------------------- MODULE LedgerConcurrency_proofs ----------------------
(***************************************************************************)
(* What holds of balances and positions however requests overlap, for      *)
(* every finite set of adjustments, transfers, buys and sales, every set   *)
(* of rows and all amounts.                                                *)
(***************************************************************************)
EXTENDS LedgerConcurrency, FiniteSetTheorems, SequenceTheorems, WellFoundedInduction, TLAPS

(***************************************************************************)
(* Sums over requests.  Ledger adds the entries up in some order; that one *)
(* more request adds its own amount, whatever the order, is shown by       *)
(* looking for the smallest set of requests for which it would not.        *)
(***************************************************************************)
Picked(R) == CHOOSE r \in R : TRUE

SumOf(f, R) == FoldFunctionOnSet(+, 0, f, R)

AddsUp(s, f, R) ==
  s = [S \in SUBSET R |-> IF S = {} THEN 0 ELSE f[Picked(S)] + s[S \ {Picked(S)}]]

\* A non-empty family of finite sets has a member with no smaller one in it.
LEMMA SmallestSet ==
  ASSUME NEW E, IsFiniteSet(E), NEW F, F \subseteq SUBSET E, F # {}
  PROVE  \E S \in F : \A R \in F : R \subseteq S => R = S
<1>1. IsWellFoundedOn(StrictSubsetOrdering(E), SUBSET E)
  BY FS_StrictSubsetOrderingWellFounded, FS_FiniteSubsetsOfFinite
<1>2. PICK S \in F : \A R \in F : <<R, S>> \notin StrictSubsetOrdering(E)
  BY <1>1, WFMin
<1> QED BY <1>2 DEF StrictSubsetOrdering

\* Two ways of adding up agree where both are defined.
LEMMA SumsAgree ==
  ASSUME NEW f, NEW Q, NEW R, IsFiniteSet(R), NEW s, NEW t, AddsUp(s, f, Q), AddsUp(t, f, R),
         NEW S \in SUBSET R, S \subseteq Q
  PROVE  s[S] = t[S]
<1> DEFINE F == {T \in SUBSET R : T \subseteq Q /\ s[T] # t[T]}
<1>1. SUFFICES ASSUME F # {} PROVE FALSE
  OBVIOUS
<1>2. PICK T \in F : \A U \in F : U \subseteq T => U = T
  <2>1. F \subseteq SUBSET R
    OBVIOUS
  <2> HIDE DEF F
  <2> QED
    BY <1>1, <2>1, SmallestSet
<1>3. /\ s[T] = IF T = {} THEN 0 ELSE f[Picked(T)] + s[T \ {Picked(T)}]
      /\ t[T] = IF T = {} THEN 0 ELSE f[Picked(T)] + t[T \ {Picked(T)}]
  BY DEF AddsUp
<1>4. T # {} => Picked(T) \in T
  BY DEF Picked
<1>5. T # {} => s[T \ {Picked(T)}] = t[T \ {Picked(T)}]
  BY <1>2, <1>4
<1> QED
  BY <1>3, <1>5

\* SumOf is such a way, if there is one, ...
LEMMA SumIsChosen ==
  ASSUME NEW f, NEW R
  PROVE  SumOf(f, R) = (CHOOSE s : AddsUp(s, f, R))[R]
BY DEF SumOf, FoldFunctionOnSet, MapThenFoldSet, AddsUp, Picked

\* ... and then unfolds by one request, if there is one for the others.
LEMMA SumUnfolds ==
  ASSUME NEW f, NEW R, IsFiniteSet(R), R # {}, NEW s, AddsUp(s, f, R),
         NEW t, AddsUp(t, f, R \ {Picked(R)})
  PROVE  SumOf(f, R) = f[Picked(R)] + SumOf(f, R \ {Picked(R)})
<1> DEFINE rest == R \ {Picked(R)}
           F(S) == CHOOSE h : AddsUp(h, f, S)
<1>1. AddsUp(F(R), f, R) /\ AddsUp(F(rest), f, rest)
  OBVIOUS
<1>2. SumOf(f, R) = F(R)[R] /\ SumOf(f, rest) = F(rest)[rest]
  BY SumIsChosen
<1>3. IsFiniteSet(rest) /\ rest \in SUBSET rest /\ rest \subseteq R
  BY FS_Subset
<1>4. F(R)[R] = f[Picked(R)] + F(R)[rest]
  BY <1>1 DEF AddsUp
<1>5. F(R)[rest] = F(rest)[rest]
  <2> HIDE DEF F, rest
  <2> QED
    BY <1>1, <1>3, SumsAgree
<1> QED
  BY <1>2, <1>4, <1>5

\* The sum over nobody.
LEMMA SumOfNone ==
  ASSUME NEW f
  PROVE  SumOf(f, {}) = 0
<1>1. AddsUp([S \in SUBSET {} |-> 0], f, {})
  BY DEF AddsUp
<1> DEFINE s == CHOOSE h : AddsUp(h, f, {})
<1>2. AddsUp(s, f, {})
  BY <1>1
<1>3. s[{}] = 0
  BY <1>2 DEF AddsUp
<1> QED
  BY <1>3, SumIsChosen

\* Every finite set of requests can be added up.
LEMMA SumsExist ==
  ASSUME NEW f, NEW R, IsFiniteSet(R)
  PROVE  \E s : AddsUp(s, f, R)
<1> DEFINE F == {S \in SUBSET R : ~ \E s : AddsUp(s, f, S)}
<1>1. SUFFICES ASSUME F # {} PROVE FALSE
  OBVIOUS
<1>2. PICK S \in F : \A T \in F : T \subseteq S => T = S
  <2>1. F \subseteq SUBSET R
    OBVIOUS
  <2> HIDE DEF F
  <2> QED
    BY <1>1, <2>1, SmallestSet
<1> DEFINE Rest(T) == T \ {Picked(T)}
           g == [T \in SUBSET S |-> IF T = {} THEN 0 ELSE f[Picked(T)] + SumOf(f, Rest(T))]
<1>3. \A T \in SUBSET S : T # S => IsFiniteSet(T) /\ \E s : AddsUp(s, f, T)
  BY <1>2, FS_Subset
<1>4. \A T \in SUBSET S : T # {} => Rest(T) \in SUBSET S /\ Rest(T) # S
  BY DEF Picked
<1>5. ASSUME NEW T \in SUBSET S, T # S
      PROVE  SumOf(f, T) = g[T]
  <2>1. CASE T = {}
    BY <2>1, SumOfNone
  <2>2. CASE T # {}
    <3>1. /\ IsFiniteSet(T) /\ \E s : AddsUp(s, f, T)
          /\ \E s : AddsUp(s, f, Rest(T))
      BY <1>3, <1>4, <1>5, <2>2
    <3>2. SumOf(f, T) = f[Picked(T)] + SumOf(f, Rest(T))
      BY <2>2, <3>1, SumUnfolds
    <3> QED
      BY <2>2, <3>2
  <2> QED
    BY <2>1, <2>2
<1>6. AddsUp(g, f, S)
  <2>1. \A T \in SUBSET S : T # {} => SumOf(f, Rest(T)) = g[Rest(T)]
    BY <1>4, <1>5
  <2> SUFFICES g = [T \in SUBSET S |-> IF T = {} THEN 0 ELSE f[Picked(T)] + g[Rest(T)]]
    BY DEF AddsUp
  <2>2. \A T \in SUBSET S : g[T] = IF T = {} THEN 0 ELSE f[Picked(T)] + g[Rest(T)]
    BY <2>1
  <2>3. g = [T \in SUBSET S |-> g[T]]
    OBVIOUS
  <2> HIDE DEF g, Rest
  <2> QED
    BY <2>2, <2>3
<1> QED
  BY <1>2, <1>6

\* A sum unfolds by the request that is picked, ...
LEMMA SumOfSome ==
  ASSUME NEW f, NEW R, IsFiniteSet(R), R # {}
  PROVE  SumOf(f, R) = f[Picked(R)] + SumOf(f, R \ {Picked(R)})
<1>1. IsFiniteSet(R \ {Picked(R)})
  BY FS_Subset
<1> QED
  BY <1>1, SumsExist, SumUnfolds

\* ... is an integer, ...
LEMMA SumIsInt ==
  ASSUME NEW f, NEW R, IsFiniteSet(R), \A r \in R : f[r] \in Int
  PROVE  SumOf(f, R) \in Int
<1> DEFINE F == {S \in SUBSET R : SumOf(f, S) \notin Int}
<1>1. SUFFICES ASSUME F # {} PROVE FALSE
  OBVIOUS
<1>2. PICK S \in F : \A T \in F : T \subseteq S => T = S
  <2>1. F \subseteq SUBSET R
    OBVIOUS
  <2> HIDE DEF F
  <2> QED
    BY <1>1, <2>1, SmallestSet
<1>3. S # {} /\ IsFiniteSet(S)
  <2>1. S # {}
    BY SumOfNone
  <2>2. S \in SUBSET R
    OBVIOUS
  <2> QED
    BY <2>1, <2>2, FS_Subset
<1>4. Picked(S) \in S
  BY <1>3 DEF Picked
<1>5. SumOf(f, S \ {Picked(S)}) \in Int
  BY <1>2, <1>4
<1>6. f[Picked(S)] \in Int
  BY <1>4
<1> QED
  BY <1>3, <1>5, <1>6, SumOfSome

\* ... and unfolds by any request.
LEMMA SumWithout ==
  ASSUME NEW f, NEW R, IsFiniteSet(R), \A r \in R : f[r] \in Int, NEW q \in R
  PROVE  SumOf(f, R) = SumOf(f, R \ {q}) + f[q]
<1> DEFINE CountsOnce(S, r) == SumOf(f, S) = SumOf(f, S \ {r}) + f[r]
           F == {S \in SUBSET R : \E r \in S : ~CountsOnce(S, r)}
<1>1. SUFFICES ASSUME F # {} PROVE FALSE
  OBVIOUS
<1>2. PICK S \in F : \A T \in F : T \subseteq S => T = S
  <2>1. F \subseteq SUBSET R
    OBVIOUS
  <2> HIDE DEF F
  <2> QED
    BY <1>1, <2>1, SmallestSet
<1>3. PICK e \in S : ~CountsOnce(S, e)
  OBVIOUS
<1> DEFINE d == Picked(S)
<1>4. d \in S
  BY <1>3 DEF Picked
<1>5. ASSUME NEW T \in SUBSET S
      PROVE  IsFiniteSet(T) /\ SumOf(f, T) \in Int
  <2>1. T \in SUBSET R
    OBVIOUS
  <2>2. IsFiniteSet(T) /\ \A r \in T : f[r] \in Int
    BY <2>1, FS_Subset
  <2> QED
    BY <2>2, SumIsInt
<1>6. f[d] \in Int /\ f[e] \in Int
  BY <1>4
<1>7. CountsOnce(S, d)
  <2>1. SumOf(f, S) = f[d] + SumOf(f, S \ {d})
    BY <1>3, <1>5, SumOfSome
  <2>2. SumOf(f, S \ {d}) \in Int
    BY <1>5
  <2> HIDE DEF d
  <2> QED
    BY <1>6, <2>1, <2>2
<1>8. d # e
  BY <1>3, <1>7
<1>9. \A T \in SUBSET S : T # S => \A r \in T : CountsOnce(T, r)
  <2>1. \A T \in SUBSET S : T # S => T \notin F
    BY <1>2
  <2>2. SUBSET S \subseteq SUBSET R
    OBVIOUS
  <2> HIDE DEF CountsOnce
  <2> QED
    BY <2>1, <2>2
<1> HIDE DEF d, F
<1>10. CountsOnce(S \ {d}, e) /\ CountsOnce(S \ {e}, d)
  <2> HIDE DEF CountsOnce
  <2> QED
    BY <1>4, <1>8, <1>9
<1>11. (S \ {d}) \ {e} = (S \ {e}) \ {d}
  OBVIOUS
<1> DEFINE rest == SumOf(f, (S \ {e}) \ {d})
<1>12. SumOf(f, S \ {d}) = rest + f[e] /\ SumOf(f, S \ {e}) = rest + f[d]
  BY <1>10, <1>11
<1>13. rest \in Int
  BY <1>5
<1> HIDE DEF rest
<1>14. SumOf(f, S) = SumOf(f, S \ {d}) + f[d]
  BY <1>7
<1> QED
  BY <1>3, <1>6, <1>12, <1>13, <1>14

\* The ledger of some requests is an integer, and one more adds its amount.
LEMMA LedgerIsSum ==
  ASSUME NEW R \in SUBSET Requests, NEW x \in Rows
  PROVE  /\ Ledger(R, x) \in Int
         /\ \A r \in Requests \ R : Ledger(R \cup {r}, x) = Ledger(R, x) + Effect[r][x]
<1> DEFINE f == [r \in Requests |-> Effect[r][x]]
<1>1. \A r \in Requests : f[r] \in Int /\ f[r] = Effect[r][x]
  BY ConcurrencyConstants
<1>2. Start[x] \in Int
  BY ConcurrencyConstants
<1>3. \A S \in SUBSET Requests : Ledger(S, x) = Start[x] + SumOf(f, S)
  BY DEF Ledger, SumOf
<1> HIDE DEF f
<1>4. \A S \in SUBSET Requests : IsFiniteSet(S) /\ SumOf(f, S) \in Int
  BY <1>1, ConcurrencyConstants, FS_Subset, SumIsInt
<1>5. ASSUME NEW r \in Requests \ R
      PROVE  Ledger(R \cup {r}, x) = Ledger(R, x) + Effect[r][x]
  <2>1. R \cup {r} \in SUBSET Requests /\ (R \cup {r}) \ {r} = R
    OBVIOUS
  <2>2. SumOf(f, R \cup {r}) = SumOf(f, R) + f[r]
    BY <1>1, <1>4, <2>1, SumWithout
  <2> QED
    BY <1>1, <1>2, <1>3, <1>4, <2>1, <2>2
<1> QED
  BY <1>2, <1>3, <1>4, <1>5

-----------------------------------------------------------------------------
(***************************************************************************)
(* The programs of the handlers.                                           *)
(***************************************************************************)
Kinds == {"load", "cover", "held", "sum", "replay", "lock", "write"}

WritesRow(P, x) == \E k \in DOMAIN P : P[k].op = "write" /\ P[k].row = x

\* A program loads first; it loads a row before it writes or checks the stored
\* value, and what it writes is the sum it has just read.
Shaped(P) ==
  /\ P \in Seq([op : Kinds, row : Rows]) /\ Len(P) \in Nat \ {0}
  /\ P[1].op = "load"
  /\ \A k \in DOMAIN P :
       /\ P[k].op = "write" => /\ k - 1 \in DOMAIN P
                               /\ P[k - 1].op \in {"sum", "replay"}
                               /\ P[k - 1].row = P[k].row
       /\ P[k].op \in {"write", "cover"} =>
            \E j \in 1 .. k - 1 : P[j].op = "load" /\ P[j].row = P[k].row

\* The statements of an adjustment, ...
LEMMA AdjustIsShaped ==
  ASSUME NEW x \in Rows
  PROVE  /\ Shaped(AdjustSteps(x))
         /\ WritesRow(AdjustSteps(x), x)
<1> DEFINE P == AdjustSteps(x)
<1>1. /\ Len(P) = 3 /\ DOMAIN P = 1 .. 3
      /\ P \in Seq([op : Kinds, row : Rows])
      /\ P[1] = [op |-> "load", row |-> x]
      /\ P[2] = [op |-> "sum", row |-> x]
      /\ P[3] = [op |-> "write", row |-> x]
  BY DEF AdjustSteps, Step, Kinds
<1> HIDE DEF P
<1>2. \A k \in 1 .. 3 : k = 1 \/ k = 2 \/ k = 3
  OBVIOUS
<1>3. Shaped(P)
  BY <1>1, <1>2 DEF Shaped
<1>4. WritesRow(P, x)
  BY <1>1 DEF WritesRow
<1> QED BY <1>3, <1>4 DEF P

\* ... a transfer, ...
LEMMA TransferIsShaped ==
  ASSUME NEW x \in Rows, NEW y \in Rows
  PROVE  /\ Shaped(TransferSteps(x, y))
         /\ WritesRow(TransferSteps(x, y), x) /\ WritesRow(TransferSteps(x, y), y)
<1> DEFINE P == TransferSteps(x, y)
<1>1. /\ Len(P) = 7 /\ DOMAIN P = 1 .. 7
      /\ P \in Seq([op : Kinds, row : Rows])
      /\ P[1] = [op |-> "load", row |-> x] /\ P[2] = [op |-> "load", row |-> y]
      /\ P[3] = [op |-> "cover", row |-> x]
      /\ P[4] = [op |-> "sum", row |-> x] /\ P[5] = [op |-> "write", row |-> x]
      /\ P[6] = [op |-> "sum", row |-> y] /\ P[7] = [op |-> "write", row |-> y]
  BY DEF TransferSteps, Step, Kinds
<1> HIDE DEF P
<1>2. \A k \in 1 .. 7 : k = 1 \/ k = 2 \/ k = 3 \/ k = 4 \/ k = 5 \/ k = 6 \/ k = 7
  OBVIOUS
<1>3. Shaped(P)
  BY <1>1, <1>2 DEF Shaped
<1>4. WritesRow(P, x) /\ WritesRow(P, y)
  BY <1>1 DEF WritesRow
<1> QED BY <1>3, <1>4 DEF P

IsBuy(P, x, y) ==
  /\ P \in Seq([op : Kinds, row : Rows]) /\ Len(P) = 8 /\ DOMAIN P = 1 .. 8
  /\ P[1] = [op |-> "load", row |-> x] /\ P[2] = [op |-> "replay", row |-> x]
  /\ P[3] = [op |-> "write", row |-> x] /\ P[4] = [op |-> "load", row |-> y]
  /\ P[5] = [op |-> "cover", row |-> y] /\ P[6] = [op |-> "lock", row |-> y]
  /\ P[7] = [op |-> "sum", row |-> y] /\ P[8] = [op |-> "write", row |-> y]

IsSale(P, x, y) ==
  /\ P \in Seq([op : Kinds, row : Rows]) /\ Len(P) = 8 /\ DOMAIN P = 1 .. 8
  /\ P[1] = [op |-> "load", row |-> x] /\ P[2] = [op |-> "held", row |-> x]
  /\ P[3] = [op |-> "replay", row |-> x] /\ P[4] = [op |-> "write", row |-> x]
  /\ P[5] = [op |-> "load", row |-> y] /\ P[6] = [op |-> "lock", row |-> y]
  /\ P[7] = [op |-> "sum", row |-> y] /\ P[8] = [op |-> "write", row |-> y]

\* What both trades do to the account follows what they do to the holding.
LEMMA SettleIsLast ==
  ASSUME NEW s \in Seq([op : Kinds, row : Rows]), Len(s) = 5, NEW y \in Rows
  PROVE  LET P == s \o SettleSteps(y)
         IN /\ P \in Seq([op : Kinds, row : Rows]) /\ Len(P) = 8 /\ DOMAIN P = 1 .. 8
            /\ \A i \in 1 .. 5 : P[i] = s[i]
            /\ P[6] = [op |-> "lock", row |-> y]
            /\ P[7] = [op |-> "sum", row |-> y] /\ P[8] = [op |-> "write", row |-> y]
<1> DEFINE t == SettleSteps(y)
           S == [op : Kinds, row : Rows]
<1>1. /\ t \in Seq(S) /\ Len(t) = 3
      /\ t[1] = [op |-> "lock", row |-> y]
      /\ t[2] = [op |-> "sum", row |-> y] /\ t[3] = [op |-> "write", row |-> y]
  BY DEF SettleSteps, Step, Kinds
<1> HIDE DEF t, S
<1>2. /\ s \o t \in Seq(S) /\ Len(s \o t) = 8
      /\ \A i \in 1 .. 8 : (s \o t)[i] = IF i <= 5 THEN s[i] ELSE t[i - 5]
  <2>1. s \in Seq(S)
    BY DEF S
  <2>2. /\ s \o t \in Seq(S) /\ Len(s \o t) = Len(s) + Len(t)
        /\ \A i \in 1 .. Len(s) + Len(t) :
             (s \o t)[i] = IF i <= Len(s) THEN s[i] ELSE t[i - Len(s)]
    BY <1>1, <2>1, ConcatProperties
  <2>3. Len(s) + Len(t) = 8
    BY <1>1
  <2> QED BY <2>2, <2>3
<1>3. DOMAIN (s \o t) = 1 .. 8
  BY <1>2
<1>4. \A i \in 1 .. 5 : (s \o t)[i] = s[i]
  BY <1>2
<1>5. (s \o t)[6] = t[1] /\ (s \o t)[7] = t[2] /\ (s \o t)[8] = t[3]
  BY <1>2
<1> QED
  BY <1>1, <1>2, <1>3, <1>4, <1>5 DEF t, S

\* ... a buy, ...
LEMMA BuyIs ==
  ASSUME NEW x \in Rows, NEW y \in Rows
  PROVE  IsBuy(BuySteps(x, y), x, y)
<1> DEFINE s == <<Step("load", x), Step("replay", x), Step("write", x), Step("load", y),
                  Step("cover", y)>>
<1>1. /\ s \in Seq([op : Kinds, row : Rows]) /\ Len(s) = 5
      /\ s[1] = [op |-> "load", row |-> x] /\ s[2] = [op |-> "replay", row |-> x]
      /\ s[3] = [op |-> "write", row |-> x] /\ s[4] = [op |-> "load", row |-> y]
      /\ s[5] = [op |-> "cover", row |-> y]
  BY DEF Step, Kinds
<1>2. BuySteps(x, y) = s \o SettleSteps(y)
  BY DEF BuySteps
<1> HIDE DEF s
<1> DEFINE P == s \o SettleSteps(y)
<1>3. /\ P \in Seq([op : Kinds, row : Rows]) /\ Len(P) = 8 /\ DOMAIN P = 1 .. 8
      /\ \A i \in 1 .. 5 : P[i] = s[i]
      /\ P[6] = [op |-> "lock", row |-> y]
      /\ P[7] = [op |-> "sum", row |-> y] /\ P[8] = [op |-> "write", row |-> y]
  BY <1>1, SettleIsLast
<1> HIDE DEF P
<1>4. P[1] = s[1] /\ P[2] = s[2] /\ P[3] = s[3] /\ P[4] = s[4] /\ P[5] = s[5]
  BY <1>3
<1>5. IsBuy(P, x, y)
  BY <1>1, <1>3, <1>4 DEF IsBuy
<1> QED
  BY <1>2, <1>5 DEF P

\* ... and a sale.
LEMMA SaleIs ==
  ASSUME NEW x \in Rows, NEW y \in Rows
  PROVE  IsSale(SellSteps(x, y), x, y)
<1> DEFINE s == <<Step("load", x), Step("held", x), Step("replay", x), Step("write", x),
                  Step("load", y)>>
<1>1. /\ s \in Seq([op : Kinds, row : Rows]) /\ Len(s) = 5
      /\ s[1] = [op |-> "load", row |-> x] /\ s[2] = [op |-> "held", row |-> x]
      /\ s[3] = [op |-> "replay", row |-> x] /\ s[4] = [op |-> "write", row |-> x]
      /\ s[5] = [op |-> "load", row |-> y]
  BY DEF Step, Kinds
<1>2. SellSteps(x, y) = s \o SettleSteps(y)
  BY DEF SellSteps
<1> HIDE DEF s
<1> DEFINE P == s \o SettleSteps(y)
<1>3. /\ P \in Seq([op : Kinds, row : Rows]) /\ Len(P) = 8 /\ DOMAIN P = 1 .. 8
      /\ \A i \in 1 .. 5 : P[i] = s[i]
      /\ P[6] = [op |-> "lock", row |-> y]
      /\ P[7] = [op |-> "sum", row |-> y] /\ P[8] = [op |-> "write", row |-> y]
  BY <1>1, SettleIsLast
<1> HIDE DEF P
<1>4. P[1] = s[1] /\ P[2] = s[2] /\ P[3] = s[3] /\ P[4] = s[4] /\ P[5] = s[5]
  BY <1>3
<1>5. IsSale(P, x, y)
  BY <1>1, <1>3, <1>4 DEF IsSale
<1> QED
  BY <1>2, <1>5 DEF P

LEMMA BuyIsShaped ==
  ASSUME NEW x \in Rows, NEW y \in Rows, NEW P, IsBuy(P, x, y)
  PROVE  Shaped(P) /\ WritesRow(P, x) /\ WritesRow(P, y)
<1> USE DEF IsBuy
<1>1. \A k \in DOMAIN P : P[k].op = "write" => k = 3 \/ k = 8
  <2>1. \A k \in 1 .. 8 :
          k = 1 \/ k = 2 \/ k = 3 \/ k = 4 \/ k = 5 \/ k = 6 \/ k = 7 \/ k = 8
    OBVIOUS
  <2> QED BY <2>1
<1>2. \A k \in DOMAIN P : P[k].op = "cover" => k = 5
  <2>1. \A k \in 1 .. 8 :
          k = 1 \/ k = 2 \/ k = 3 \/ k = 4 \/ k = 5 \/ k = 6 \/ k = 7 \/ k = 8
    OBVIOUS
  <2> QED BY <2>1
<1>3. ASSUME NEW k \in DOMAIN P, P[k].op \in {"write", "cover"}
      PROVE  \E j \in 1 .. k - 1 : P[j].op = "load" /\ P[j].row = P[k].row
  <2>1. CASE k = 3
    <3>1. 1 \in 1 .. k - 1 /\ P[1].op = "load" /\ P[1].row = P[k].row
      BY <2>1
    <3> QED BY <3>1
  <2>2. CASE k = 5 \/ k = 8
    <3>1. 4 \in 1 .. k - 1 /\ P[4].op = "load" /\ P[4].row = P[k].row
      BY <2>2
    <3> QED BY <3>1
  <2> QED BY <1>1, <1>2, <1>3, <2>1, <2>2
<1>4. ASSUME NEW k \in DOMAIN P, P[k].op = "write"
      PROVE  k - 1 \in DOMAIN P /\ P[k - 1].op \in {"sum", "replay"} /\ P[k - 1].row = P[k].row
  BY <1>1, <1>4
<1>5. Shaped(P)
  BY <1>3, <1>4 DEF Shaped
<1>6. WritesRow(P, x) /\ WritesRow(P, y)
  BY DEF WritesRow
<1> QED BY <1>5, <1>6

LEMMA SaleIsShaped ==
  ASSUME NEW x \in Rows, NEW y \in Rows, NEW P, IsSale(P, x, y)
  PROVE  Shaped(P) /\ WritesRow(P, x) /\ WritesRow(P, y)
<1> USE DEF IsSale
<1>1. \A k \in DOMAIN P : P[k].op \in {"write", "cover"} => k = 4 \/ k = 8
  <2>1. \A k \in 1 .. 8 :
          k = 1 \/ k = 2 \/ k = 3 \/ k = 4 \/ k = 5 \/ k = 6 \/ k = 7 \/ k = 8
    OBVIOUS
  <2> QED BY <2>1
<1>2. ASSUME NEW k \in DOMAIN P, P[k].op \in {"write", "cover"}
      PROVE  \E j \in 1 .. k - 1 : P[j].op = "load" /\ P[j].row = P[k].row
  <2>1. CASE k = 4
    <3>1. 1 \in 1 .. k - 1 /\ P[1].op = "load" /\ P[1].row = P[k].row
      BY <2>1
    <3> QED BY <3>1
  <2>2. CASE k = 8
    <3>1. 5 \in 1 .. k - 1 /\ P[5].op = "load" /\ P[5].row = P[k].row
      BY <2>2
    <3> QED BY <3>1
  <2> QED BY <1>1, <1>2, <2>1, <2>2
<1>3. ASSUME NEW k \in DOMAIN P, P[k].op = "write"
      PROVE  k - 1 \in DOMAIN P /\ P[k - 1].op \in {"sum", "replay"} /\ P[k - 1].row = P[k].row
  BY <1>1, <1>3
<1>4. Shaped(P)
  BY <1>2, <1>3 DEF Shaped
<1>5. WritesRow(P, x) /\ WritesRow(P, y)
  BY DEF WritesRow
<1> QED BY <1>4, <1>5

\* Every request has such a program, and no entry on a row it does not write.
LEMMA RequestsAreShaped ==
  ASSUME NEW r \in Requests
  PROVE  /\ Shaped(Program[r])
         /\ \A x \in Rows : Effect[r][x] # 0 => WritesRow(Program[r], x)
<1>1. CASE \E x \in Rows : /\ Program[r] = AdjustSteps(x)
                           /\ \A z \in Rows \ {x} : Effect[r][z] = 0
  BY <1>1, AdjustIsShaped
<1>2. CASE \E x, y \in Rows :
             /\ Program[r] \in {TransferSteps(x, y), BuySteps(x, y), SellSteps(x, y)}
             /\ \A z \in Rows \ {x, y} : Effect[r][z] = 0
  <2>1. PICK x \in Rows, y \in Rows :
          /\ Program[r] \in {TransferSteps(x, y), BuySteps(x, y), SellSteps(x, y)}
          /\ \A z \in Rows \ {x, y} : Effect[r][z] = 0
    BY <1>2
  <2>2. Shaped(Program[r]) /\ WritesRow(Program[r], x) /\ WritesRow(Program[r], y)
    BY <2>1, TransferIsShaped, BuyIs, BuyIsShaped, SaleIs, SaleIsShaped
  <2> QED BY <2>1, <2>2
<1> QED BY <1>1, <1>2, RequestsAreHandled

LEMMA StatementsAre ==
  ASSUME NEW r \in Requests
  PROVE  /\ Len(Program[r]) \in Nat \ {0} /\ DOMAIN Program[r] = 1 .. Len(Program[r])
         /\ \A i \in DOMAIN Program[r] : Program[r][i].op \in Kinds /\ Program[r][i].row \in Rows
<1> DEFINE S == [op : Kinds, row : Rows]
<1>1. Program[r] \in Seq(S) /\ Len(Program[r]) \in Nat \ {0}
  BY RequestsAreShaped DEF Shaped
<1> HIDE DEF S
<1>2. DOMAIN Program[r] = 1 .. Len(Program[r])
  BY <1>1
<1>3. \A i \in DOMAIN Program[r] : Program[r][i] \in S
  BY <1>1, <1>2, ElementOfSeq
<1> QED BY <1>1, <1>2, <1>3 DEF S

\* The rows that a request writes
LEMMA WrittenRows ==
  ASSUME NEW r \in Requests, NEW x
  PROVE  x \in Written[r] <=> WritesRow(Program[r], x)
BY DEF Written, WritesRow, Range

\* A buy on an account writes another row before it, and takes money from it.
LEMMA BuysAre ==
  ASSUME NEW x \in Rows, NEW r \in BuysOn[x]
  PROVE  \E h \in Rows \ {x} : IsBuy(Program[r], h, x) /\ Effect[r][x] <= 0
<1>1. PICK h \in Rows : Program[r] = BuySteps(h, x) /\ r \in Requests
  BY DEF BuysOn
<1>2. IsBuy(Program[r], h, x)
  BY <1>1, BuyIs
<1>3. \A y \in Rows : Program[r] # AdjustSteps(y)
  BY <1>2 DEF IsBuy, AdjustSteps, Step
<1>4. \A y, z \in Rows : Program[r] # TransferSteps(y, z)
  BY <1>2 DEF IsBuy, TransferSteps, Step
<1>5. ASSUME NEW y \in Rows, NEW z \in Rows
      PROVE  Program[r] # SellSteps(y, z)
  <2>1. SellSteps(y, z)[2] = [op |-> "held", row |-> y]
    BY SaleIs DEF IsSale
  <2>2. Program[r][2] = [op |-> "replay", row |-> h]
    BY <1>2 DEF IsBuy
  <2> QED BY <2>1, <2>2
<1>6. ASSUME NEW y \in Rows, NEW z \in Rows, Program[r] = BuySteps(y, z)
      PROVE  y = h /\ z = x
  <2>1. IsBuy(Program[r], y, z)
    BY <1>6, BuyIs
  <2> QED BY <1>2, <2>1 DEF IsBuy
<1>7. PICK y \in Rows, z \in Rows : /\ y # z
                          /\ Program[r] = BuySteps(y, z)
                          /\ Effect[r][z] <= 0
  BY <1>1, <1>3, <1>4, <1>5, RequestsAreHandled
<1> QED
  BY <1>2, <1>6, <1>7

-----------------------------------------------------------------------------
(***************************************************************************)
(* Types, and what a request can have set: rows that it writes, while it   *)
(* holds their locks.                                                      *)
(***************************************************************************)
Endings == {"committed", "rejected", "rolled back"}

Typed ==
  /\ TypeOK
  /\ lock \in [Rows -> Requests \cup {Nobody}]
  /\ pc \in [Requests -> Nat]
  /\ dirty = [r \in Requests |-> dirty[r]]
  /\ \A r \in Requests : \A x \in DOMAIN dirty[r] :
       x \in Rows /\ WritesRow(Program[r], x) /\ dirty[r][x] \in Int

LEMMA TypedInit == Init => Typed
<1> SUFFICES ASSUME Init PROVE Typed
  OBVIOUS
<1>1. \A r \in Requests : Shaped(Program[r])
  BY RequestsAreShaped
<1>2. /\ stored \in [Rows -> Int] /\ loaded \in [Requests -> [Rows -> Int]]
      /\ total \in [Requests -> Int]
  BY ConcurrencyConstants DEF Init
<1>3. /\ outcome \in [Requests -> {"absent", "open", "committed", "rejected", "rolled back"}]
      /\ committed = {r \in Requests : outcome[r] = "committed"}
      /\ seen \in [Requests -> SUBSET committed]
  BY DEF Init
<1>4. \A r \in Requests : pc[r] \in 1 .. (Len(Program[r]) + 1) /\ pc \in [Requests -> Nat]
  BY <1>1 DEF Init, Shaped
<1>5. \A x \in Rows : lock[x] = Nobody /\ lock \in [Rows -> Requests \cup {Nobody}]
  BY DEF Init
<1>6. dirty = [r \in Requests |-> dirty[r]] /\ \A r \in Requests : DOMAIN dirty[r] = {}
  BY DEF Init, Empty
<1>7. TypeOK
  BY <1>2, <1>3, <1>4, <1>5, <1>6 DEF TypeOK
<1> QED
  BY <1>4, <1>5, <1>6, <1>7, ConcurrencyConstants DEF Typed, Init

-----------------------------------------------------------------------------
(***************************************************************************)
(* The steps: a request gives up, loads, passes a check, sums, locks,      *)
(* writes or commits.                                                      *)
(***************************************************************************)
GivesUp(r) ==
  /\ Open(r)
  /\ \E how \in {"rejected", "rolled back"} : End(r, how)
  /\ UNCHANGED <<stored, committed>>

Passes(r) ==
  /\ Running(r)
  /\ \/ Op(r) = "cover" /\ loaded[r][Row(r)] + Effect[r][Row(r)] >= 0
     \/ Op(r) = "held" /\ Ledger(committed, Row(r)) + Effect[r][Row(r)] >= 0
  /\ Proceed(r)
  /\ UNCHANGED <<stored, committed, lock, session>>

Sums(r) ==
  /\ Running(r) /\ Op(r) \in {"sum", "replay"}
  /\ total' = [total EXCEPT ![r] = Ledger(committed \cup {r}, Row(r))]
  /\ Proceed(r)
  /\ UNCHANGED <<stored, committed, lock, loaded, dirty, seen>>

LEMMA NextIs ==
  ASSUME Next
  PROVE  \E r \in Requests : \/ GivesUp(r) \/ Load(r) \/ Passes(r) \/ Sums(r)
                             \/ Lock(r) \/ Write(r) \/ Commit(r)
<1>1. PICK r \in Requests : Advance(r) \/ Fail(r) \/ AbortDeadlocked(r)
  BY DEF Next
<1>2. CASE Cover(r)
  BY <1>2 DEF Cover, Enough, Passes, Reject, GivesUp, Running
<1>3. CASE Held(r)
  BY <1>3 DEF Held, Enough, Passes, Reject, GivesUp, Running
<1>4. CASE Sum(r)
  BY <1>4 DEF Sum, Sums, Reject, GivesUp, Running
<1>5. CASE Fail(r)
  BY <1>5 DEF Fail, GivesUp
<1>6. CASE AbortDeadlocked(r)
  BY <1>6 DEF AbortDeadlocked, Waiting, Running, GivesUp
<1> QED
  BY <1>1, <1>2, <1>3, <1>4, <1>5, <1>6 DEF Advance

\* A request that is running is at a statement on a row.
LEMMA RunningIs ==
  ASSUME Typed, NEW r \in Requests, Running(r)
  PROVE  /\ pc[r] \in DOMAIN Program[r] /\ pc[r] \in Nat \ {0}
         /\ Op(r) \in Kinds /\ Row(r) \in Rows
         /\ Op(r) = "write" => WritesRow(Program[r], Row(r))
<1>1. /\ pc[r] \in 1 .. (Len(Program[r]) + 1) /\ pc[r] <= Len(Program[r])
      /\ Len(Program[r]) \in Nat
  BY StatementsAre DEF Typed, TypeOK, Running
<1>2. pc[r] \in DOMAIN Program[r] /\ pc[r] \in Nat \ {0}
  BY <1>1, StatementsAre
<1>3. Program[r][pc[r]].op \in Kinds /\ Program[r][pc[r]].row \in Rows
  BY <1>2, StatementsAre
<1> QED
  BY <1>2, <1>3 DEF Op, Row, WritesRow

\* Going on moves one request to its next statement.
Proceeded(r) ==
  /\ pc' \in [Requests -> Nat] /\ pc'[r] = pc[r] + 1
  /\ pc'[r] \in 1 .. (Len(Program[r]) + 1)
  /\ \A q \in Requests \ {r} : pc'[q] = pc[q]
  /\ outcome' = outcome /\ outcome[r] = "open"

LEMMA ProceedIs ==
  ASSUME Typed, NEW r \in Requests, Running(r), Proceed(r)
  PROVE  Proceeded(r)
<1>1. pc \in [Requests -> Nat] /\ pc[r] <= Len(Program[r]) /\ Len(Program[r]) \in Nat
  BY RequestsAreShaped DEF Typed, Running, Shaped
<1> QED
  BY <1>1 DEF Proceed, Proceeded, Running, Open

\* Its end frees its locks and its session, and nobody else's.
Ended(r, how) ==
  /\ outcome' \in [Requests -> {"absent", "open", "committed", "rejected", "rolled back"}]
  /\ outcome'[r] = how /\ pc'[r] = 1 /\ DOMAIN dirty'[r] = {} /\ seen'[r] = {}
  /\ pc' \in [Requests -> Nat]
  /\ dirty' = [q \in Requests |-> dirty'[q]]
  /\ loaded' \in [Requests -> [Rows -> Int]]
  /\ total' \in [Requests -> Int]
  /\ lock' \in [Rows -> Requests \cup {Nobody}]
  /\ \A x \in Rows : lock'[x] = IF lock[x] = r THEN Nobody ELSE lock[x]
  /\ seen' = [q \in Requests |-> IF q = r THEN {} ELSE seen[q]]
  /\ \A q \in Requests \ {r} :
       /\ outcome'[q] = outcome[q] /\ pc'[q] = pc[q] /\ loaded'[q] = loaded[q]
       /\ total'[q] = total[q] /\ dirty'[q] = dirty[q] /\ seen'[q] = seen[q]

LEMMA EndIs ==
  ASSUME Typed, NEW r \in Requests, NEW how \in Endings, Open(r), End(r, how)
  PROVE  Ended(r, how)
<1>1. /\ outcome \in [Requests -> {"absent", "open", "committed", "rejected", "rolled back"}]
      /\ pc \in [Requests -> Nat] /\ loaded \in [Requests -> [Rows -> Int]]
      /\ total \in [Requests -> Int] /\ seen \in [Requests -> SUBSET committed]
      /\ lock \in [Rows -> Requests \cup {Nobody}] /\ DOMAIN dirty = Requests
      /\ dirty = [q \in Requests |-> dirty[q]]
  BY DEF Typed, TypeOK
<1>2. /\ outcome' \in [Requests -> {"absent", "open", "committed", "rejected", "rolled back"}]
      /\ outcome'[r] = how /\ \A q \in Requests \ {r} : outcome'[q] = outcome[q]
  BY <1>1 DEF End, Endings
<1>3. /\ pc' \in [Requests -> Nat] /\ pc'[r] = 1 /\ \A q \in Requests \ {r} : pc'[q] = pc[q]
  BY <1>1 DEF End
<1>4. /\ DOMAIN dirty'[r] = {} /\ dirty' = [q \in Requests |-> dirty'[q]]
      /\ \A q \in Requests \ {r} : dirty'[q] = dirty[q]
  BY <1>1 DEF End, Empty
<1>5. /\ loaded' \in [Requests -> [Rows -> Int]]
      /\ \A q \in Requests \ {r} : loaded'[q] = loaded[q]
  <2>1. Start \in [Rows -> Int]
    BY ConcurrencyConstants
  <2>2. loaded' = [loaded EXCEPT ![r] = Start]
    BY DEF End
  <2> QED BY <1>1, <2>1, <2>2
<1>6. /\ total' \in [Requests -> Int] /\ \A q \in Requests \ {r} : total'[q] = total[q]
  <2>1. total' = [total EXCEPT ![r] = 0]
    BY DEF End
  <2>2. total \in [Requests -> Int]
    BY <1>1
  <2>3. total' \in [Requests -> Int]
    BY <2>1, <2>2
  <2>4. \A q \in Requests \ {r} : total'[q] = total[q]
    BY <2>1, <2>2
  <2> QED BY <2>3, <2>4
<1>7. /\ lock' \in [Rows -> Requests \cup {Nobody}]
      /\ \A x \in Rows : lock'[x] = IF lock[x] = r THEN Nobody ELSE lock[x]
  BY <1>1 DEF End, Release
<1>8. /\ seen' = [q \in Requests |-> IF q = r THEN {} ELSE seen[q]]
      /\ seen'[r] = {} /\ \A q \in Requests \ {r} : seen'[q] = seen[q]
  BY <1>1 DEF End
<1> QED
  BY <1>2, <1>3, <1>4, <1>5, <1>6, <1>7, <1>8 DEF Ended

LEMMA EndTyped ==
  ASSUME Typed, NEW r \in Requests, NEW how \in Endings, Open(r), End(r, how),
         committed' = (IF how = "committed" THEN committed \cup {r} ELSE committed),
         stored' \in [Rows -> Int]
  PROVE  Typed'
<1>1. Ended(r, how)
  BY EndIs
<1>2. /\ outcome[r] = "open" /\ committed = {q \in Requests : outcome[q] = "committed"}
      /\ seen \in [Requests -> SUBSET committed]
  BY DEF Typed, TypeOK, Open
<1>3. committed' = {q \in Requests : outcome'[q] = "committed"}
  BY <1>1, <1>2 DEF Endings, Ended
<1>4. \A x \in Rows : lock'[x] # Nobody => lock'[x] \in Requests /\ outcome'[lock'[x]] = "open"
  <2>1. \A x \in Rows : lock[x] # Nobody => lock[x] \in Requests /\ outcome[lock[x]] = "open"
    BY DEF Typed, TypeOK, Open
  <2>2. \A x \in Rows : lock'[x] # Nobody => lock'[x] = lock[x] /\ lock[x] # r
    BY <1>1 DEF Ended
  <2>3. \A q \in Requests \ {r} : outcome'[q] = outcome[q]
    BY <1>1 DEF Ended
  <2> QED BY <2>1, <2>2, <2>3
<1>5. \A q \in Requests : pc'[q] \in 1 .. (Len(Program[q]) + 1)
  <2>1. \A q \in Requests : Len(Program[q]) \in Nat \ {0}
    BY RequestsAreShaped DEF Shaped
  <2>2. \A q \in Requests : pc[q] \in 1 .. (Len(Program[q]) + 1)
    BY DEF Typed, TypeOK
  <2>3. pc'[r] = 1 /\ \A q \in Requests \ {r} : pc'[q] = pc[q]
    BY <1>1 DEF Ended
  <2> QED BY <2>1, <2>2, <2>3
<1>6. ASSUME NEW q \in Requests, NEW x \in DOMAIN dirty'[q]
      PROVE  /\ lock'[x] = q /\ x \in Rows
             /\ WritesRow(Program[q], x) /\ dirty'[q][x] \in Int
  <2>1. q # r
    BY <1>1 DEF Ended
  <2>2. dirty'[q] = dirty[q] /\ x \in DOMAIN dirty[q]
    BY <1>1, <2>1 DEF Ended
  <2>3. lock[x] = q /\ x \in Rows /\ WritesRow(Program[q], x) /\ dirty[q][x] \in Int
    BY <2>2 DEF Typed, TypeOK
  <2> QED BY <1>1, <2>1, <2>2, <2>3 DEF Ended
<1>7. seen' \in [Requests -> SUBSET committed']
  BY <1>1, <1>2 DEF Ended
<1>8. TypeOK'
  BY <1>1, <1>3, <1>4, <1>5, <1>6, <1>7 DEF TypeOK, Ended, Open
<1> QED BY <1>1, <1>6, <1>8 DEF Typed, Ended

LEMMA ProceedTyped ==
  ASSUME Typed, NEW r \in Requests, Running(r), Proceed(r), UNCHANGED <<stored, committed>>,
         loaded' \in [Requests -> [Rows -> Int]], total' \in [Requests -> Int],
         seen' \in [Requests -> SUBSET committed], lock' \in [Rows -> Requests \cup {Nobody}],
         \A x \in Rows : lock'[x] = lock[x] \/ (lock[x] \in {Nobody, r} /\ lock'[x] = r),
         dirty' = [q \in Requests |-> dirty'[q]],
         \A q \in Requests : \A x \in DOMAIN dirty'[q] :
           /\ x \in Rows /\ WritesRow(Program[q], x) /\ dirty'[q][x] \in Int
           /\ lock'[x] = q
  PROVE  Typed'
<1>1. Proceeded(r)
  BY ProceedIs
<1>2. committed' = {q \in Requests : outcome'[q] = "committed"}
      /\ outcome' \in [Requests -> {"absent", "open", "committed", "rejected", "rolled back"}]
  BY <1>1 DEF Typed, TypeOK, Proceeded
<1>3. \A x \in Rows : lock'[x] # Nobody => lock'[x] \in Requests /\ outcome'[lock'[x]] = "open"
  <2>1. \A x \in Rows : lock[x] # Nobody => lock[x] \in Requests /\ outcome[lock[x]] = "open"
    BY DEF Typed, TypeOK, Open
  <2> QED BY <1>1, <2>1 DEF Proceeded
<1>4. \A q \in Requests : pc'[q] \in 1 .. (Len(Program[q]) + 1)
  BY <1>1 DEF Typed, TypeOK, Proceeded
<1>5. TypeOK'
  <2>1. stored' \in [Rows -> Int] /\ \A q \in Requests : \A x \in DOMAIN dirty'[q] : lock'[x] = q
    BY DEF Typed, TypeOK
  <2> QED BY <1>2, <1>3, <1>4, <2>1 DEF TypeOK, Open
<1>6. pc' \in [Requests -> Nat]
  BY <1>1 DEF Proceeded
<1> QED BY <1>5, <1>6 DEF Typed

\* An UPDATE of the request's row, which is free or locked by it already.
LEMMA LockIs ==
  ASSUME Typed, NEW r \in Requests, NEW x \in Rows, lock[x] \in {Nobody, r},
         lock' = [lock EXCEPT ![x] = r]
  PROVE  /\ lock' \in [Rows -> Requests \cup {Nobody}] /\ lock'[x] = r
         /\ \A y \in Rows \ {x} : lock'[y] = lock[y]
BY DEF Typed

\* What a write leaves set
LEMMA WriteIs ==
  ASSUME Typed, NEW r \in Requests, Write(r)
  PROVE  LET x == Row(r)
             D == DOMAIN dirty[r]
         IN /\ dirty' = [q \in Requests |-> dirty'[q]]
            /\ \A q \in Requests \ {r} : dirty'[q] = dirty[q]
            /\ total[r] = loaded[r][x] => dirty'[r] = dirty[r]
            /\ total[r] # loaded[r][x] => /\ DOMAIN dirty'[r] = D \cup {x}
                                          /\ dirty'[r][x] = total[r]
                                          /\ \A y \in D \ {x} : dirty'[r][y] = dirty[r][y]
<1> DEFINE x == Row(r)
<1>1. dirty = [q \in Requests |-> dirty[q]]
  BY DEF Typed
<1> DEFINE new == [y \in DOMAIN dirty[r] \cup {x} |-> IF y = x THEN total[r] ELSE dirty[r][y]]
<1>2. dirty' = [dirty EXCEPT ![r] = IF total[r] = loaded[r][x] THEN dirty[r] ELSE new]
  BY DEF Write
<1>3. /\ DOMAIN new = DOMAIN dirty[r] \cup {x}
      /\ new[x] = total[r]
      /\ \A y \in DOMAIN dirty[r] \ {x} : new[y] = dirty[r][y]
  OBVIOUS
<1> HIDE DEF new, x
<1>4. /\ dirty' = [q \in Requests |-> dirty'[q]]
      /\ \A q \in Requests \ {r} : dirty'[q] = dirty[q]
      /\ dirty'[r] = IF total[r] = loaded[r][x] THEN dirty[r] ELSE new
  BY <1>1, <1>2
<1> QED BY <1>3, <1>4 DEF x

\* Every step keeps the types.
LEMMA TypedNext == Typed /\ [Next]_vars => Typed'
<1> SUFFICES ASSUME Typed, [Next]_vars PROVE Typed'
  OBVIOUS
<1>1. CASE UNCHANGED vars
  BY <1>1 DEF vars, session, Typed, TypeOK, Open
<1>2. ASSUME NEW r \in Requests, GivesUp(r)
      PROVE  Typed'
  <2>1. stored' \in [Rows -> Int]
    BY <1>2 DEF GivesUp, Typed, TypeOK
  <2> QED
    BY <1>2, <2>1, EndTyped DEF GivesUp, Endings
<1>3. ASSUME NEW r \in Requests, Load(r)
      PROVE  Typed'
  <2>1. Running(r) /\ Proceed(r) /\ UNCHANGED <<stored, committed, lock, total, dirty>>
    BY <1>3 DEF Load
  <2>2. loaded' \in [Requests -> [Rows -> Int]]
    <3>1. loaded' = [loaded EXCEPT ![r][Row(r)] = stored[Row(r)]]
      BY <1>3 DEF Load
    <3>2. Row(r) \in Rows /\ stored[Row(r)] \in Int
      BY <2>1, RunningIs DEF Typed, TypeOK
    <3>3. loaded \in [Requests -> [Rows -> Int]]
      BY DEF Typed, TypeOK
    <3> QED BY <3>1, <3>2, <3>3
  <2>3. seen' \in [Requests -> SUBSET committed]
    <3>1. seen \in [Requests -> SUBSET committed]
      BY DEF Typed, TypeOK
    <3> QED BY <1>3, <3>1 DEF Load
  <2>4. /\ total' \in [Requests -> Int] /\ lock' \in [Rows -> Requests \cup {Nobody}]
        /\ dirty' = [q \in Requests |-> dirty'[q]]
        /\ \A q \in Requests : \A x \in DOMAIN dirty'[q] :
             /\ x \in Rows /\ WritesRow(Program[q], x) /\ dirty'[q][x] \in Int
             /\ lock'[x] = q
    BY <2>1 DEF Typed, TypeOK
  <2> QED
    BY <2>1, <2>2, <2>3, <2>4, ProceedTyped
<1>4. ASSUME NEW r \in Requests, Passes(r) \/ Sums(r)
      PROVE  Typed'
  <2>1. Running(r) /\ Proceed(r) /\ UNCHANGED <<stored, committed, lock, loaded, dirty, seen>>
    BY <1>4 DEF Passes, Sums, session
  <2>2. total' \in [Requests -> Int]
    <3>1. total \in [Requests -> Int] /\ committed \subseteq Requests
      BY DEF Typed, TypeOK
    <3>2. Ledger(committed \cup {r}, Row(r)) \in Int
      BY <2>1, <3>1, RunningIs, LedgerIsSum
    <3> QED BY <1>4, <3>1, <3>2 DEF Passes, Sums, session
  <2>3. /\ loaded' \in [Requests -> [Rows -> Int]] /\ lock' \in [Rows -> Requests \cup {Nobody}]
        /\ seen' \in [Requests -> SUBSET committed]
        /\ dirty' = [q \in Requests |-> dirty'[q]]
        /\ \A q \in Requests : \A x \in DOMAIN dirty'[q] :
             /\ x \in Rows /\ WritesRow(Program[q], x) /\ dirty'[q][x] \in Int
             /\ lock'[x] = q
    BY <2>1 DEF Typed, TypeOK
  <2> QED
    BY <2>1, <2>2, <2>3, ProceedTyped
<1>5. ASSUME NEW r \in Requests, Lock(r) \/ Write(r)
      PROVE  Typed'
  <2>1. /\ Running(r) /\ Proceed(r) /\ UNCHANGED <<stored, committed, loaded, total, seen>>
        /\ lock[Row(r)] \in {Nobody, r} /\ lock' = [lock EXCEPT ![Row(r)] = r]
    BY <1>5 DEF Lock, Write, Lockable
  <2>2. /\ Row(r) \in Rows /\ lock' \in [Rows -> Requests \cup {Nobody}] /\ lock'[Row(r)] = r
        /\ \A y \in Rows \ {Row(r)} : lock'[y] = lock[y]
    BY <2>1, RunningIs, LockIs
  <2>3. /\ loaded' \in [Requests -> [Rows -> Int]] /\ total' \in [Requests -> Int]
        /\ seen' \in [Requests -> SUBSET committed]
    BY <2>1 DEF Typed, TypeOK
  <2>4. \A q \in Requests : \A x \in DOMAIN dirty[q] :
          /\ x \in Rows /\ WritesRow(Program[q], x) /\ dirty[q][x] \in Int
          /\ lock[x] = q /\ lock'[x] = q
    <3>1. \A q \in Requests : \A x \in DOMAIN dirty[q] :
            /\ x \in Rows /\ WritesRow(Program[q], x) /\ dirty[q][x] \in Int /\ lock[x] = q
      BY DEF Typed, TypeOK
    <3> QED BY <2>1, <2>2, <3>1, ConcurrencyConstants
  <2>5. /\ dirty' = [q \in Requests |-> dirty'[q]]
        /\ \A q \in Requests : \A x \in DOMAIN dirty'[q] :
             /\ x \in Rows /\ WritesRow(Program[q], x) /\ dirty'[q][x] \in Int
             /\ lock'[x] = q
    <3>1. CASE Lock(r)
      <4>1. dirty' = dirty
        BY <3>1 DEF Lock
      <4> QED BY <2>4, <4>1 DEF Typed
    <3>2. CASE Write(r)
      <4>1. /\ dirty' = [q \in Requests |-> dirty'[q]]
            /\ \A q \in Requests \ {r} : dirty'[q] = dirty[q]
            /\ \/ dirty'[r] = dirty[r]
               \/ /\ DOMAIN dirty'[r] = DOMAIN dirty[r] \cup {Row(r)}
                  /\ dirty'[r][Row(r)] = total[r]
                  /\ \A y \in DOMAIN dirty[r] \ {Row(r)} : dirty'[r][y] = dirty[r][y]
        BY <3>2, WriteIs
      <4>2. WritesRow(Program[r], Row(r)) /\ total[r] \in Int
        BY <2>1, <3>2, RunningIs DEF Write, Typed, TypeOK
      <4>3. ASSUME NEW x \in DOMAIN dirty'[r]
            PROVE  /\ x \in Rows /\ WritesRow(Program[r], x) /\ dirty'[r][x] \in Int
                   /\ lock'[x] = r
        BY <2>2, <2>4, <4>1, <4>2
      <4> QED BY <2>4, <4>1, <4>3
    <3> QED BY <1>5, <3>1, <3>2
  <2>6. \A x \in Rows : lock'[x] = lock[x] \/ (lock[x] \in {Nobody, r} /\ lock'[x] = r)
    BY <2>1, <2>2
  <2> QED
    BY <2>1, <2>2, <2>3, <2>5, <2>6, ProceedTyped
<1>6. ASSUME NEW r \in Requests, Commit(r)
      PROVE  Typed'
  <2>1. stored' \in [Rows -> Int]
    <3>1. stored' = [x \in Rows |-> IF x \in DOMAIN dirty[r] THEN dirty[r][x] ELSE stored[x]]
      BY <1>6 DEF Commit
    <3> QED BY <3>1 DEF Typed, TypeOK
  <2> QED
    BY <1>6, <2>1, EndTyped DEF Commit, Endings
<1> QED
  BY <1>1, <1>2, <1>3, <1>4, <1>5, <1>6, NextIs

\* Requests hold the locks of the rows they set, and have seen no more than
\* what is committed.
THEOREM TypesHold == Spec => []TypeOK
<1>1. Typed => TypeOK
  BY DEF Typed
<1> QED
  BY <1>1, TypedInit, TypedNext, PTL DEF Spec

-----------------------------------------------------------------------------
(***************************************************************************)
(* A request alone.  As long as no other request has committed since its   *)
(* first load, what it has loaded is what is stored, the sums it has set   *)
(* are those of the ledger with its own entry, a row it left unset holds   *)
(* that sum already, and what it has checked still holds.                  *)
(***************************************************************************)
Alone(r) ==
  /\ \A x \in DOMAIN dirty[r] : dirty[r][x] = Ledger(committed \cup {r}, x)
  /\ \A i \in 1 .. (pc[r] - 1) :
       LET op == Program[r][i].op
           x == Program[r][i].row
       IN /\ op = "load" => loaded[r][x] = stored[x]
          /\ op \in {"sum", "replay"} /\ i = pc[r] - 1 => total[r] = Ledger(committed \cup {r}, x)
          /\ (op = "write" /\ x \notin DOMAIN dirty[r]) => stored[x] = Ledger(committed \cup {r}, x)
          /\ op = "held" => Ledger(committed, x) + Effect[r][x] >= 0
          /\ op = "cover" => stored[x] + Effect[r][x] >= 0

\* A request that has not begun has set nothing.
AloneIfUndisturbed(r) ==
  /\ pc[r] = 1 => DOMAIN dirty[r] = {}
  /\ Open(r) /\ seen[r] = committed => Alone(r)

Undisturbed == \A r \in Requests : AloneIfUndisturbed(r)

LEMMA UndisturbedInit == Init => Undisturbed
BY DEF Init, Undisturbed, AloneIfUndisturbed, Alone, Empty

\* The steps of others: a commit is one that the request has not seen.
LEMMA OthersUndisturbed ==
  ASSUME Typed, NEW r \in Requests, AloneIfUndisturbed(r),
         outcome'[r] = outcome[r], pc'[r] = pc[r], loaded'[r] = loaded[r],
         total'[r] = total[r], dirty'[r] = dirty[r], seen'[r] = seen[r],
         \/ UNCHANGED <<stored, committed>>
         \/ \E q \in Requests : Open(q) /\ committed' = committed \cup {q}
  PROVE  AloneIfUndisturbed(r)'
<1>1. CASE UNCHANGED <<stored, committed>>
  BY <1>1 DEF AloneIfUndisturbed, Alone, Open
<1>2. CASE \E q \in Requests : Open(q) /\ committed' = committed \cup {q}
  <2>1. seen[r] # committed'
    BY <1>2 DEF Typed, TypeOK, Open
  <2> QED BY <2>1 DEF AloneIfUndisturbed
<1> QED BY <1>1, <1>2

\* The request's own steps that leave the tables and what it has set alone, and
\* show it something only about the statement they execute.
LEMMA OwnUndisturbed ==
  ASSUME Typed, NEW r \in Requests, Running(r), Proceeded(r), AloneIfUndisturbed(r),
         UNCHANGED <<stored, committed>>,
         pc[r] = 1 \/ seen'[r] = seen[r],
         seen[r] = committed \/ pc[r] = 1 =>
           \A x \in DOMAIN dirty'[r] : dirty'[r][x] = Ledger(committed \cup {r}, x),
         DOMAIN dirty[r] \subseteq DOMAIN dirty'[r],
         \A i \in 1 .. (pc[r] - 1) :
           Program[r][i].op = "load" =>
             loaded'[r][Program[r][i].row] \in {loaded[r][Program[r][i].row], stored[Program[r][i].row]},
         Op(r) = "load" => loaded'[r][Row(r)] = stored[Row(r)],
         Op(r) \in {"sum", "replay"} => total'[r] = Ledger(committed \cup {r}, Row(r)),
         (Alone(r) /\ Op(r) = "write" /\ Row(r) \notin DOMAIN dirty'[r]) =>
           stored[Row(r)] = Ledger(committed \cup {r}, Row(r)),
         Op(r) = "held" => Ledger(committed, Row(r)) + Effect[r][Row(r)] >= 0,
         (Alone(r) /\ Op(r) = "cover") => stored[Row(r)] + Effect[r][Row(r)] >= 0
  PROVE  AloneIfUndisturbed(r)'
<1>1. pc[r] \in Nat \ {0} /\ pc'[r] = pc[r] + 1 /\ outcome[r] = "open"
  BY RunningIs DEF Proceeded
<1>2. pc[r] = 1 \/ seen[r] = committed => Alone(r)
  <2>1. pc[r] = 1 => Alone(r)
    BY <1>1 DEF AloneIfUndisturbed, Alone
  <2> QED BY <1>1, <2>1 DEF AloneIfUndisturbed, Open
<1>3. ASSUME seen'[r] = committed'
      PROVE  Alone(r)'
  <2>1. Alone(r) /\ (seen[r] = committed \/ pc[r] = 1)
    BY <1>2, <1>3
  <2>2. \A x \in DOMAIN dirty'[r] : dirty'[r][x] = Ledger(committed \cup {r}, x)
    BY <2>1
  <2> DEFINE AfterLoad(i) ==
               Program[r][i].op = "load" =>
                 loaded'[r][Program[r][i].row] = stored[Program[r][i].row]
             AfterSum(i) ==
               Program[r][i].op \in {"sum", "replay"} /\ i = pc'[r] - 1 =>
                 total'[r] = Ledger(committed \cup {r}, Program[r][i].row)
             AfterWrite(i) ==
               (Program[r][i].op = "write" /\ Program[r][i].row \notin DOMAIN dirty'[r]) =>
                 stored[Program[r][i].row] = Ledger(committed \cup {r}, Program[r][i].row)
             AfterHeld(i) ==
               Program[r][i].op = "held" =>
                 Ledger(committed, Program[r][i].row) + Effect[r][Program[r][i].row] >= 0
             AfterCover(i) ==
               Program[r][i].op = "cover" =>
                 stored[Program[r][i].row] + Effect[r][Program[r][i].row] >= 0
  <2>3. ASSUME NEW i \in 1 .. (pc'[r] - 1)
        PROVE  AfterLoad(i) /\ AfterSum(i) /\ AfterWrite(i) /\ AfterHeld(i) /\ AfterCover(i)
    <3>1. CASE i = pc[r]
      <4>1. Op(r) = Program[r][i].op /\ Row(r) = Program[r][i].row
        BY <3>1 DEF Op, Row
      <4> QED BY <2>1, <4>1
    <3>2. CASE i # pc[r]
      <4>1. i \in 1 .. (pc[r] - 1) /\ i # pc'[r] - 1
        BY <1>1, <3>2
      <4> DEFINE x == Program[r][i].row
      <4>2. /\ Program[r][i].op = "load" => loaded[r][x] = stored[x]
            /\ (Program[r][i].op = "write" /\ x \notin DOMAIN dirty[r]) =>
                 stored[x] = Ledger(committed \cup {r}, x)
            /\ AfterHeld(i) /\ AfterCover(i)
        BY <2>1, <4>1 DEF Alone
      <4>3. AfterLoad(i)
        BY <4>1, <4>2
      <4>4. AfterWrite(i)
        BY <4>2
      <4> QED BY <4>1, <4>2, <4>3, <4>4
    <3> QED BY <3>1, <3>2
  <2> QED BY <2>2, <2>3 DEF Alone
<1> QED BY <1>1, <1>3 DEF AloneIfUndisturbed

\* The statement before a write is its sum, and the row was loaded before it is
\* written or checked.
LEMMA BeforeWrite ==
  ASSUME Typed, NEW r \in Requests, Running(r), Alone(r)
  PROVE  /\ Op(r) = "write" => total[r] = Ledger(committed \cup {r}, Row(r))
         /\ Op(r) \in {"write", "cover"} => loaded[r][Row(r)] = stored[Row(r)]
<1> DEFINE P == Program[r]
           i == pc[r]
<1>1. i \in DOMAIN P /\ i \in Nat \ {0} /\ Op(r) = P[i].op /\ Row(r) = P[i].row
  BY RunningIs DEF Op, Row
<1>2. /\ P \in Seq([op : Kinds, row : Rows])
      /\ P[i].op = "write" => /\ i - 1 \in DOMAIN P /\ P[i - 1].op \in {"sum", "replay"}
                              /\ P[i - 1].row = P[i].row
      /\ P[i].op \in {"write", "cover"} =>
           \E j \in 1 .. i - 1 : P[j].op = "load" /\ P[j].row = P[i].row
  BY <1>1, RequestsAreShaped DEF Shaped
<1>3. ASSUME P[i].op = "write"
      PROVE  total[r] = Ledger(committed \cup {r}, P[i].row)
  <2>1. i - 1 \in 1 .. (pc[r] - 1) /\ P[i - 1].op \in {"sum", "replay"} /\ P[i - 1].row = P[i].row
    BY <1>1, <1>2, <1>3
  <2> QED BY <2>1 DEF Alone
<1>4. ASSUME P[i].op \in {"write", "cover"}
      PROVE  loaded[r][P[i].row] = stored[P[i].row]
  <2>1. PICK j \in 1 .. (pc[r] - 1) : P[j].op = "load" /\ P[j].row = P[i].row
    BY <1>2, <1>4
  <2> QED BY <2>1 DEF Alone
<1> QED BY <1>1, <1>3, <1>4

LEMMA OwnStepUndisturbed ==
  ASSUME Typed, NEW r \in Requests, AloneIfUndisturbed(r),
         Load(r) \/ Passes(r) \/ Sums(r) \/ Lock(r) \/ Write(r)
  PROVE  AloneIfUndisturbed(r)'
<1>1. Running(r) /\ Proceeded(r) /\ UNCHANGED <<stored, committed>>
  BY ProceedIs DEF Load, Passes, Sums, Lock, Write
<1>2. (seen[r] = committed \/ pc[r] = 1) => Alone(r)
  <2>1. outcome[r] = "open" /\ pc[r] \in Nat \ {0}
    BY <1>1, RunningIs DEF Proceeded
  <2>2. pc[r] = 1 => Alone(r)
    BY <2>1 DEF AloneIfUndisturbed, Alone
  <2> QED BY <2>1, <2>2 DEF AloneIfUndisturbed, Open
<1>3. CASE Load(r)
  <2>1. dirty' = dirty /\ Op(r) = "load" /\ (pc[r] = 1 \/ seen'[r] = seen[r])
    BY <1>3 DEF Load, Typed, TypeOK
  <2>2. /\ loaded'[r][Row(r)] = stored[Row(r)]
        /\ \A x \in Rows : loaded'[r][x] \in {loaded[r][x], stored[x]}
    <3>1. Row(r) \in Rows /\ loaded \in [Requests -> [Rows -> Int]]
      BY <1>1, RunningIs DEF Typed, TypeOK
    <3>2. loaded' = [loaded EXCEPT ![r][Row(r)] = stored[Row(r)]]
      BY <1>3 DEF Load
    <3> QED BY <3>1, <3>2
  <2>3. \A i \in 1 .. (pc[r] - 1) : Program[r][i].row \in Rows
    <3>1. pc[r] \in DOMAIN Program[r] /\ DOMAIN Program[r] = 1 .. Len(Program[r])
      BY <1>1, RunningIs, StatementsAre
    <3>2. \A i \in 1 .. (pc[r] - 1) : i \in DOMAIN Program[r]
      BY <3>1, StatementsAre
    <3> QED BY <3>2, StatementsAre
  <2>4. \A x \in DOMAIN dirty'[r] :
          (seen[r] = committed \/ pc[r] = 1) => dirty'[r][x] = Ledger(committed \cup {r}, x)
    BY <1>2, <2>1 DEF Alone
  <2> QED BY <1>1, <2>1, <2>2, <2>3, <2>4, OwnUndisturbed
<1>4. CASE Passes(r) \/ Sums(r) \/ Lock(r)
  <2>1. loaded' = loaded /\ dirty' = dirty /\ seen' = seen /\ Op(r) \in {"cover", "held", "sum", "replay", "lock"}
    BY <1>4 DEF Passes, Sums, Lock, session
  <2>2. Op(r) \in {"sum", "replay"} => total'[r] = Ledger(committed \cup {r}, Row(r))
    BY <1>4 DEF Passes, Sums, Lock, Typed, TypeOK
  <2>3. Op(r) = "held" => Ledger(committed, Row(r)) + Effect[r][Row(r)] >= 0
    BY <1>4 DEF Passes, Sums, Lock
  <2>4. (Alone(r) /\ Op(r) = "cover") => stored[Row(r)] + Effect[r][Row(r)] >= 0
    BY <1>1, <1>4, BeforeWrite DEF Passes, Sums, Lock
  <2>5. \A x \in DOMAIN dirty'[r] :
          (seen[r] = committed \/ pc[r] = 1) => dirty'[r][x] = Ledger(committed \cup {r}, x)
    BY <1>2, <2>1 DEF Alone
  <2> QED BY <1>1, <2>1, <2>2, <2>3, <2>4, <2>5, OwnUndisturbed
<1>5. CASE Write(r)
  <2>1. loaded' = loaded /\ seen' = seen /\ Op(r) = "write"
    BY <1>5 DEF Write
  <2>2. \/ total[r] = loaded[r][Row(r)] /\ dirty'[r] = dirty[r]
        \/ /\ DOMAIN dirty'[r] = DOMAIN dirty[r] \cup {Row(r)}
           /\ dirty'[r][Row(r)] = total[r]
           /\ \A y \in DOMAIN dirty[r] \ {Row(r)} : dirty'[r][y] = dirty[r][y]
    BY <1>5, WriteIs
  <2>3. Alone(r) => /\ total[r] = Ledger(committed \cup {r}, Row(r))
                    /\ loaded[r][Row(r)] = stored[Row(r)]
    BY <1>1, <2>1, BeforeWrite
  <2>4. ASSUME NEW x \in DOMAIN dirty'[r], seen[r] = committed \/ pc[r] = 1
        PROVE  dirty'[r][x] = Ledger(committed \cup {r}, x)
    BY <1>2, <2>2, <2>3, <2>4 DEF Alone
  <2>5. (Alone(r) /\ Op(r) = "write" /\ Row(r) \notin DOMAIN dirty'[r]) =>
          stored[Row(r)] = Ledger(committed \cup {r}, Row(r))
    BY <2>2, <2>3
  <2> QED BY <1>1, <2>1, <2>2, <2>4, <2>5, OwnUndisturbed
<1> QED BY <1>3, <1>4, <1>5

LEMMA UndisturbedNext == Typed /\ Undisturbed /\ [Next]_vars => Undisturbed'
<1> SUFFICES ASSUME Typed, Undisturbed, [Next]_vars PROVE Undisturbed'
  OBVIOUS
<1>1. CASE UNCHANGED vars
  BY <1>1 DEF vars, session, Undisturbed, AloneIfUndisturbed, Alone, Open
<1>2. CASE Next
  <2>1. PICK r \in Requests : \/ GivesUp(r) \/ Load(r) \/ Passes(r) \/ Sums(r)
                              \/ Lock(r) \/ Write(r) \/ Commit(r)
    BY <1>2, NextIs
  <2>2. SUFFICES ASSUME NEW q \in Requests PROVE AloneIfUndisturbed(q)'
    BY DEF Undisturbed
  <2>3. AloneIfUndisturbed(q)
    BY DEF Undisturbed
  <2>4. CASE GivesUp(r) \/ Commit(r)
    <3>1. PICK how \in Endings : Ended(r, how) /\ Open(r)
      BY <2>4, EndIs DEF GivesUp, Commit, Endings
    <3>2. CASE q = r
      <4>1. ~ Open(q)' /\ DOMAIN dirty'[q] = {}
        BY <3>1, <3>2 DEF Ended, Open, Endings
      <4> QED BY <4>1 DEF AloneIfUndisturbed
    <3>3. CASE q # r
      <4>1. /\ outcome'[q] = outcome[q] /\ pc'[q] = pc[q] /\ loaded'[q] = loaded[q]
            /\ total'[q] = total[q] /\ dirty'[q] = dirty[q] /\ seen'[q] = seen[q]
        BY <3>1, <3>3 DEF Ended
      <4>2. \/ UNCHANGED <<stored, committed>>
            \/ \E p \in Requests : Open(p) /\ committed' = committed \cup {p}
        BY <2>4, <3>1 DEF GivesUp, Commit
      <4> QED BY <2>3, <4>1, <4>2, OthersUndisturbed
    <3> QED BY <3>2, <3>3
  <2>5. CASE Load(r) \/ Passes(r) \/ Sums(r) \/ Lock(r) \/ Write(r)
    <3>1. CASE q = r
      BY <2>3, <2>5, <3>1, OwnStepUndisturbed
    <3>2. CASE q # r
      <4>1. Proceeded(r) /\ UNCHANGED <<stored, committed>>
        BY <2>5, ProceedIs DEF Load, Passes, Sums, Lock, Write
      <4>2. /\ outcome'[q] = outcome[q] /\ pc'[q] = pc[q]
        BY <3>2, <4>1 DEF Proceeded
      <4>3. /\ loaded'[q] = loaded[q] /\ total'[q] = total[q] /\ seen'[q] = seen[q]
        BY <2>5, <3>2 DEF Load, Passes, Sums, Lock, Write, session, Typed, TypeOK
      <4>4. dirty'[q] = dirty[q]
        BY <2>5, <3>2, WriteIs DEF Load, Passes, Sums, Lock, session
      <4> QED BY <2>3, <4>1, <4>2, <4>3, <4>4, OthersUndisturbed
    <3> QED BY <3>1, <3>2
  <2> QED BY <2>1, <2>4, <2>5
<1> QED BY <1>1, <1>2

\* The commit of such a request stores the sums of the ledger with its entry,
\* and its checks hold of them.
LEMMA LoneCommit ==
  ASSUME Typed, Undisturbed, NEW r \in Requests, Commit(r), seen[r] = committed
  PROVE  /\ \A x \in Written[r] : stored'[x] = Ledger(committed', x)
         /\ \A i \in DOMAIN Program[r] :
              LET x == Program[r][i].row
              IN (\/ Program[r][i].op = "held"
                  \/ Program[r][i].op = "cover" /\ BalanceIsLedger(x))
                   => Ledger(committed', x) >= 0
<1>1. /\ Open(r) /\ pc[r] = Len(Program[r]) + 1 /\ committed' = committed \cup {r}
      /\ stored' = [x \in Rows |-> IF x \in DOMAIN dirty[r] THEN dirty[r][x] ELSE stored[x]]
  BY DEF Commit
<1>2. Alone(r)
  BY <1>1 DEF Undisturbed, AloneIfUndisturbed
<1>3. /\ DOMAIN Program[r] = 1 .. (pc[r] - 1)
      /\ \A i \in DOMAIN Program[r] : Program[r][i].row \in Rows
  BY <1>1, StatementsAre
<1>4. ASSUME NEW x \in Written[r]
      PROVE  stored'[x] = Ledger(committed', x)
  <2>1. PICK i \in DOMAIN Program[r] : Program[r][i].op = "write" /\ Program[r][i].row = x
    BY WrittenRows DEF WritesRow
  <2>2. x \in Rows /\ i \in 1 .. (pc[r] - 1)
    BY <1>3, <2>1
  <2>3. CASE x \in DOMAIN dirty[r]
    BY <1>1, <1>2, <2>2, <2>3 DEF Alone
  <2>4. CASE x \notin DOMAIN dirty[r]
    <3>1. stored[x] = Ledger(committed \cup {r}, x)
      BY <1>2, <2>1, <2>2, <2>4 DEF Alone
    <3> QED BY <1>1, <2>2, <2>4, <3>1
  <2> QED BY <2>3, <2>4
<1>5. ASSUME NEW i \in DOMAIN Program[r],
             \/ Program[r][i].op = "held"
             \/ Program[r][i].op = "cover" /\ BalanceIsLedger(Program[r][i].row)
      PROVE  Ledger(committed', Program[r][i].row) >= 0
  <2> DEFINE x == Program[r][i].row
  <2>1. x \in Rows /\ i \in 1 .. (pc[r] - 1)
    BY <1>3
  <2>2. Ledger(committed', x) = Ledger(committed, x) + Effect[r][x]
    <3>1. committed \in SUBSET Requests /\ r \notin committed
      BY <1>1 DEF Typed, TypeOK, Open
    <3> QED BY <1>1, <2>1, <3>1, LedgerIsSum
  <2>3. CASE Program[r][i].op = "held"
    BY <1>2, <2>1, <2>2, <2>3 DEF Alone
  <2>4. CASE Program[r][i].op = "cover" /\ stored[x] = Ledger(committed, x)
    BY <1>2, <2>1, <2>2, <2>4 DEF Alone
  <2> QED BY <1>5, <2>3, <2>4 DEF BalanceIsLedger
<1> QED BY <1>4, <1>5

\* However wrong overlapping requests have left what is stored: a request that
\* no other commit overlaps leaves it right where it writes, and within what
\* its own checks allow.
THEOREM LoneCommitsAreSound == Spec => LoneCommitsSound
<1>1. ASSUME Typed, Undisturbed, [Next]_vars
      PROVE  [\A r \in Requests : CommitsAlone(r) =>
                /\ \A x \in Written[r] : stored'[x] = Ledger(committed', x)
                /\ \A i \in DOMAIN Program[r] :
                     LET x == Program[r][i].row
                     IN \/ Program[r][i].op = "held"
                        \/ Program[r][i].op = "cover" /\ BalanceIsLedger(x)
                        => Ledger(committed', x) >= 0]_vars
  <2>1. CASE UNCHANGED vars
    BY <2>1
  <2>2. ASSUME Next, NEW r \in Requests, CommitsAlone(r)
        PROVE  Commit(r)
    <3>1. outcome[r] = "open" /\ outcome'[r] = "committed"
      BY <2>2 DEF CommitsAlone, Open
    <3>2. PICK q \in Requests : \/ GivesUp(q) \/ Load(q) \/ Passes(q) \/ Sums(q)
                                \/ Lock(q) \/ Write(q) \/ Commit(q)
      BY <2>2, NextIs
    <3>3. CASE GivesUp(q)
      <4>1. PICK how \in {"rejected", "rolled back"} : Ended(q, how)
        BY <1>1, <3>3, EndIs DEF GivesUp, Endings
      <4> QED BY <3>1, <4>1 DEF Ended
    <3>4. CASE Load(q) \/ Passes(q) \/ Sums(q) \/ Lock(q) \/ Write(q)
      BY <3>1, <3>4 DEF Load, Passes, Sums, Lock, Write, Proceed
    <3>5. CASE Commit(q)
      <4>1. Ended(q, "committed")
        BY <1>1, <3>5, EndIs DEF Commit, Endings
      <4>2. q = r
        BY <3>1, <4>1 DEF Ended
      <4> QED BY <3>5, <4>2
    <3> QED BY <3>2, <3>3, <3>4, <3>5
  <2>3. ASSUME Next, NEW r \in Requests, CommitsAlone(r)
        PROVE  /\ \A x \in Written[r] : stored'[x] = Ledger(committed', x)
               /\ \A i \in DOMAIN Program[r] :
                    LET x == Program[r][i].row
                    IN (\/ Program[r][i].op = "held"
                        \/ Program[r][i].op = "cover" /\ BalanceIsLedger(x))
                         => Ledger(committed', x) >= 0
    <3>1. Commit(r) /\ seen[r] = committed
      BY <2>2, <2>3 DEF CommitsAlone
    <3> QED BY <1>1, <3>1, LoneCommit
  <2> QED BY <1>1, <2>1, <2>3
<1> QED
  BY <1>1, TypedInit, TypedNext, UndisturbedInit, UndisturbedNext, PTL DEF Spec, LoneCommitsSound

-----------------------------------------------------------------------------
(***************************************************************************)
(* Buys alone on an account.  A buy that has summed the entries holds the  *)
(* account's lock, so no other commits until it does; what it loaded is no *)
(* less than what is stored, as others only take money, so the balance it  *)
(* does not set because it loaded the same is right.                       *)
(***************************************************************************)
BuyKeeps(r, x) ==
  /\ pc[r] <= 8 => x \notin DOMAIN dirty[r]
  /\ pc[r] >= 5 => loaded[r][x] >= stored[x]
  /\ pc[r] >= 7 => lock[x] = r
  /\ pc[r] >= 8 => total[r] = Ledger(committed \cup {r}, x)
  /\ pc[r] >= 9 => IF x \in DOMAIN dirty[r] THEN dirty[r][x] = total[r] ELSE total[r] = loaded[r][x]

\* Only buys may write the row.
ForBuys(x) == Writers(x) \subseteq BuysOn[x]

Kept(x) == BalanceIsLedger(x) /\ \A r \in Writers(x) : Open(r) => BuyKeeps(r, x)

BuysKeep == \A x \in Rows : ForBuys(x) => Kept(x)

LEMMA BuysKeepInit == Init => BuysKeep
<1> SUFFICES ASSUME Init, NEW x \in Rows PROVE Kept(x)
  BY DEF BuysKeep
<1>1. BalanceIsLedger(x)
  <2> DEFINE f == [r \in Requests |-> Effect[r][x]]
  <2>1. Ledger({}, x) = Start[x] + SumOf(f, {})
    BY DEF Ledger, SumOf
  <2> HIDE DEF f
  <2>2. Ledger({}, x) = Start[x] + 0
    BY <2>1, SumOfNone
  <2>3. Start[x] \in Nat
    BY ConcurrencyConstants
  <2> QED BY <2>2, <2>3 DEF Init, BalanceIsLedger
<1>2. ASSUME NEW r \in Writers(x) PROVE BuyKeeps(r, x)
  <2>1. r \in Requests
    BY DEF Writers, Arrived
  <2>2. pc[r] = 1 /\ DOMAIN dirty[r] = {}
    BY <2>1 DEF Init, Empty
  <2> QED BY <2>2 DEF BuyKeeps
<1> QED BY <1>1, <1>2 DEF Kept

\* Nobody arrives late.
LEMMA WritersStay ==
  ASSUME Typed, Next, NEW x \in Rows
  PROVE  Writers(x)' = Writers(x)
<1>1. PICK r \in Requests : \/ GivesUp(r) \/ Load(r) \/ Passes(r) \/ Sums(r)
                            \/ Lock(r) \/ Write(r) \/ Commit(r)
  BY NextIs
<1>2. CASE GivesUp(r) \/ Commit(r)
  <2>1. PICK how \in Endings : Ended(r, how) /\ Open(r)
    BY <1>2, EndIs DEF GivesUp, Commit, Endings
  <2>2. \A q \in Requests : outcome'[q] # "absent" <=> outcome[q] # "absent"
    BY <2>1 DEF Ended, Endings, Open
  <2> QED BY <2>2 DEF Writers, Arrived, Written
<1>3. CASE Load(r) \/ Passes(r) \/ Sums(r) \/ Lock(r) \/ Write(r)
  BY <1>3 DEF Load, Passes, Sums, Lock, Write, Proceed, Writers, Arrived, Written
<1> QED BY <1>1, <1>2, <1>3

\* Another request's step: it does not commit while the buy holds the lock, and
\* takes money if it commits.
LEMMA OthersKeep ==
  ASSUME Typed, NEW x \in Rows, NEW q \in Writers(x), BuyKeeps(q, x), Open(q),
         pc'[q] = pc[q], loaded'[q] = loaded[q], total'[q] = total[q], dirty'[q] = dirty[q],
         pc[q] >= 7 => lock'[x] = q,
         stored'[x] \in Int, stored'[x] <= stored[x],
         pc[q] >= 8 => Ledger(committed' \cup {q}, x) = Ledger(committed \cup {q}, x)
  PROVE  BuyKeeps(q, x)'
<1>1. q \in Requests /\ pc[q] \in Nat /\ loaded[q][x] \in Int /\ stored[x] \in Int
  <2>1. q \in Requests
    BY DEF Writers, Arrived
  <2>2. loaded \in [Requests -> [Rows -> Int]] /\ stored \in [Rows -> Int] /\ pc \in [Requests -> Nat]
    BY DEF Typed, TypeOK
  <2> QED BY <2>1, <2>2
<1> QED
  BY <1>1 DEF BuyKeeps

\* The statements of a buy, each on its row
LEMMA BuyStep ==
  ASSUME Typed, NEW x \in Rows, NEW r \in BuysOn[x], Running(r)
  PROVE  /\ r \in Requests /\ pc[r] \in 1 .. 8
         /\ pc[r] <= 3 => Row(r) # x
         /\ pc[r] >= 4 => Row(r) = x
         /\ pc[r] = 1 => Op(r) = "load"
         /\ pc[r] = 2 => Op(r) = "replay"
         /\ pc[r] = 3 => Op(r) = "write"
         /\ pc[r] = 4 => Op(r) = "load"
         /\ pc[r] = 5 => Op(r) = "cover"
         /\ pc[r] = 6 => Op(r) = "lock"
         /\ pc[r] = 7 => Op(r) = "sum"
         /\ pc[r] = 8 => Op(r) = "write"
<1>1. r \in Requests
  BY DEF BuysOn
<1>2. PICK h \in Rows \ {x} : IsBuy(Program[r], h, x)
  BY BuysAre
<1>3. pc[r] \in 1 .. 8
  BY <1>1, <1>2, RunningIs DEF IsBuy
<1>4. Op(r) = Program[r][pc[r]].op /\ Row(r) = Program[r][pc[r]].row
  BY DEF Op, Row
<1>5. /\ pc[r] = 1 => Op(r) = "load" /\ Row(r) = h
      /\ pc[r] = 2 => Op(r) = "replay" /\ Row(r) = h
      /\ pc[r] = 3 => Op(r) = "write" /\ Row(r) = h
      /\ pc[r] = 4 => Op(r) = "load" /\ Row(r) = x
      /\ pc[r] = 5 => Op(r) = "cover" /\ Row(r) = x
      /\ pc[r] = 6 => Op(r) = "lock" /\ Row(r) = x
      /\ pc[r] = 7 => Op(r) = "sum" /\ Row(r) = x
      /\ pc[r] = 8 => Op(r) = "write" /\ Row(r) = x
  BY <1>2, <1>4 DEF IsBuy
<1>6. pc[r] <= 3 => pc[r] = 1 \/ pc[r] = 2 \/ pc[r] = 3
  BY <1>3
<1>7. pc[r] >= 4 => pc[r] = 4 \/ pc[r] = 5 \/ pc[r] = 6 \/ pc[r] = 7 \/ pc[r] = 8
  BY <1>3
<1> QED
  BY <1>1, <1>3, <1>5, <1>6, <1>7

\* A buy's own statements
LEMMA OwnKeeps ==
  ASSUME Typed, NEW x \in Rows, NEW r \in BuysOn[x], BuyKeeps(r, x),
         Load(r) \/ Passes(r) \/ Sums(r) \/ Lock(r) \/ Write(r)
  PROVE  BuyKeeps(r, x)'
<1>1. Running(r) /\ UNCHANGED <<stored, committed>>
  BY DEF Load, Passes, Sums, Lock, Write
<1>2. r \in Requests
  BY DEF BuysOn
<1>3. Proceeded(r)
  BY <1>2, ProceedIs DEF Load, Passes, Sums, Lock, Write
<1>4. pc[r] \in 1 .. 8 /\ pc'[r] = pc[r] + 1
  BY <1>1, <1>3, BuyStep DEF Proceeded
<1>5. /\ stored[x] \in Int /\ loaded \in [Requests -> [Rows -> Int]]
      /\ total \in [Requests -> Int] /\ lock \in [Rows -> Requests \cup {Nobody}]
  BY DEF Typed, TypeOK
<1>6. Row(r) \in Rows
  BY <1>1, <1>2, RunningIs
<1>7. CASE Load(r)
  <2>1. UNCHANGED <<lock, dirty>> /\ (pc[r] = 1 \/ (pc[r] = 4 /\ Row(r) = x))
    <3>1. UNCHANGED <<lock, dirty>> /\ Op(r) = "load"
      BY <1>7 DEF Load
    <3> QED BY <1>1, <1>4, <3>1, BuyStep
  <2>2. loaded'[r][Row(r)] = stored[Row(r)]
    <3>1. loaded' = [loaded EXCEPT ![r][Row(r)] = stored[Row(r)]]
      BY <1>7 DEF Load
    <3> QED BY <1>2, <1>5, <1>6, <3>1
  <2> QED BY <1>1, <1>4, <1>5, <2>1, <2>2 DEF BuyKeeps
<1>8. CASE Passes(r)
  <2>1. UNCHANGED <<lock, dirty, loaded, total>> /\ Op(r) \in {"cover", "held"}
    BY <1>8 DEF Passes, session
  <2>2. pc[r] = 5
    BY <1>1, <1>4, <2>1, BuyStep
  <2> QED BY <1>1, <1>4, <2>1, <2>2 DEF BuyKeeps
<1>9. CASE Sums(r)
  <2>1. UNCHANGED <<lock, dirty, loaded>> /\ Op(r) \in {"sum", "replay"}
    BY <1>9 DEF Sums
  <2>2. total'[r] = Ledger(committed \cup {r}, Row(r))
    BY <1>2, <1>5, <1>9 DEF Sums
  <2>3. pc[r] = 2 \/ (pc[r] = 7 /\ Row(r) = x)
    BY <1>1, <1>4, <2>1, BuyStep
  <2> QED BY <1>1, <1>4, <2>1, <2>2, <2>3 DEF BuyKeeps
<1>10. CASE Lock(r)
  <2>1. UNCHANGED <<dirty, loaded, total>> /\ Op(r) = "lock"
    BY <1>10 DEF Lock
  <2>2. pc[r] = 6 /\ Row(r) = x
    BY <1>1, <1>4, <2>1, BuyStep
  <2>3. lock'[x] = r
    BY <1>5, <1>10, <2>2 DEF Lock
  <2> QED BY <1>1, <1>4, <2>1, <2>2, <2>3 DEF BuyKeeps
<1>11. CASE Write(r)
  <2>1. UNCHANGED <<loaded, total>> /\ Op(r) = "write"
    BY <1>11 DEF Write
  <2>2. (pc[r] = 3 /\ Row(r) # x) \/ (pc[r] = 8 /\ Row(r) = x)
    BY <1>1, <1>4, <2>1, BuyStep
  <2>3. \/ total[r] = loaded[r][Row(r)] /\ dirty'[r] = dirty[r]
        \/ /\ DOMAIN dirty'[r] = DOMAIN dirty[r] \cup {Row(r)}
           /\ dirty'[r][Row(r)] = total[r]
    BY <1>2, <1>11, WriteIs
  <2>4. CASE pc[r] = 3 /\ Row(r) # x
    <3>1. x \notin DOMAIN dirty'[r]
      BY <2>3, <2>4 DEF BuyKeeps
    <3> QED BY <1>4, <2>4, <3>1 DEF BuyKeeps
  <2>5. CASE pc[r] = 8 /\ Row(r) = x
    <3>1. lock'[x] = r
      BY <1>5, <1>11, <2>5 DEF Write
    <3>2. IF x \in DOMAIN dirty'[r] THEN dirty'[r][x] = total[r] ELSE total[r] = loaded[r][x]
      BY <2>3, <2>5 DEF BuyKeeps
    <3> QED BY <1>1, <1>4, <2>1, <2>5, <3>1, <3>2 DEF BuyKeeps
  <2> QED BY <2>2, <2>4, <2>5
<1> QED BY <1>7, <1>8, <1>9, <1>10, <1>11

\* A commit leaves the balance right, and no higher than it was; one that
\* changes it is that of a buy with the lock.
LEMMA CommitKeeps ==
  ASSUME Typed, NEW x \in Rows, ForBuys(x), Kept(x), NEW r \in Requests, Commit(r)
  PROVE  /\ BalanceIsLedger(x)'
         /\ stored'[x] \in Int /\ stored'[x] <= stored[x]
         /\ r \in Writers(x) => lock[x] = r
         /\ r \notin Writers(x) => Effect[r][x] = 0
<1>1. /\ Open(r) /\ pc[r] = Len(Program[r]) + 1 /\ committed' = committed \cup {r}
      /\ stored'[x] = IF x \in DOMAIN dirty[r] THEN dirty[r][x] ELSE stored[x]
      /\ r \in Arrived
  BY DEF Commit, Arrived, Open
<1>2. committed \in SUBSET Requests /\ r \notin committed /\ stored[x] \in Int
  BY <1>1 DEF Typed, TypeOK, Open
<1>3. /\ stored[x] = Ledger(committed, x)
      /\ Ledger(committed', x) = Ledger(committed, x) + Effect[r][x]
  BY <1>1, <1>2, LedgerIsSum DEF Kept, BalanceIsLedger
<1>4. CASE r \notin Writers(x)
  <2>1. ~ WritesRow(Program[r], x)
    BY <1>1, <1>4, WrittenRows DEF Writers
  <2>2. Effect[r][x] = 0 /\ x \notin DOMAIN dirty[r]
    BY <2>1, RequestsAreShaped DEF Typed
  <2> QED BY <1>1, <1>2, <1>3, <1>4, <2>2 DEF BalanceIsLedger
<1>5. CASE r \in Writers(x)
  <2>1. r \in BuysOn[x] /\ BuyKeeps(r, x)
    BY <1>1, <1>5 DEF ForBuys, Kept
  <2>2. PICK h \in Rows \ {x} : IsBuy(Program[r], h, x) /\ Effect[r][x] <= 0
    BY <2>1, BuysAre
  <2>3. pc[r] = 9
    BY <1>1, <2>2 DEF IsBuy
  <2>4. /\ loaded[r][x] >= stored[x] /\ lock[x] = r
        /\ total[r] = Ledger(committed', x)
        /\ IF x \in DOMAIN dirty[r] THEN dirty[r][x] = total[r] ELSE total[r] = loaded[r][x]
    BY <1>1, <2>1, <2>3 DEF BuyKeeps
  <2>5. Effect[r][x] \in Int /\ loaded[r][x] \in Int
    <3>1. loaded \in [Requests -> [Rows -> Int]]
      BY DEF Typed, TypeOK
    <3> QED BY <3>1, ConcurrencyConstants
  <2>6. stored'[x] = Ledger(committed', x) /\ stored'[x] <= stored[x] /\ stored'[x] \in Int
    BY <1>1, <1>2, <1>3, <2>2, <2>4, <2>5
  <2> QED BY <1>5, <2>4, <2>6 DEF BalanceIsLedger
<1> QED BY <1>4, <1>5

LEMMA BuysKeepNext == Typed /\ BuysKeep /\ [Next]_vars => BuysKeep'
<1> SUFFICES ASSUME Typed, BuysKeep, [Next]_vars, NEW x \in Rows, ForBuys(x)'
             PROVE  Kept(x)'
  BY DEF BuysKeep
<1>1. CASE UNCHANGED vars
  <2>1. ForBuys(x) /\ Writers(x)' = Writers(x)
    BY <1>1 DEF vars, ForBuys, Writers, Arrived, Written
  <2>2. Kept(x)
    BY <2>1 DEF BuysKeep
  <2> QED BY <1>1, <2>1, <2>2 DEF vars, session, Kept, BuyKeeps, BalanceIsLedger, Open
<1>2. CASE Next
  <2>1. Writers(x)' = Writers(x)
    BY <1>2, WritersStay
  <2>2. Kept(x) /\ ForBuys(x)
    BY <2>1 DEF BuysKeep, ForBuys
  <2>3. \A q \in Writers(x) : q \in Requests /\ q \in BuysOn[x]
    BY <2>2 DEF ForBuys, Writers, Arrived
  <2>4. PICK r \in Requests : \/ GivesUp(r) \/ Load(r) \/ Passes(r) \/ Sums(r)
                              \/ Lock(r) \/ Write(r) \/ Commit(r)
    BY <1>2, NextIs
  <2>5. stored[x] \in Int /\ lock \in [Rows -> Requests \cup {Nobody}] /\ committed \in SUBSET Requests
    BY DEF Typed, TypeOK
  <2>6. CASE Load(r) \/ Passes(r) \/ Sums(r) \/ Lock(r) \/ Write(r)
    <3>1. Running(r) /\ Proceeded(r) /\ UNCHANGED <<stored, committed>>
      BY <2>6, ProceedIs DEF Load, Passes, Sums, Lock, Write
    <3>2. BalanceIsLedger(x)'
      BY <2>2, <3>1 DEF Kept, BalanceIsLedger
    <3>3. ASSUME NEW q \in Writers(x), Open(q)' PROVE BuyKeeps(q, x)'
      <4>1. BuyKeeps(q, x) /\ Open(q)
        BY <2>2, <3>1, <3>3 DEF Kept, Open, Proceeded
      <4>2. CASE q = r
        BY <2>3, <2>6, <4>1, <4>2, OwnKeeps
      <4>3. CASE q # r
        <5>1. pc'[q] = pc[q]
          BY <2>3, <3>1, <4>3 DEF Proceeded
        <5>2. /\ loaded'[q] = loaded[q] /\ total'[q] = total[q]
          BY <2>3, <2>6, <4>3 DEF Load, Passes, Sums, Lock, Write, session, Typed, TypeOK
        <5>3. dirty'[q] = dirty[q]
          BY <2>3, <2>6, <4>3, WriteIs DEF Load, Passes, Sums, Lock, session
        <5>4. lock[x] = q => lock'[x] = q
          <6>1. CASE Lock(r) \/ Write(r)
            <7>1. lock[Row(r)] \in {Nobody, r} /\ lock' = [lock EXCEPT ![Row(r)] = r]
              BY <6>1 DEF Lock, Write, Lockable
            <7>2. q # Nobody
              BY <2>3, ConcurrencyConstants
            <7> QED BY <2>5, <4>3, <7>1, <7>2
          <6>2. CASE Load(r) \/ Passes(r) \/ Sums(r)
            BY <6>2 DEF Load, Passes, Sums
          <6> QED BY <2>6, <6>1, <6>2
        <5>5. pc[q] >= 7 => lock'[x] = q
          BY <4>1, <5>4 DEF BuyKeeps
        <5>6. stored'[x] \in Int /\ stored'[x] <= stored[x]
          BY <2>5, <3>1
        <5> QED BY <3>1, <4>1, <5>1, <5>2, <5>3, <5>5, <5>6, OthersKeep
      <4> QED BY <4>2, <4>3
    <3> QED BY <2>1, <3>2, <3>3 DEF Kept
  <2>7. CASE GivesUp(r) \/ Commit(r)
    <3>1. PICK how \in Endings : Ended(r, how) /\ Open(r)
      BY <2>7, EndIs DEF GivesUp, Commit, Endings
    <3>2. /\ BalanceIsLedger(x)'
          /\ stored'[x] \in Int /\ stored'[x] <= stored[x]
      <4>1. CASE GivesUp(r)
        <5>1. stored' = stored /\ committed' = committed
          BY <4>1 DEF GivesUp
        <5> QED BY <2>2, <2>5, <5>1 DEF Kept, BalanceIsLedger
      <4>2. CASE Commit(r)
        BY <2>2, <4>2, CommitKeeps
      <4> QED BY <2>7, <4>1, <4>2
    <3>3. ASSUME NEW q \in Writers(x), Open(q)' PROVE BuyKeeps(q, x)'
      <4>1. q # r
        BY <3>1, <3>3 DEF Ended, Endings, Open
      <4>2. /\ BuyKeeps(q, x) /\ Open(q)
            /\ pc'[q] = pc[q] /\ loaded'[q] = loaded[q]
            /\ total'[q] = total[q] /\ dirty'[q] = dirty[q]
        BY <2>2, <2>3, <3>1, <3>3, <4>1 DEF Kept, Ended, Open
      <4>3. pc[q] >= 7 => lock'[x] = q
        BY <3>1, <4>1, <4>2 DEF Ended, BuyKeeps
      <4>4. pc[q] >= 8 => Ledger(committed' \cup {q}, x) = Ledger(committed \cup {q}, x)
        <5>1. CASE GivesUp(r)
          BY <5>1 DEF GivesUp
        <5>2. ASSUME Commit(r), pc[q] >= 8
              PROVE  Ledger(committed' \cup {q}, x) = Ledger(committed \cup {q}, x)
          <6>1. pc[q] \in Nat
            BY <2>3 DEF Typed
          <6>2. lock[x] = q
            BY <4>2, <5>2, <6>1 DEF BuyKeeps
          <6>3. Effect[r][x] = 0
            BY <2>2, <4>1, <5>2, <6>2, CommitKeeps
          <6>4. r \notin committed /\ committed' = committed \cup {r}
            BY <3>1, <5>2 DEF Commit, Typed, TypeOK, Open
          <6>5. /\ committed \cup {q} \in SUBSET Requests /\ r \notin committed \cup {q}
                /\ committed' \cup {q} = (committed \cup {q}) \cup {r}
            BY <2>3, <2>5, <4>1, <6>4
          <6>6. /\ Ledger(committed \cup {q}, x) \in Int
                /\ Ledger((committed \cup {q}) \cup {r}, x) = Ledger(committed \cup {q}, x) + Effect[r][x]
            BY <6>5, LedgerIsSum
          <6> QED BY <6>3, <6>5, <6>6
        <5> QED BY <2>7, <5>1, <5>2
      <4> QED BY <3>2, <4>2, <4>3, <4>4, OthersKeep
    <3> QED BY <2>1, <3>2, <3>3 DEF Kept
  <2> QED BY <2>4, <2>6, <2>7
<1> QED BY <1>1, <1>2

\* Buys on one account, of however many stocks, leave its balance the sum of
\* its entries, wherever other requests come between.
THEOREM BuysKeepBalances == Spec => []BuysKeepBalance
<1>1. BuysKeep => BuysKeepBalance
  BY DEF BuysKeep, BuysKeepBalance, ForBuys, Kept
<1> QED
  BY <1>1, TypedInit, TypedNext, BuysKeepInit, BuysKeepNext, PTL DEF Spec
=============================================================================
