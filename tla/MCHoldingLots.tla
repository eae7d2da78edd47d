---------------------------- MODULE MCHoldingLots ---------------------------
(***************************************************************************)
(* HoldingLots and AssetRecords against reference definitions, over the    *)
(* trades and audits that a portfolio's requests leave behind.             *)
(***************************************************************************)
EXTENDS AssetRecords

\* Trades to add; whether one can be replayed does not depend on its price.
Candidates ==
  [id : {nextTrade}, symbol : Symbols, side : {"BUY", "SELL", "ADJUST"},
   quantity : Quantities, price : {CHOOSE p \in Prices : p # NoPrice}, day : Days]

-----------------------------------------------------------------------------
\* Reference definitions, with no lots: signed sums over the trades that
\* replay at or before a given one and after the adjustment they follow.
UpTo(T, u) == {t \in T : t = u \/ ReplaysBefore(t, u)}

LastAdjustment(T) ==
  {t \in T : t.side = "ADJUST" /\ \A u \in T : u.side = "ADJUST" => u = t \/ ReplaysBefore(u, t)}

SinceAdjustment(T) ==
  {t \in T : \A a \in LastAdjustment(T) : t = a \/ ReplaysBefore(a, t)}

SignedSum(T) ==
  MapThenSumSet(LAMBDA t : IF t.side = "SELL" THEN -t.quantity ELSE t.quantity,
                SinceAdjustment(T))

Sells(T) == {t \in SinceAdjustment(T) : t.side = "SELL"}

Shortage(T) == \E t \in T : t.side = "SELL" /\ SignedSum(UpTo(T, t)) < 0

Inflows(T) ==
  SetToSortSeq({t \in SinceAdjustment(T) : t.side # "SELL"}, ReplaysBefore)

\* First in, first out: what is left is a tail of the purchases in replay
\* order, and at most the oldest of them has been cut.  It adds up to what was
\* bought and not sold; the tolerance of the replay costs at most one quantum
\* per sell, in either direction.
FirstInFirstOut ==
  LET lots == Replay(trades).lots
      bought == Inflows(trades)
      skip == Len(bought) - Len(lots)
      drift == LotQuantity(lots) - SignedSum(trades)
      bound == Epsilon * Cardinality(Sells(trades))
  IN /\ skip >= 0
     /\ \A i \in DOMAIN lots :
          /\ lots[i].day = bought[skip + i].day
          /\ lots[i].cost = bought[skip + i].price
          /\ IF i = 1 THEN lots[i].quantity \in 1 .. bought[skip + i].quantity
                      ELSE lots[i].quantity = bought[skip + i].quantity
     /\ drift \in -bound .. bound

\* By how much the quantities of some trades can differ from those of others.
Widened(gaps, quantity) == UNION {{n - quantity, n, n + quantity} : n \in gaps}
Gaps(T) == FoldSet(LAMBDA t, gaps : Widened(gaps, t.quantity), {0}, T)

\* No sums of quantities are as close as the tolerance of the replay.
Apart(gaps) == gaps \cap -Epsilon .. Epsilon = {0}
Spaced(T) == Apart(Gaps(T))

\* The cost of the last units bought, of those that are not sold.
FifoCost(T) ==
  LET bought == Inflows(T)
      sold == MapThenSumSet(LAMBDA t : t.quantity, Sells(T))
      before(i) == LotQuantity(SubSeq(bought, 1, i - 1))
      left(i) == bought[i].quantity - Max({0, Min({bought[i].quantity, sold - before(i)})})
  IN MapThenSumSet(LAMBDA i : left(i) * bought[i].price, DOMAIN bought)

\* With spaced quantities the record of the next sell, whichever can be made,
\* shows its gain over the first-in-first-out cost of all that is held before
\* it, however the buys and sells before it were split, dated, edited and
\* deleted.
ProfitsAtFifoCost ==
  Complete /\ Spaced(trades) =>
    LET resolved == ProfitMap(log)
        held == SignedSum(trades)
        cost == FifoCost(trades)
    IN \A t \in {u \in Candidates : u.side = "SELL" /\ Replayable(trades \cup {u})} :
         Last(Profited(resolved, TradeAudit("CREATE", t)).profits) =
           [profit |-> t.quantity * (t.price * held - cost), per |-> held]

\* With spaced quantities the replay is exact: it keeps the signed sum, and
\* refuses a trade exactly when some sell would then outrun what was bought
\* by its date.
ExactWhenSpaced ==
  LET gaps == Gaps(trades)
  IN Apart(gaps) =>
       /\ LotQuantity(Replay(trades).lots) = SignedSum(trades)
       /\ \A t \in {u \in Candidates : Apart(Widened(gaps, u.quantity))} :
            Replayable(trades \cup {t}) <=> ~Shortage(trades \cup {t})
=============================================================================
