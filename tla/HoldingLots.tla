----------------------------- MODULE HoldingLots ----------------------------
(***************************************************************************)
(* Replay of the trades of one symbol into FIFO lots and the holding they  *)
(* project to (services/holding_projection_parts/state.py).                *)
(*                                                                         *)
(* A trade is [id, symbol, side, quantity, price, day].  Quantities are in *)
(* quanta, price 0 is a missing price.  created_at orders trades like      *)
(* their ids, so the id stands for both.                                   *)
(***************************************************************************)
EXTENDS FixedPrecision, SequencesExt

NoPrice == 0

SidePriority(side) == CASE side = "BUY" -> 0 [] side = "SELL" -> 1 [] OTHER -> 2

\* _holding_transaction_sort_key: day, then buys before sells before
\* adjustments, then age.
ReplaysBefore(t, u) ==
  \/ t.day < u.day
  \/ t.day = u.day /\ SidePriority(t.side) < SidePriority(u.side)
  \/ t.day = u.day /\ SidePriority(t.side) = SidePriority(u.side) /\ t.id < u.id

Lot(t) == [quantity |-> t.quantity, day |-> t.day, cost |-> t.price]

\* Mutant: a lot that is cut still leaves everything to sell.
SellLotTwice(acc, lot) ==
  IF acc.left <= Epsilon
  THEN [acc EXCEPT !.kept = Append(@, lot)]
  ELSE IF lot.quantity <= acc.left + Epsilon
  THEN [acc EXCEPT !.left = @ - lot.quantity]
  ELSE [acc EXCEPT !.kept = Append(@, [lot EXCEPT !.quantity = @ - acc.left])]

\* One lot of a sell: kept once nothing is left to sell, dropped when it is
\* covered up to Epsilon, cut otherwise.
SellLot(acc, lot) ==
  IF acc.left <= Epsilon
  THEN [acc EXCEPT !.kept = Append(@, lot)]
  ELSE IF lot.quantity <= acc.left + Epsilon
  THEN [acc EXCEPT !.left = @ - lot.quantity]
  ELSE [left |-> 0, kept |-> Append(acc.kept, [lot EXCEPT !.quantity = @ - acc.left])]

\* Mutant: last in, first out.
ByDayDescending(lots) == SortSeq(lots, LAMBDA a, b : a.day > b.day)

ByDay(lots) == SortSeq(lots, LAMBDA a, b : a.day < b.day)

Sold(lots, quantity) ==
  FoldLeft(SellLot, [left |-> quantity, kept |-> <<>>], ByDay(lots))

\* Mutant: a sell of more than is held is accepted.
ApplyTradeShort(state, t) ==
  CASE t.quantity <= Epsilon -> state
    [] t.quantity > Epsilon /\ t.side = "ADJUST" -> [state EXCEPT !.lots = <<Lot(t)>>]
    [] t.quantity > Epsilon /\ t.side = "BUY" -> [state EXCEPT !.lots = Append(@, Lot(t))]
    [] t.quantity > Epsilon /\ t.side = "SELL" ->
         [state EXCEPT !.lots = Sold(state.lots, t.quantity).kept]

\* _apply_holding_transaction_to_state; ok turns FALSE where the code raises.
ApplyTrade(state, t) ==
  CASE ~state.ok \/ t.quantity <= Epsilon -> state
    [] state.ok /\ t.quantity > Epsilon /\ t.side = "ADJUST" ->
         [state EXCEPT !.lots = <<Lot(t)>>]
    [] state.ok /\ t.quantity > Epsilon /\ t.side = "BUY" ->
         [state EXCEPT !.lots = Append(@, Lot(t))]
    [] state.ok /\ t.quantity > Epsilon /\ t.side = "SELL" ->
         LET sold == Sold(state.lots, t.quantity)
         IN IF sold.left > Epsilon THEN [state EXCEPT !.ok = FALSE]
                                   ELSE [state EXCEPT !.lots = sold.kept]

NoLots == [ok |-> TRUE, lots |-> <<>>]

LastReplayed(T) == CHOOSE t \in T : \A u \in T \ {t} : ReplaysBefore(u, t)

\* The trades of T applied one after the other, in the order of the sort key.
Replay(T) ==
  MapThenFoldSet(LAMBDA t, state : ApplyTrade(state, t), NoLots,
                 LAMBDA t : t, LastReplayed, T)

\* The stored trades of a symbol can be replayed without a 422.
Replayable(T) == Replay(T).ok

LotQuantity(lots) == FoldLeft(LAMBDA n, lot : n + lot.quantity, 0, lots)

\* _projected_holding_quantity: a remainder of one quantum counts as nothing.
ProjectedQuantity(lots) ==
  IF LotQuantity(lots) <= Epsilon THEN 0 ELSE LotQuantity(lots)

Priced(lots) == \A i \in DOMAIN lots : lots[i].cost # NoPrice

\* Numerator of _projected_holding_cost_basis; missing when any lot's is.
ProjectedCost(lots) ==
  IF Priced(lots) THEN FoldLeft(LAMBDA n, lot : n + lot.quantity * lot.cost, 0, lots)
                  ELSE NoPrice

NoHolding == [quantity |-> 0]

\* The row _sync_holding_projection_for_symbol writes, or NoHolding when the
\* projection is None and the row is deleted.
Projection(T) ==
  LET lots == Replay(T).lots
  IN IF ProjectedQuantity(lots) = 0
     THEN NoHolding
     ELSE [quantity |-> ProjectedQuantity(lots),
           started_on |-> Min({lots[i].day : i \in DOMAIN lots})]
=============================================================================
