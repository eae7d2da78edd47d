------------------------------ MODULE Portfolio -----------------------------
(***************************************************************************)
(* Security trades, the holdings projected from them and the cash they     *)
(* settle: CashLedger and HoldingLots composed by the trade handlers       *)
(* (services/holding_transaction_service.py with settlements.py and        *)
(* repository.py of services/holding_projection_parts).                    *)
(*                                                                         *)
(* As in CashLedger an action is one request up to its commit.             *)
(***************************************************************************)
EXTENDS CashLedger, HoldingLots

CONSTANTS
  Symbols,
  Quantities, Prices,  \* what a user types; NoPrice is no price
  Days,
  MaxQuantity          \* bound on the quantity a holding edit carries over

ASSUME TradeConstants ==
  /\ TradeIds \subseteq Nat
  /\ NoRef \notin AccountIds
  /\ Quantities \subseteq Int /\ Prices \subseteq Int /\ Days \subseteq Int

VARIABLES
  trades,     \* set of trade rows, as HoldingLots reads them, with a currency
  holdings,   \* symbol -> [quantity, started_on]
  nextTrade   \* trade ids are never reused: orphaned entries refer to them

vars == <<accounts, entries, transfers, settlements, trades, holdings, nextTrade>>

TradesOf(T, s) == {t \in T : t.symbol = s}
IdsOf(T) == {t.id : t \in T}

(***************************************************************************)
(* Reversal of settlements.  delete_holding reverses several, newest trade *)
(* first, and whether an automatic account empties depends on that order:  *)
(* t sees the entries of the trades reversed before it, and its own, gone. *)
(***************************************************************************)
ReversedBy(T, t) ==
  {u.id : u \in {v \in T : v.day > t.day \/ (v.day = t.day /\ v.id >= t.id)}}

EmptiedBy(B, T, t) ==
  LET a == B.settlements[t.id].account
      left == {e \in EntriesOf(B.entries, a) : e.trade \notin ReversedBy(T, t)}
  IN /\ a \in DOMAIN B.accounts
     /\ B.settlements[t.id].auto
     /\ B.accounts[a].proceeds
     /\ LedgerSum(left) <= Epsilon
     /\ \A e \in left : e.type = "INITIAL_BALANCE"

\* Mutant: the entries go, the balances stay.
ReversedUnsynced(B, T) ==
  LedgerBook(B.accounts, {e \in B.entries : e.trade \notin IdsOf(T)},
             B.transfers, Without(B.settlements, IdsOf(T)))

\* Mutant: the settlement is forgotten, its entry stays.
ReversedEntriesKept(B, T) ==
  LedgerBook(B.accounts, B.entries, B.transfers, Without(B.settlements, IdsOf(T)))

\* The book after _reverse_holding_transaction_cash_settlement of every trade
\* of T; all of them are settled.
Reversed(B, T) ==
  LET touched == {B.settlements[t].account : t \in IdsOf(T)}
      emptied == {B.settlements[t.id].account : t \in {u \in T : EmptiedBy(B, T, u)}}
      E == {e \in B.entries : e.trade \notin IdsOf(T) /\ e.account \notin emptied}
  IN LedgerBook(Without(Synced(B.accounts, E, touched), emptied), E,
                B.transfers, Without(B.settlements, IdsOf(T)))

SettledAmong(B, T) == {t \in T : t.id \in DOMAIN B.settlements}

\* The ledger entry of trade t in account a, and the settlement naming it.
Settled(B, t, a, amount, inflow, auto) ==
  LET type == IF inflow THEN "SELL_PROCEEDS" ELSE "BUY_FUNDING"
      P == Posted(B, a, type, IF inflow THEN amount ELSE -amount, t.id, NoRef)
      row == [account |-> a, amount |-> amount, inflow |-> inflow, auto |-> auto]
  IN LedgerBook(P.accounts, P.entries, B.transfers,
                [u \in DOMAIN B.settlements \cup {t.id} |->
                   IF u = t.id THEN row ELSE B.settlements[u]])

SettledAmount(B, t, a, rate) ==
  Converted(t.quantity * t.price, t.currency, B.accounts[a].currency, rate)

\* Mutant: the paying account need only exist.
MayFundUnchecked(B, t, a, rate) == a \in DOMAIN B.accounts /\ RoomForEntry(B.entries)

\* _apply_buy_funding_handling
MayFund(B, t, a, rate) ==
  /\ a \in DOMAIN B.accounts
  /\ B.accounts[a].balance + Epsilon >= SettledAmount(B, t, a, rate)
  /\ RoomForEntry(B.entries)

Funded(B, t, a, rate) == Settled(B, t, a, SettledAmount(B, t, a, rate), FALSE, FALSE)

\* _apply_sell_proceeds_handling
Handlings == {"DISCARD", "ADD_TO_EXISTING_CASH", "CREATE_NEW_CASH"}

MayCredit(B, handling, a) ==
  /\ handling = "ADD_TO_EXISTING_CASH" => a \in DOMAIN B.accounts /\ RoomForEntry(B.entries)
  /\ handling = "CREATE_NEW_CASH" => RoomForAccount(B.accounts) /\ RoomForPair(B.entries)

\* Mutant: the new account gets no initial entry.
CreditedToBareAccount(B, t) ==
  LET a == FreshId(AccountIds, DOMAIN B.accounts)
      A == [x \in DOMAIN B.accounts \cup {a} |->
              IF x = a THEN AccountRow(t.currency, TRUE, 0) ELSE B.accounts[x]]
  IN Settled(LedgerBook(A, B.entries, B.transfers, B.settlements),
             t, a, t.quantity * t.price, TRUE, TRUE)

\* _create_auto_cash_account_from_sell
CreditedToNew(B, t) ==
  LET a == FreshId(AccountIds, DOMAIN B.accounts)
  IN Settled(Opened(B, a, t.currency, TRUE, 0), t, a, t.quantity * t.price, TRUE, TRUE)

Credited(B, t, handling, a, rate) ==
  CASE handling = "DISCARD" -> B
    [] handling = "ADD_TO_EXISTING_CASH" ->
         Settled(B, t, a, SettledAmount(B, t, a, rate), TRUE, FALSE)
    [] handling = "CREATE_NEW_CASH" -> CreditedToNew(B, t)

\* Mutant: trades that do not replay are written all the same.
ProjectedUnchecked(T, s) ==
  LET row == Projection(TradesOf(T, s))
  IN /\ trades' = T
     /\ holdings' = IF row = NoHolding
                    THEN Without(holdings, {s})
                    ELSE [x \in DOMAIN holdings \cup {s} |-> IF x = s THEN row ELSE holdings[x]]

\* Writes the trades and _sync_holding_projection_for_symbol of symbol s,
\* which refuses the request when the trades do not replay.
Projected(T, s) ==
  LET row == Projection(TradesOf(T, s))
  IN /\ Replayable(TradesOf(T, s))
     /\ trades' = T
     /\ holdings' = IF row = NoHolding
                    THEN Without(holdings, {s})
                    ELSE [x \in DOMAIN holdings \cup {s} |-> IF x = s THEN row ELSE holdings[x]]

-----------------------------------------------------------------------------
PortfolioInit ==
  /\ Init
  /\ trades = {}
  /\ holdings = [s \in {} |-> {}]
  /\ nextTrade = 1

NewTrade(s, side, q, p, currency, d) ==
  [id |-> nextTrade, symbol |-> s, side |-> side, quantity |-> q, price |-> p,
   currency |-> currency, day |-> d]

AllocateTradeId ==
  /\ nextTrade \in TradeIds
  /\ nextTrade' = nextTrade + 1

\* create_holding_transaction of a buy, paid from account a or (NoRef) from
\* outside; without a price the requested funding is silently skipped.
Buy(s, q, p, currency, d, a, rate) ==
  LET t == NewTrade(s, "BUY", q, p, currency, d)
      funded == p # NoPrice /\ a # NoRef
  IN /\ AllocateTradeId
     /\ funded => MayFund(Book, t, a, rate)
     /\ Commit(IF funded THEN Funded(Book, t, a, rate) ELSE Book)
     /\ Projected(trades \cup {t}, s)

\* create_holding_transaction of a sell, at a typed price or the live quote.
Sell(s, q, p, currency, d, handling, a, rate) ==
  LET t == NewTrade(s, "SELL", q, p, currency, d)
      held == TradesOf(trades, s)
  IN /\ AllocateTradeId
     /\ p # NoPrice
     /\ Replayable(held)
     /\ ProjectedQuantity(Replay(held).lots) + Epsilon >= q
     /\ MayCredit(Book, handling, a)
     /\ Commit(Credited(Book, t, handling, a, rate))
     /\ Projected(trades \cup {t}, s)

\* Mutant: nothing is taken back.
NotUndone(t) == Book

\* update_holding_transaction takes the settlement back, rewrites the trade,
\* replays the symbol and settles again, all against the reversed book.
Undone(t) == Reversed(Book, SettledAmong(Book, {t}))

Revised(t, u) ==
  /\ t \in trades
  /\ Projected((trades \ {t}) \cup {u}, t.symbol)
  /\ UNCHANGED nextTrade

Rewritten(t, q, p, currency, d) ==
  [t EXCEPT !.quantity = q, !.price = p, !.currency = currency, !.day = d]

\* a is the account in the request; NoRef leaves the funding as it was.
UpdateBuy(t, q, p, currency, d, a, rate) ==
  LET u == Rewritten(t, q, p, currency, d)
      was == t.id \in DOMAIN settlements
      payer == IF a # NoRef \/ ~was THEN a ELSE settlements[t.id].account
  IN /\ t.side = "BUY"
     /\ payer # NoRef => p # NoPrice /\ MayFund(Undone(t), u, payer, rate)
     /\ Commit(IF payer # NoRef THEN Funded(Undone(t), u, payer, rate) ELSE Undone(t))
     /\ Revised(t, u)

\* handling "KEEP" stands for a request without sell_proceeds_handling.
UpdateSell(t, q, p, currency, d, handling, a, rate) ==
  LET u == Rewritten(t, q, p, currency, d)
      was == t.id \in DOMAIN settlements
      kept == IF ~was THEN "DISCARD"
              ELSE IF settlements[t.id].auto THEN "CREATE_NEW_CASH"
              ELSE "ADD_TO_EXISTING_CASH"
      how == IF handling = "KEEP" THEN kept ELSE handling
      payee == IF a = NoRef /\ was /\ ~settlements[t.id].auto
               THEN settlements[t.id].account ELSE a
  IN /\ t.side = "SELL"
     /\ p # NoPrice
     /\ MayCredit(Undone(t), how, payee)
     /\ Commit(Credited(Undone(t), u, how, payee, rate))
     /\ Revised(t, u)

\* A trade that a holding edit turned into an adjustment loses its settlement.
UpdateAdjust(t, q, p, currency, d) ==
  /\ t.side = "ADJUST"
  /\ Commit(Undone(t))
  /\ Revised(t, Rewritten(t, q, p, currency, d))

\* Mutant: the holding is not projected again.
DeleteTradeUnprojected(t) ==
  /\ t \in trades
  /\ Commit(Undone(t))
  /\ Replayable(TradesOf(trades \ {t}, t.symbol))
  /\ trades' = trades \ {t}
  /\ UNCHANGED <<holdings, nextTrade>>

DeleteTrade(t) ==
  /\ t \in trades
  /\ Commit(Undone(t))
  /\ Projected(trades \ {t}, t.symbol)
  /\ UNCHANGED nextTrade

Older(t, u) == t.day < u.day \/ (t.day = u.day /\ t.id < u.id)

\* update_holding of quantity, cost or date.  Dated at or before the earliest
\* trade it turns that trade into the adjustment, settlement and all;
\* otherwise it adds one.
Adjusted(s, q, p, d) ==
  LET first == {t \in TradesOf(trades, s) : \A u \in TradesOf(trades, s) \ {t} : Older(t, u)}
      rewritten == {t \in first : d <= t.day}
  IN IF rewritten # {}
     THEN (trades \ rewritten) \cup
            {[t EXCEPT !.side = "ADJUST", !.quantity = q, !.price = p, !.day = d] : t \in rewritten}
     ELSE trades \cup {NewTrade(s, "ADJUST", q, p, CNY, d)}

\* Refused without a date.  When nothing is left of the position afterwards, the
\* row the projection deleted is added back to the session and survives as it was.
EditHolding(s, q, p, d) ==
  LET T == Adjusted(s, q, p, d)
      row == Projection(TradesOf(T, s))
  IN /\ s \in DOMAIN holdings
     /\ d \in Days
     /\ q <= MaxQuantity
     /\ Replayable(TradesOf(T, s))
     /\ trades' = T
     /\ holdings' = IF row = NoHolding THEN holdings ELSE [holdings EXCEPT ![s] = row]
     /\ IF nextTrade \in IdsOf(T) THEN AllocateTradeId ELSE UNCHANGED nextTrade
     /\ UNCHANGED ledgerVars

\* A field missing from the request is taken from the holding row.
UpdateHolding(s, q, p, d) == EditHolding(s, q, p, d)
UpdateHoldingDate(s, p, d) == EditHolding(s, holdings[s].quantity, p, d)
UpdateHoldingQuantity(s, q, p) == EditHolding(s, q, p, holdings[s].started_on)
UpdateHoldingCost(s, p) ==
  EditHolding(s, holdings[s].quantity, p, holdings[s].started_on)

\* delete_holding reverses the settlements of the sells, then deletes the
\* settlement rows and the trades of the symbol; the ledger entries of its
\* buys stay as they are.
DeleteHolding(s) ==
  LET T == TradesOf(trades, s)
      R == Reversed(Book, SettledAmong(Book, {t \in T : t.side = "SELL"}))
  IN /\ s \in DOMAIN holdings
     /\ Commit(LedgerBook(R.accounts, R.entries, R.transfers,
                          Without(R.settlements, IdsOf(T))))
     /\ trades' = trades \ T
     /\ holdings' = Without(holdings, {s})
     /\ UNCHANGED nextTrade

\* validate_quantity_for_market and validate_sell_proceeds_fields: an account
\* goes with proceeds that are added to one, or with an edit that keeps them.
NamesPayee(handling, a) == (a # NoRef) <=> (handling = "ADD_TO_EXISTING_CASH")
MayNamePayee(handling, a) == a # NoRef => handling \in {"ADD_TO_EXISTING_CASH", "KEEP"}

CreateTrade ==
  \/ \E s \in Symbols, q \in Quantities, p \in Prices, currency \in Currencies,
        d \in Days, a \in AccountIds \cup {NoRef}, rate \in FxRates :
       Buy(s, q, p, currency, d, a, rate)
  \/ \E s \in Symbols, q \in Quantities, p \in Prices, currency \in Currencies, d \in Days,
        handling \in Handlings, a \in AccountIds \cup {NoRef}, rate \in FxRates :
       NamesPayee(handling, a) /\ Sell(s, q, p, currency, d, handling, a, rate)

UpdateTrade(t) ==
  \/ \E q \in Quantities, p \in Prices, currency \in Currencies,
        d \in Days, a \in AccountIds \cup {NoRef}, rate \in FxRates :
       UpdateBuy(t, q, p, currency, d, a, rate)
  \/ \E q \in Quantities, p \in Prices, currency \in Currencies, d \in Days,
        handling \in Handlings \cup {"KEEP"}, a \in AccountIds \cup {NoRef}, rate \in FxRates :
       MayNamePayee(handling, a) /\ UpdateSell(t, q, p, currency, d, handling, a, rate)
  \/ \E q \in Quantities, p \in Prices, currency \in Currencies, d \in Days :
       UpdateAdjust(t, q, p, currency, d)

TradeStep == CreateTrade \/ \E t \in trades : UpdateTrade(t) \/ DeleteTrade(t)

AdjustHolding(s) ==
  \/ \E q \in Quantities, p \in Prices, d \in Days : UpdateHolding(s, q, p, d)
  \/ \E p \in Prices, d \in Days : UpdateHoldingDate(s, p, d)
  \/ \E q \in Quantities, p \in Prices : UpdateHoldingQuantity(s, q, p)
  \/ \E p \in Prices : UpdateHoldingCost(s, p)

HoldingStep == \E s \in Symbols : AdjustHolding(s) \/ DeleteHolding(s)

CashStep == Next /\ UNCHANGED <<trades, holdings, nextTrade>>

PortfolioNext == CashStep \/ TradeStep \/ HoldingStep

PortfolioSpec == PortfolioInit /\ [][PortfolioNext]_vars

-----------------------------------------------------------------------------
\* Trade rows carry used ids, one per row, and settlements belong to rows.
PortfolioTypeOK ==
  /\ TypeOK
  /\ nextTrade \in Nat
  /\ \A t \in trades : t.id \in TradeIds /\ t.id < nextTrade
  /\ \A t, u \in trades : t.id = u.id => t = u
  /\ \A e \in entries : e.trade < nextTrade
  /\ DOMAIN settlements \subseteq IdsOf(trades)

\* Whatever is added, edited, redated or deleted, the trades kept for a symbol
\* replay: no stored sell exceeds what was held by its date.  Every later
\* request and rebuild replays them and would fail for good otherwise.
TradesReplay ==
  \A s \in Symbols : Replayable(TradesOf(trades, s))

\* A symbol whose trades leave a position has a holding row, and the row is
\* that position.
PositionsHeld ==
  \A s \in Symbols :
    LET row == Projection(TradesOf(trades, s))
    IN row # NoHolding => s \in DOMAIN holdings /\ holdings[s] = row

\* As long as a trade exists, every ledger entry it caused is settled, so that
\* editing or deleting the trade takes the entry back.
LiveTradesSettled ==
  \A e \in entries : e.trade \in IdsOf(trades) => e.trade \in DOMAIN settlements

\* Paying for a buy, or re-settling an edited one, leaves the paying account
\* with at least minus one quantum.
FundingCovered ==
  [][\A t \in DOMAIN settlements' :
       ~settlements'[t].inflow /\ (t \notin DOMAIN settlements \/ settlements'[t] # settlements[t])
         => accounts'[settlements'[t].account].balance >= -Epsilon]_vars

=============================================================================
