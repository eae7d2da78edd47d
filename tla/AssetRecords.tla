---------------------------- MODULE AssetRecords ----------------------------
(***************************************************************************)
(* The record of what a user did (services/asset_record_service.py): every *)
(* handler of the portfolio writes audit rows in its own transaction, and  *)
(* the listing makes records of the newest of them, with the profit of     *)
(* each sell replayed from the audits alone.                               *)
(*                                                                         *)
(* The fixed assets, liabilities and other assets of                       *)
(* services/asset_entry_service.py have nothing but their rows and audits: *)
(* one row of each kind is modelled.                                       *)
(***************************************************************************)
EXTENDS Portfolio

CONSTANTS
  MaxFetched,   \* how many audits a listing reads
  MaxRequests   \* bound on the requests that create or edit

VARIABLES
  assets,       \* the kinds of plain assets the user has a row of
  log,          \* the user's audits, oldest first
  requests      \* number of requests counted by MaxRequests

recordVars == <<vars, assets, log, requests>>

AssetKinds == {"FIXED_ASSET", "LIABILITY", "OTHER_ASSET"}

-----------------------------------------------------------------------------
(***************************************************************************)
(* Audits.  Of before_state and after_state the one that is shown is kept, *)
(* for trades only; reason stands for its prefix.                          *)
(***************************************************************************)
NoTrade == [id |-> 0]

Audit(entity, operation, reason) ==
  [entity |-> entity, operation |-> operation, reason |-> reason, trade |-> NoTrade]

TradeAudit(operation, t) ==
  [entity |-> "HOLDING_TRANSACTION", operation |-> operation, reason |-> "", trade |-> t]

\* One audit of a cash account for each of n accounts.
AccountAudits(n, reason) == [i \in 1 .. n |-> Audit("CASH_ACCOUNT", "UPDATE", reason)]

\* _record_asset_mutation: the audits commit with the request.
Written(audits) == log' = log \o audits

\* The audit of trade t's settlement in the book the request leaves.
SettlementAudit(t) ==
  IF t.id \notin DOMAIN settlements'
  THEN <<>>
  ELSE IF settlements'[t.id].auto
  THEN <<Audit("CASH_ACCOUNT", "CREATE", "AUTO_SELL_PROCEEDS")>>
  ELSE AccountAudits(1, IF settlements'[t.id].inflow THEN "SELL_PROCEEDS" ELSE "BUY_FUNDING")

\* The order in which delete_holding goes through its trades: by date and age.
NewestFirst(T) ==
  [i \in 1 .. Cardinality(T) |-> CHOOSE t \in T : Cardinality({u \in T : Older(t, u)}) = i - 1]

\* The audits of taking back the settlements of T, all of which have one.
Reversals(T) ==
  [i \in 1 .. Cardinality(T) |->
     Audit("CASH_ACCOUNT", IF EmptiedBy(Book, T, NewestFirst(T)[i]) THEN "DELETE" ELSE "UPDATE",
           "SELL_PROCEEDS_REVERSAL")]

-----------------------------------------------------------------------------
(***************************************************************************)
(* Records.                                                                *)
(***************************************************************************)
NoProfit == [profit |-> 0, per |-> 0]

\* A sell's gain over the average cost of the lots, times their quantity; the
\* division and its rounding are left out.
Profit(t, lots) ==
  IF t.price # NoPrice /\ ProjectedQuantity(lots) # 0 /\ Priced(lots)
  THEN [profit |-> t.quantity * (t.price * LotQuantity(lots) - ProjectedCost(lots)),
        per |-> LotQuantity(lots)]
  ELSE NoProfit

\* Mutant: a deleted trade stays among those a later sell is replayed over.
ProfitedOverDeleted(acc, a) ==
  LET t == a.trade
      others == {u \in acc.versions : u.id # t.id}
      lots == Replay(TradesOf(acc.versions, t.symbol))
      sold == a.entity = "HOLDING_TRANSACTION" /\ t.side = "SELL"
  IN [versions |-> IF a.entity = "HOLDING_TRANSACTION" THEN others \cup {t} ELSE acc.versions,
      ok |-> acc.ok /\ (sold => lots.ok),
      profits |-> Append(acc.profits, IF sold THEN Profit(t, lots.lots) ELSE NoProfit)]

\* One audit of _resolve_investment_profit_map.  A sell is replayed over the
\* versions of the other trades recorded so far, or, when it is deleted, over
\* all of them; a replay that is refused (ok) fails the whole listing.
Profited(acc, a) ==
  LET t == a.trade
      others == {u \in acc.versions : u.id # t.id}
      before == IF a.operation = "UPDATE" THEN others ELSE acc.versions
      replayed == Replay(TradesOf(before, t.symbol))
  IN IF a.entity # "HOLDING_TRANSACTION"
     THEN [acc EXCEPT !.profits = Append(@, NoProfit)]
     ELSE [versions |-> IF a.operation = "DELETE" THEN others ELSE others \cup {t},
           ok |-> acc.ok /\ (t.side = "SELL" => replayed.ok),
           profits |-> Append(acc.profits, IF t.side = "SELL" /\ replayed.ok
                                           THEN Profit(t, replayed.lots) ELSE NoProfit)]

ProfitMap(audits) ==
  FoldLeft(Profited, [versions |-> {}, ok |-> TRUE, profits |-> <<>>], audits)

\* Mutant: paying for a buy is taken for an edit of the account.
SideEffectsButFunding == {"TRANSFER", "LEDGER_ADJUSTMENT", "SELL_PROCEEDS", "SELL_PROCEEDS_REVERSAL"}

\* SIDE_EFFECT_CASH_ACCOUNT_REASON_PREFIXES, as the reasons they match
SideEffects ==
  {"TRANSFER", "LEDGER_ADJUSTMENT", "SELL_PROCEEDS", "SELL_PROCEEDS_REVERSAL", "BUY_FUNDING"}

\* _is_cash_account_business_record
OfBusiness(a) ==
  /\ a.operation = "CREATE" => a.reason # "AUTO_SELL_PROCEEDS"
  /\ a.operation = "UPDATE" => a.reason \notin SideEffects

\* The audits of which _build_asset_record makes a record.  Those of transfers
\* that go with their account carry no state.
Recorded(a) ==
  CASE a.entity = "CASH_ACCOUNT" -> OfBusiness(a)
    [] a.entity = "CASH_TRANSFER" -> a.reason # "CASH_ACCOUNT_DELETE"
    [] a.entity = "HOLDING" -> a.operation = "DELETE"
    [] OTHER -> TRUE

ClassOf(a) ==
  CASE a.entity \in {"CASH_ACCOUNT", "CASH_TRANSFER", "CASH_LEDGER_ADJUSTMENT"} -> "cash"
    [] a.entity \in {"HOLDING", "HOLDING_TRANSACTION"} -> "investment"
    [] a.entity = "FIXED_ASSET" -> "fixed"
    [] a.entity = "LIABILITY" -> "liability"
    [] a.entity = "OTHER_ASSET" -> "other"

\* _resolve_holding_transaction_record: a trade that is deleted reads as edited.
TradeOperation(a) ==
  IF a.operation = "CREATE" /\ a.trade.side # "ADJUST" THEN a.trade.side ELSE "EDIT"

Operation(a, created) ==
  CASE a.operation = "CREATE" -> created
    [] a.operation = "UPDATE" -> "EDIT"
    [] a.operation = "DELETE" -> "DELETE"

AccountOperation(a) == Operation(a, "NEW")
TransferOperation(a) == Operation(a, "TRANSFER")
AdjustmentOperation(a) == Operation(a, "ADJUST")
AssetOperation(a) == Operation(a, "NEW")

OperationOf(a) ==
  CASE a.entity = "CASH_ACCOUNT" -> AccountOperation(a)
    [] a.entity = "CASH_TRANSFER" -> TransferOperation(a)
    [] a.entity = "CASH_LEDGER_ADJUSTMENT" -> AdjustmentOperation(a)
    [] a.entity = "HOLDING_TRANSACTION" -> TradeOperation(a)
    [] a.entity = "HOLDING" -> "DELETE"
    [] a.entity \in AssetKinds -> AssetOperation(a)

Fetched(audits) == SubSeq(audits, Max({1, Len(audits) - MaxFetched + 1}), Len(audits))

\* The audits of which a listing makes records it was asked for, newest first.
Found(audits, classes, operations) ==
  LET wanted(i) == /\ Recorded(audits[i])
                   /\ ClassOf(audits[i]) \in classes
                   /\ OperationOf(audits[i]) \in operations
  IN SelectSeq([i \in DOMAIN audits |-> Len(audits) + 1 - i], wanted)

\* list_asset_records
Listing(audits, limit, classes, operations) ==
  LET window == Fetched(audits)
      found == Found(window, classes, operations)
      resolved == ProfitMap(window)
  IN [ok |-> resolved.ok,
      records |-> [n \in 1 .. Min({limit, Len(found)}) |->
                     [class |-> ClassOf(window[found[n]]),
                      operation |-> OperationOf(window[found[n]]),
                      profit |-> resolved.profits[found[n]]]]]

-----------------------------------------------------------------------------
RecordInit ==
  /\ PortfolioInit
  /\ assets = {}
  /\ log = <<>>
  /\ requests = 0

Counted == requests < MaxRequests /\ requests' = requests + 1
Uncounted == UNCHANGED requests

CashOnly == UNCHANGED <<trades, holdings, nextTrade, assets>>

AccountRequest ==
  \/ /\ Counted
     /\ \E currency \in Currencies, proceeds \in ProceedsFlags, b \in StartBalances :
          CreateAccount(currency, proceeds, b)
     /\ Written(<<Audit("CASH_ACCOUNT", "CREATE", "")>>)
  \/ /\ Counted
     /\ \E a \in AccountIds, currency \in Currencies, proceeds \in ProceedsFlags, b \in StartBalances :
          UpdateAccount(a, currency, proceeds, b)
     /\ Written(AccountAudits(1, ""))

\* delete_account records the accounts at the other end of its transfers too.
DeleteAccountRequest(a) ==
  LET X == {x \in DOMAIN transfers : a \in {transfers[x].from, transfers[x].to}}
      others == (UNION {{transfers[x].from, transfers[x].to} : x \in X}) \ {a}
  IN /\ DeleteAccount(a)
     /\ Uncounted
     /\ Written(<<Audit("CASH_ACCOUNT", "DELETE", "")>>
                  \o AccountAudits(Cardinality(others), "CASH_ACCOUNT_DELETE")
                  \o [i \in 1 .. Cardinality(X) |->
                        Audit("CASH_TRANSFER", "DELETE", "CASH_ACCOUNT_DELETE")])

AdjustmentAudits(operation) ==
  <<Audit("CASH_LEDGER_ADJUSTMENT", operation, "")>> \o AccountAudits(1, "LEDGER_ADJUSTMENT")

AdjustmentRequest ==
  \/ /\ Counted
     /\ \E a \in AccountIds, amount \in AdjustmentAmounts : CreateAdjustment(a, amount)
     /\ Written(AdjustmentAudits("CREATE"))
  \/ /\ Counted
     /\ \E e \in entries, amount \in AdjustmentAmounts : UpdateAdjustment(e, amount)
     /\ Written(AdjustmentAudits("UPDATE"))
  \/ /\ \E e \in entries : DeleteAdjustment(e)
     /\ Uncounted
     /\ Written(AdjustmentAudits("DELETE"))

TransferAudits(operation, n) ==
  <<Audit("CASH_TRANSFER", operation, "")>> \o AccountAudits(n, "TRANSFER")

TransferRequest ==
  \/ /\ Counted
     /\ \E f, t \in AccountIds, amount \in TransferAmounts, rate \in FxRates, skew \in TargetSkews :
          CreateTransfer(f, t, amount, rate, skew)
     /\ Written(TransferAudits("CREATE", 2))
  \/ /\ Counted
     /\ \E x \in TransferIds, f, t \in AccountIds,
           amount \in TransferAmounts, rate \in FxRates, skew \in TargetSkews :
          /\ UpdateTransfer(x, f, t, amount, rate, skew)
          /\ Written(TransferAudits("UPDATE",
                       Cardinality({f, t, transfers[x].from, transfers[x].to})))
  \/ /\ \E x \in TransferIds : DeleteTransfer(x)
     /\ Uncounted
     /\ Written(TransferAudits("DELETE", 2))

TradeNow(id) == CHOOSE t \in trades' : t.id = id

TradeRequest ==
  \/ /\ Counted
     /\ CreateTrade
     /\ Written(<<TradeAudit("CREATE", TradeNow(nextTrade))>> \o SettlementAudit(TradeNow(nextTrade)))
  \/ /\ Counted
     /\ \E t \in trades :
          /\ UpdateTrade(t)
          /\ Written(Reversals(SettledAmong(Book, {t})) \o SettlementAudit(t)
                       \o <<TradeAudit("UPDATE", TradeNow(t.id))>>)
  \/ /\ \E t \in trades : /\ DeleteTrade(t)
                          /\ Written(Reversals(SettledAmong(Book, {t}))
                                       \o <<TradeAudit("DELETE", t)>>)
     /\ Uncounted

\* update_holding records the trade it adds or turns into an adjustment.
AdjustHoldingRequest(s) ==
  LET first == CHOOSE t \in TradesOf(trades, s) : \A u \in TradesOf(trades, s) \ {t} : Older(t, u)
  IN /\ Counted
     /\ AdjustHolding(s)
     /\ Written(<<IF nextTrade \in IdsOf(trades')
                  THEN TradeAudit("CREATE", TradeNow(nextTrade))
                  ELSE TradeAudit("UPDATE", TradeNow(first.id)),
                  Audit("HOLDING", "UPDATE", "")>>)

\* update_holding of nothing but the broker or the note.
EditHoldingNotes(s) ==
  /\ Counted
  /\ s \in DOMAIN holdings
  /\ UNCHANGED vars
  /\ Written(<<Audit("HOLDING", "UPDATE", "")>>)

\* Mutant: the trades that go with the holding are not recorded.
DeleteHoldingRequestUnrecorded(s) ==
  /\ DeleteHolding(s)
  /\ Uncounted
  /\ Written(<<Audit("HOLDING", "DELETE", "")>>)

\* delete_holding records the reversals of its sells and then all its trades.
DeleteHoldingRequest(s) ==
  LET T == TradesOf(trades, s)
      gone == NewestFirst(T)
  IN /\ DeleteHolding(s)
     /\ Uncounted
     /\ Written(Reversals(SettledAmong(Book, {t \in T : t.side = "SELL"}))
                  \o [i \in DOMAIN gone |-> TradeAudit("DELETE", gone[i])]
                  \o <<Audit("HOLDING", "DELETE", "")>>)

HoldingRequest ==
  \E s \in Symbols : AdjustHoldingRequest(s) \/ EditHoldingNotes(s) \/ DeleteHoldingRequest(s)

\* A create, update or delete of services/asset_entry_service.py.
CreateAsset(kind) ==
  /\ Counted
  /\ kind \notin assets
  /\ assets' = assets \cup {kind}
  /\ Written(<<Audit(kind, "CREATE", "")>>)

UpdateAsset(kind) ==
  /\ Counted
  /\ kind \in assets
  /\ Written(<<Audit(kind, "UPDATE", "")>>)
  /\ UNCHANGED assets

DeleteAsset(kind) ==
  /\ Uncounted
  /\ kind \in assets
  /\ assets' = assets \ {kind}
  /\ Written(<<Audit(kind, "DELETE", "")>>)

CreateFixedAsset == CreateAsset("FIXED_ASSET")
UpdateFixedAsset == UpdateAsset("FIXED_ASSET")
DeleteFixedAsset == DeleteAsset("FIXED_ASSET")
CreateLiability == CreateAsset("LIABILITY")
UpdateLiability == UpdateAsset("LIABILITY")
DeleteLiability == DeleteAsset("LIABILITY")
CreateOtherAsset == CreateAsset("OTHER_ASSET")
UpdateOtherAsset == UpdateAsset("OTHER_ASSET")
DeleteOtherAsset == DeleteAsset("OTHER_ASSET")

AssetRequest ==
  \/ CreateFixedAsset \/ UpdateFixedAsset \/ DeleteFixedAsset
  \/ CreateLiability \/ UpdateLiability \/ DeleteLiability
  \/ CreateOtherAsset \/ UpdateOtherAsset \/ DeleteOtherAsset

\* list_asset_records, which writes nothing
ReadRecords == UNCHANGED recordVars

RecordNext ==
  \/ (AccountRequest \/ AdjustmentRequest \/ TransferRequest
      \/ \E a \in AccountIds : DeleteAccountRequest(a)) /\ CashOnly
  \/ (TradeRequest \/ HoldingRequest) /\ UNCHANGED assets
  \/ AssetRequest /\ UNCHANGED vars
  \/ ReadRecords

RecordSpec == RecordInit /\ [][RecordNext]_recordVars

-----------------------------------------------------------------------------
Complete == Len(log) <= MaxFetched

Classes == {"cash", "investment", "fixed", "liability", "other"}
Operations == {"NEW", "EDIT", "DELETE", "BUY", "SELL", "TRANSFER", "ADJUST"}

Shown(audits) == Found(Fetched(audits), Classes, Operations)

\* A listing that reads all audits learns from them exactly the trades the
\* database holds: each handler that adds, edits, adjusts or deletes trades
\* records every one of them, and profits are replayed over what was held.
AuditsTellTrades == Complete => ProfitMap(log).versions = trades

\* A listing that reads all audits, whatever class it asks for (the profits
\* are resolved first), is refused only after a holding was deleted that had
\* a buy younger than a sell of the same day: the buy is recorded as gone
\* before the sell, which is then replayed without it.
ListingFailsOnlyAfterDelete ==
  Complete /\ ~Listing(log, 1, {"cash"}, Operations).ok =>
    \E i, j \in DOMAIN log :
      /\ i < j
      /\ \A k \in i .. j : log[k].entity = "HOLDING_TRANSACTION" /\ log[k].operation = "DELETE"
      /\ \E k \in j .. Len(log) : log[k].entity = "HOLDING" /\ log[k].operation = "DELETE"
      /\ log[i].trade.side # "SELL" /\ log[j].trade.side = "SELL"
      /\ log[i].trade.day = log[j].trade.day

\* One request is one record, whatever else its handler touches.  Beyond it
\* only deletions show: of an automatic account with its sell, of the trades
\* of a holding, and as an edit of each account that a deleted one had
\* transfers with.  A holding edit of broker and note is not shown.
OneRecordPerRequest ==
  [][Complete' =>
       LET new == SubSeq(log', Len(log) + 1, Len(log'))
           count(S) == Cardinality({i \in DOMAIN new : new[i] \in S})
           emptied == count({Audit("CASH_ACCOUNT", "DELETE", "SELL_PROCEEDS_REVERSAL")})
           trailing == {a \in DOMAIN accounts \cap DOMAIN accounts' :
                          \E x \in DOMAIN transfers :
                            /\ a \in {transfers[x].from, transfers[x].to}
                            /\ ~({transfers[x].from, transfers[x].to} \subseteq DOMAIN accounts')}
           dropped == IF count({Audit("HOLDING", "DELETE", "")}) = 1 THEN trades \ trades' ELSE {}
           own == IF new = <<Audit("HOLDING", "UPDATE", "")>> THEN 0 ELSE 1
       IN Len(Shown(log')) = Len(Shown(log)) + own + emptied
                               + Cardinality(trailing) + Cardinality(dropped)]_recordVars
=============================================================================
