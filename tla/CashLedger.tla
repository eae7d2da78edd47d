----------------------------- MODULE CashLedger -----------------------------
(***************************************************************************)
(* The cash side of one user's portfolio: cash accounts, their ledger      *)
(* entries, transfers between accounts, and the settlements that tie       *)
(* ledger entries to security trades (services/cash_account_service.py,    *)
(* services/holding_projection_parts/cash_ledger.py).                      *)
(*                                                                         *)
(* Each action is one request handler, run from its first read to its      *)
(* session.commit(); a request that is refused rolls back and is no step.  *)
(* The interleaving of the statements of two handlers is the subject of    *)
(* LedgerConcurrency.  Every query filters by user_id, so one user is      *)
(* modelled.  Amounts are integers counting database quanta (1e-8).        *)
(***************************************************************************)
EXTENDS FixedPrecision, FiniteSetsExt

CONSTANTS
  AccountIds, TransferIds, TradeIds,
  MaxEntries,         \* bound on the rows of the ledger
  Currencies, CNY,
  ProceedsFlags,      \* whether a user may name the platform "交易回款"
  StartBalances,      \* balances a user types for an account
  AdjustmentAmounts,  \* amounts of manual ledger adjustments
  TransferAmounts,    \* source amounts of transfers
  TargetSkews,        \* typed target amount minus the converted amount
  FxRates             \* rates the market-data client may quote

NoRef == 0            \* NULL in cash_transfer_id and holding_transaction_id

ASSUME LedgerConstants ==
  /\ NoRef \notin TransferIds \cup TradeIds
  /\ MaxEntries \in Nat
  /\ CNY \in Currencies
  /\ ProceedsFlags \subseteq BOOLEAN
  /\ StartBalances \subseteq Int
  /\ AdjustmentAmounts \subseteq Int
  /\ TransferAmounts \subseteq Int
  /\ TargetSkews \subseteq Int
  /\ FxRates \subseteq Int

VARIABLES
  accounts,     \* live account id -> [currency, proceeds, balance]
  entries,      \* set of ledger rows
  transfers,    \* live transfer id -> [from, to, source, target]
  settlements   \* settled trade id -> [account, amount, inflow, auto]

ledgerVars == <<accounts, entries, transfers, settlements>>

EntryTypes == {"INITIAL_BALANCE", "MANUAL_ADJUSTMENT", "TRANSFER_OUT",
               "TRANSFER_IN", "SELL_PROCEEDS", "BUY_FUNDING"}

(***************************************************************************)
(* A book is a value of the four tables.  The operators below are the      *)
(* helpers the handlers share; each maps a book to the book it leaves.     *)
(***************************************************************************)
LedgerBook(A, E, X, S) ==
  [accounts |-> A, entries |-> E, transfers |-> X, settlements |-> S]

Book == LedgerBook(accounts, entries, transfers, settlements)

\* session.commit() of a handler that leaves book B.
Commit(B) ==
  /\ accounts' = B.accounts
  /\ entries' = B.entries
  /\ transfers' = B.transfers
  /\ settlements' = B.settlements

AccountRow(currency, proceeds, balance) ==
  [currency |-> currency, proceeds |-> proceeds, balance |-> balance]

EntriesOf(E, a) == {e \in E : e.account = a}

LedgerSum(E) == MapThenSumSet(LAMBDA e : e.amount, E)

\* Re-derives the balance of the accounts in T from the ledger.
Synced(A, E, T) ==
  [a \in DOMAIN A |->
     IF a \in T
     THEN AccountRow(A[a].currency, A[a].proceeds, LedgerSum(EntriesOf(E, a)))
     ELSE A[a]]

\* Nothing refers to a deleted account or transfer (the invariants below say
\* so), so a freed id may be taken again.
FreeIds(Ids, used) == Ids \ used
FreshId(Ids, used) == CHOOSE i \in FreeIds(Ids, used) : TRUE
RoomForEntry(E) == Cardinality(E) < MaxEntries
RoomForAccount(A) == FreeIds(AccountIds, DOMAIN A) # {}

\* A ledger row; copy tells apart rows that are equal in every other column.
Entry(E, a, type, amount, currency, trade, transfer) ==
  LET row(n) == [copy |-> n, account |-> a, type |-> type, amount |-> amount,
                 currency |-> currency, trade |-> trade, transfer |-> transfer]
  IN row(CHOOSE n \in 1 .. MaxEntries : row(n) \notin E)

\* Appends one entry to live account a and re-derives its balance.
Posted(B, a, type, amount, trade, transfer) ==
  LET E == B.entries \cup
             {Entry(B.entries, a, type, amount, B.accounts[a].currency, trade, transfer)}
  IN LedgerBook(Synced(B.accounts, E, {a}), E, B.transfers, B.settlements)

InitialEntries(E, a) == {e \in EntriesOf(E, a) : e.type = "INITIAL_BALANCE"}
NonInitialEntries(E, a) == EntriesOf(E, a) \ InitialEntries(E, a)

\* Mutant: the old initial entry is counted among the others.
ReconciledWithOld(B, a, b) ==
  Posted(LedgerBook(B.accounts, B.entries \ InitialEntries(B.entries, a),
                    B.transfers, B.settlements),
         a, "INITIAL_BALANCE", b - LedgerSum(EntriesOf(B.entries, a)), NoRef, NoRef)

\* Rewrites the initial entry of account a so that the ledger adds up to b.
Reconciled(B, a, b) ==
  LET kept == B.entries \ InitialEntries(B.entries, a)
      needed == b - LedgerSum(NonInitialEntries(B.entries, a))
  IN Posted(LedgerBook(B.accounts, kept, B.transfers, B.settlements),
            a, "INITIAL_BALANCE", needed, NoRef, NoRef)

\* Account a written with the given columns; its balance comes from the ledger.
Opened(B, a, currency, proceeds, b) ==
  LET A == [x \in DOMAIN B.accounts \cup {a} |->
              IF x = a THEN AccountRow(currency, proceeds, 0) ELSE B.accounts[x]]
  IN Reconciled(LedgerBook(A, B.entries, B.transfers, B.settlements), a, b)

\* Mutant: the old pair of entries is left in place.
NotUnwound(B, x) == B

\* Deletes both ledger rows of transfer x and re-derives the two balances.
Unwound(B, x) ==
  LET E == {e \in B.entries : e.transfer # x}
      T == {B.transfers[x].from, B.transfers[x].to}
  IN LedgerBook(Synced(B.accounts, E, T), E, B.transfers, B.settlements)

\* Writes transfer row x with both of its ledger entries.
Transferred(B, x, f, t, source, target) ==
  LET X == [y \in DOMAIN B.transfers \cup {x} |->
              IF y = x THEN [from |-> f, to |-> t, source |-> source, target |-> target]
                       ELSE B.transfers[y]]
      written == LedgerBook(B.accounts, B.entries, X, B.settlements)
  IN Posted(Posted(written, f, "TRANSFER_OUT", -source, NoRef, x),
            t, "TRANSFER_IN", target, NoRef, x)

RoomForPair(E) == Cardinality(E) + 1 < MaxEntries

Converted(amount, from, to, rate) == IF from = to THEN amount ELSE amount * rate

\* What create_cash_transfer and update_cash_transfer check before writing.
MayTransfer(B, f, t, amount) ==
  /\ {f, t} \subseteq DOMAIN B.accounts
  /\ f # t
  /\ B.accounts[t].currency = CNY
  /\ B.accounts[f].balance + Epsilon >= amount

Without(f, S) == [x \in DOMAIN f \ S |-> f[x]]

-----------------------------------------------------------------------------
Init ==
  /\ accounts = [a \in {} |-> {}]
  /\ entries = {}
  /\ transfers = [x \in {} |-> {}]
  /\ settlements = [t \in {} |-> {}]

CreateAccount(currency, proceeds, b) ==
  /\ RoomForAccount(accounts)
  /\ RoomForEntry(entries)
  /\ Commit(Opened(Book, FreshId(AccountIds, DOMAIN accounts), currency, proceeds, b))

\* The currency may change only while the account has no activity.
UpdateAccount(a, currency, proceeds, b) ==
  /\ a \in DOMAIN accounts
  /\ NonInitialEntries(entries, a) # {} => currency = accounts[a].currency
  /\ RoomForEntry(entries \ InitialEntries(entries, a))
  /\ Commit(Opened(Book, a, currency, proceeds, b))

\* Cascades over the account's transfers (both sides), its settlements and
\* all of its entries; the trades themselves stay.
DeleteAccount(a) ==
  LET X == {x \in DOMAIN transfers : a \in {transfers[x].from, transfers[x].to}}
      S == {t \in DOMAIN settlements : settlements[t].account = a}
      others == (UNION {{transfers[x].from, transfers[x].to} : x \in X}) \ {a}
      unlinked == {e \in entries : e.transfer \notin X /\ e.trade \notin S}
      synced == Synced(accounts, unlinked, others)
  IN /\ a \in DOMAIN accounts
     /\ Commit(LedgerBook(Without(synced, {a}),
                          unlinked \ EntriesOf(unlinked, a),
                          Without(transfers, X),
                          Without(settlements, S)))

CreateAdjustment(a, amount) ==
  /\ a \in DOMAIN accounts
  /\ RoomForEntry(entries)
  /\ Commit(Posted(Book, a, "MANUAL_ADJUSTMENT", amount, NoRef, NoRef))

\* Only rows the user wrote may be edited, never a transfer's or a trade's.
ManualAdjustments ==
  {e \in entries : /\ e.type = "MANUAL_ADJUSTMENT"
                   /\ e.trade = NoRef
                   /\ e.transfer = NoRef
                   /\ e.account \in DOMAIN accounts}

UpdateAdjustment(e, amount) ==
  LET kept == entries \ {e}
      E == kept \cup {Entry(kept, e.account, e.type, amount,
                            accounts[e.account].currency, e.trade, e.transfer)}
  IN /\ e \in ManualAdjustments
     /\ Commit(LedgerBook(Synced(accounts, E, {e.account}), E, transfers, settlements))

DeleteAdjustment(e) ==
  LET E == entries \ {e}
  IN /\ e \in ManualAdjustments
     /\ Commit(LedgerBook(Synced(accounts, E, {e.account}), E, transfers, settlements))

\* The target amount is the converted one, or a typed one within Epsilon of it.
CreateTransfer(f, t, amount, rate, skew) ==
  LET x == FreshId(TransferIds, DOMAIN transfers)
      target == Converted(amount, accounts[f].currency, accounts[t].currency, rate) + skew
  IN /\ FreeIds(TransferIds, DOMAIN transfers) # {}
     /\ MayTransfer(Book, f, t, amount)
     /\ skew \in -Epsilon .. Epsilon
     /\ RoomForPair(entries)
     /\ Commit(Transferred(Book, x, f, t, amount, target))

\* Mutant: the check comes before the old entries are taken back.
UpdateTransferCheckedFirst(x, f, t, amount, rate, skew) ==
  LET undone == Unwound(Book, x)
      target == Converted(amount, accounts[f].currency, accounts[t].currency, rate) + skew
  IN /\ x \in DOMAIN transfers
     /\ MayTransfer(Book, f, t, amount)
     /\ skew \in -Epsilon .. Epsilon
     /\ RoomForPair(undone.entries)
     /\ Commit(Transferred(undone, x, f, t, amount, target))

\* Takes the old pair of entries back first, then checks and writes the new.
UpdateTransfer(x, f, t, amount, rate, skew) ==
  LET undone == Unwound(Book, x)
      target == Converted(amount, accounts[f].currency, accounts[t].currency, rate) + skew
  IN /\ x \in DOMAIN transfers
     /\ {transfers[x].from, transfers[x].to} \subseteq DOMAIN accounts
     /\ MayTransfer(undone, f, t, amount)
     /\ skew \in -Epsilon .. Epsilon
     /\ RoomForPair(undone.entries)
     /\ Commit(Transferred(undone, x, f, t, amount, target))

DeleteTransfer(x) ==
  LET undone == Unwound(Book, x)
  IN /\ x \in DOMAIN transfers
     /\ Commit(LedgerBook(undone.accounts, undone.entries,
                          Without(transfers, {x}), settlements))

AccountStep ==
  \/ \E currency \in Currencies, proceeds \in ProceedsFlags, b \in StartBalances :
       CreateAccount(currency, proceeds, b)
  \/ \E a \in AccountIds, currency \in Currencies, proceeds \in ProceedsFlags, b \in StartBalances :
       UpdateAccount(a, currency, proceeds, b)
  \/ \E a \in AccountIds : DeleteAccount(a)

AdjustmentStep ==
  \/ \E a \in AccountIds, amount \in AdjustmentAmounts : CreateAdjustment(a, amount)
  \/ \E e \in entries, amount \in AdjustmentAmounts : UpdateAdjustment(e, amount)
  \/ \E e \in entries : DeleteAdjustment(e)

TransferStep ==
  \/ \E f, t \in AccountIds, amount \in TransferAmounts, rate \in FxRates, skew \in TargetSkews :
       CreateTransfer(f, t, amount, rate, skew)
  \/ \E x \in TransferIds, f, t \in AccountIds,
        amount \in TransferAmounts, rate \in FxRates, skew \in TargetSkews :
       UpdateTransfer(x, f, t, amount, rate, skew)
  \/ \E x \in TransferIds : DeleteTransfer(x)

Next == AccountStep \/ AdjustmentStep \/ TransferStep

Spec == Init /\ [][Next]_ledgerVars

-----------------------------------------------------------------------------
(***************************************************************************)
(* Properties.  The schema declares no foreign keys, so every reference    *)
(* between the four tables is kept by the handlers alone.                  *)
(***************************************************************************)

\* The tables hold live ids, known entry types and well-formed references.
TypeOK ==
  /\ DOMAIN accounts \subseteq AccountIds
  /\ \A a \in DOMAIN accounts : /\ accounts[a].currency \in Currencies
                                /\ accounts[a].proceeds \in BOOLEAN
  /\ \A e \in entries : /\ e.type \in EntryTypes
                         /\ e.trade \in TradeIds \cup {NoRef}
                         /\ e.transfer \in TransferIds \cup {NoRef}
  /\ DOMAIN transfers \subseteq TransferIds
  /\ DOMAIN settlements \subseteq TradeIds

\* The stored balance of every account is the sum of its ledger entries, after
\* any sequence of edits, moves, cascades and reversals
\* (_sync_cash_account_balance_from_ledger must run for every account touched).
BalanceIsLedgerSum ==
  \A a \in DOMAIN accounts :
    accounts[a].balance = LedgerSum(EntriesOf(entries, a))

\* Every entry belongs to a live account, so deleting an account leaves none
\* of its own entries behind and no handler posts to a deleted account.
EntriesHaveAccounts ==
  \A e \in entries : e.account \in DOMAIN accounts

\* A transfer is backed by exactly one withdrawal from its source and one
\* deposit into its target for its recorded amounts, and no entry outlives
\* the transfer that wrote it.
TransfersPaired ==
  /\ \A x \in DOMAIN transfers :
       \E out, in \in entries :
         /\ {e \in entries : e.transfer = x} = {out, in}
         /\ out.type = "TRANSFER_OUT" /\ in.type = "TRANSFER_IN"
         /\ out.account = transfers[x].from /\ in.account = transfers[x].to
         /\ out.amount = -transfers[x].source /\ in.amount = transfers[x].target
  /\ \A e \in entries : e.transfer # NoRef => e.transfer \in DOMAIN transfers

\* A settlement is backed by exactly one ledger entry, in the account it
\* names and for the amount it names, as an income or an expense.
SettlementsBacked ==
  \A t \in DOMAIN settlements :
    \E p \in entries :
      /\ {e \in entries : e.trade = t} = {p}
      /\ p.account = settlements[t].account
      /\ \/ /\ settlements[t].inflow
            /\ p.type = "SELL_PROCEEDS" /\ p.amount = settlements[t].amount
         \/ /\ ~settlements[t].inflow
            /\ p.type = "BUY_FUNDING" /\ p.amount = -settlements[t].amount

\* Adding up an account's entries is meaningful: all of them are in the
\* account's currency, and money only ever moves into CNY accounts.  The 409
\* of update_account on accounts with activity is what keeps this true.
CurrencyCoherent ==
  /\ \A e \in entries : e.currency = accounts[e.account].currency
  /\ \A x \in DOMAIN transfers : accounts[transfers[x].to].currency = CNY

\* Each account has exactly one initial entry, the one that update_account
\* reconciles; a second one would make typed balances drift.
OneInitialEntry ==
  \A a \in DOMAIN accounts :
    \E e \in entries : InitialEntries(entries, a) = {e}

\* The rows of the ledger are where the code that sums them expects them:
\* on live accounts, in their currency, one opening entry each.
EntriesPlaced == EntriesHaveAccounts /\ CurrencyCoherent /\ OneInitialEntry

\* Writing or rewriting a transfer never leaves its source account overdrawn
\* by more than the one quantum of tolerance, whatever the old transfer did.
WithdrawalsCovered ==
  [][\A x \in DOMAIN transfers' :
       (x \notin DOMAIN transfers \/ transfers'[x] # transfers[x])
         => accounts'[transfers'[x].from].balance >= -Epsilon]_ledgerVars

\* After update_account the balance is the one the user typed, whatever other
\* entries the account has; that is what the initial entry is reconciled for.
BalanceAsTyped ==
  [][\A a \in AccountIds, currency \in Currencies, proceeds \in ProceedsFlags, b \in StartBalances :
       UpdateAccount(a, currency, proceeds, b) => accounts'[a].balance = b]_ledgerVars
=============================================================================
