-------------------------- MODULE Portfolio_proofs --------------------------
(***************************************************************************)
(* The invariants of CashLedger, then those of Portfolio, and that audits  *)
(* tell the trades (AssetRecords), for every value of the constants.       *)
(*                                                                         *)
(* The ledger: the balance of every account is re-derived whenever its     *)
(* entries change, and each handler touches the entries it should.  That a *)
(* sum does not depend on the order of its rows, and how one row changes   *)
(* it, comes first.                                                        *)
(*                                                                         *)
(* The trades: the lemmas on books carry over to the trade handlers: what  *)
(* they settle, take back and settle again leaves a sound book, the trades *)
(* left in the tables replay, and no entry of theirs is forgotten.         *)
(*                                                                         *)
(* The records: what the fold over the audits learns changes with each     *)
(* audit as the trades change with the handler that writes it.             *)
(***************************************************************************)
EXTENDS AssetRecords, FiniteSetTheorems, TLAPS

(***************************************************************************)
(* Sums over the ledger.  LedgerSum picks the rows in some order; that the *)
(* order does not matter is shown by looking for the smallest set of rows  *)
(* for which it would.                                                     *)
(***************************************************************************)
Picked(E) == CHOOSE e \in E : TRUE

SumsOver(f, E) ==
  f = [S \in SUBSET E |->
         IF S = {} THEN 0 ELSE Picked(S).amount + f[S \ {Picked(S)}]]

\* A non-empty family of finite sets has a member with no smaller one in it.
LEMMA SmallestSet ==
  ASSUME NEW E, IsFiniteSet(E), NEW F, F \subseteq SUBSET E, F # {}
  PROVE  \E S \in F : \A R \in F : R \subseteq S => R = S
<1>1. IsWellFoundedOn(StrictSubsetOrdering(E), SUBSET E)
  BY FS_StrictSubsetOrderingWellFounded, FS_FiniteSubsetsOfFinite
<1>2. PICK S \in F : \A R \in F : <<R, S>> \notin StrictSubsetOrdering(E)
  BY <1>1, WFMin
<1> QED
  BY <1>2 DEF StrictSubsetOrdering

\* Two ways of adding up agree where both are defined.
LEMMA SumsAgree ==
  ASSUME NEW D, NEW E, IsFiniteSet(E), NEW f, NEW g, SumsOver(f, D), SumsOver(g, E),
         NEW S \in SUBSET E, S \subseteq D
  PROVE  f[S] = g[S]
<1> DEFINE F == {R \in SUBSET E : R \subseteq D /\ f[R] # g[R]}
<1>1. SUFFICES ASSUME F # {} PROVE FALSE
  OBVIOUS
<1>2. PICK R \in F : \A Q \in F : Q \subseteq R => Q = R
  <2>1. F \subseteq SUBSET E
    OBVIOUS
  <2> HIDE DEF F
  <2> QED
    BY <1>1, <2>1, SmallestSet
<1>3. /\ f[R] = IF R = {} THEN 0 ELSE Picked(R).amount + f[R \ {Picked(R)}]
      /\ g[R] = IF R = {} THEN 0 ELSE Picked(R).amount + g[R \ {Picked(R)}]
  BY DEF SumsOver
<1>4. R # {} => Picked(R) \in R
  BY DEF Picked
<1>5. R # {} => f[R \ {Picked(R)}] = g[R \ {Picked(R)}]
  BY <1>2, <1>4
<1> QED
  BY <1>3, <1>5

\* LedgerSum is such a way, if there is one.
LEMMA SumOfChoice ==
  ASSUME NEW E
  PROVE  LedgerSum(E) = (CHOOSE f : SumsOver(f, E))[E]
BY DEF LedgerSum, MapThenSumSet, MapThenFoldSet, SumsOver, Picked

\* A sum that exists for all smaller sets unfolds by one row.
LEMMA SumUnfolds ==
  ASSUME NEW E, IsFiniteSet(E), NEW f, SumsOver(f, E), E # {},
         NEW g, SumsOver(g, E \ {Picked(E)})
  PROVE  LedgerSum(E) = Picked(E).amount + LedgerSum(E \ {Picked(E)})
<1> DEFINE rest == E \ {Picked(E)}
           F(S) == CHOOSE h : SumsOver(h, S)
<1>1. SumsOver(F(E), E) /\ SumsOver(F(rest), rest)
  OBVIOUS
<1>2. LedgerSum(E) = F(E)[E] /\ LedgerSum(rest) = F(rest)[rest]
  BY SumOfChoice
<1>3. IsFiniteSet(rest) /\ rest \in SUBSET rest /\ rest \subseteq E
  BY FS_Subset
<1>4. F(E)[E] = Picked(E).amount + F(E)[rest]
  BY <1>1 DEF SumsOver
<1>5. F(E)[rest] = F(rest)[rest]
  <2> HIDE DEF F, rest
  <2> QED
    BY <1>1, <1>3, SumsAgree
<1> QED
  BY <1>2, <1>4, <1>5

\* Every finite set of rows can be added up.
LEMMA SumsExist ==
  ASSUME NEW E, IsFiniteSet(E)
  PROVE  \E f : SumsOver(f, E)
<1> DEFINE F == {S \in SUBSET E : ~ \E f : SumsOver(f, S)}
<1>1. SUFFICES ASSUME F # {} PROVE FALSE
  OBVIOUS
<1>2. PICK S \in F : \A R \in F : R \subseteq S => R = S
  <2>1. F \subseteq SUBSET E
    OBVIOUS
  <2> HIDE DEF F
  <2> QED
    BY <1>1, <2>1, SmallestSet
<1> DEFINE Rest(R) == R \ {Picked(R)}
           g == [R \in SUBSET S |->
                   IF R = {} THEN 0 ELSE Picked(R).amount + LedgerSum(Rest(R))]
<1>3. \A R \in SUBSET S : R # S => IsFiniteSet(R) /\ \E f : SumsOver(f, R)
  BY <1>2, FS_Subset
<1>4. \A R \in SUBSET S : R # {} => Rest(R) \in SUBSET S /\ Rest(R) # S
  BY DEF Picked
<1>5. LedgerSum({}) = 0
  <2>1. SumsOver([R \in SUBSET {} |-> 0], {})
    BY DEF SumsOver
  <2> DEFINE f == CHOOSE h : SumsOver(h, {})
  <2>2. SumsOver(f, {})
    BY <2>1
  <2>3. f[{}] = 0
    BY <2>2 DEF SumsOver
  <2> QED
    BY <2>3, SumOfChoice
<1>6. ASSUME NEW R \in SUBSET S, R # S
      PROVE  LedgerSum(R) = g[R]
  <2>1. CASE R = {}
    BY <1>5, <2>1
  <2>2. CASE R # {}
    <3>1. /\ IsFiniteSet(R) /\ \E f : SumsOver(f, R)
          /\ \E f : SumsOver(f, Rest(R))
      BY <1>3, <1>4, <1>6, <2>2
    <3>2. LedgerSum(R) = Picked(R).amount + LedgerSum(Rest(R))
      BY <2>2, <3>1, SumUnfolds
    <3> QED
      BY <2>2, <3>2
  <2> QED
    BY <2>1, <2>2
<1>7. SumsOver(g, S)
  <2>1. \A R \in SUBSET S : R # {} => LedgerSum(Rest(R)) = g[Rest(R)]
    BY <1>4, <1>6
  <2> SUFFICES g = [R \in SUBSET S |-> IF R = {} THEN 0 ELSE Picked(R).amount + g[Rest(R)]]
    BY DEF SumsOver
  <2>2. \A R \in SUBSET S :
          g[R] = IF R = {} THEN 0 ELSE Picked(R).amount + g[Rest(R)]
    BY <2>1
  <2>3. g = [R \in SUBSET S |-> g[R]]
    OBVIOUS
  <2> HIDE DEF g, Rest
  <2> QED
    BY <2>2, <2>3
<1> QED
  BY <1>2, <1>7

\* The sum of no rows, and of some.
LEMMA SumOfRows ==
  /\ LedgerSum({}) = 0
  /\ \A E : IsFiniteSet(E) /\ E # {} =>
       LedgerSum(E) = Picked(E).amount + LedgerSum(E \ {Picked(E)})
<1>1. LedgerSum({}) = 0
  <2> DEFINE f == CHOOSE h : SumsOver(h, {})
  <2>1. SumsOver(f, {})
    BY SumsExist, FS_EmptySet
  <2>2. f[{}] = 0
    BY <2>1 DEF SumsOver
  <2> QED
    BY <2>2, SumOfChoice
<1>2. ASSUME NEW E, IsFiniteSet(E), E # {}
      PROVE  LedgerSum(E) = Picked(E).amount + LedgerSum(E \ {Picked(E)})
  <2>1. IsFiniteSet(E \ {Picked(E)})
    BY <1>2, FS_Subset
  <2> QED
    BY <1>2, <2>1, SumsExist, SumUnfolds
<1> QED
  BY <1>1, <1>2

Amounts(E) == IsFiniteSet(E) /\ \A e \in E : e.amount \in Int

\* Integer amounts add up to an integer.
LEMMA SumIsInt ==
  ASSUME NEW E, Amounts(E)
  PROVE  LedgerSum(E) \in Int
<1> DEFINE F == {S \in SUBSET E : LedgerSum(S) \notin Int}
<1>1. SUFFICES ASSUME F # {} PROVE FALSE
  OBVIOUS
<1>2. PICK S \in F : \A R \in F : R \subseteq S => R = S
  <2>1. F \subseteq SUBSET E
    OBVIOUS
  <2> HIDE DEF F
  <2> QED
    BY <1>1, <2>1, SmallestSet DEF Amounts
<1>3. S # {} /\ IsFiniteSet(S)
  <2>1. S # {}
    BY SumOfRows
  <2>2. S \in SUBSET E
    OBVIOUS
  <2> QED
    BY <2>1, <2>2, FS_Subset DEF Amounts
<1>4. Picked(S) \in S
  BY <1>3 DEF Picked
<1>5. LedgerSum(S \ {Picked(S)}) \in Int
  BY <1>2, <1>4
<1>6. Picked(S).amount \in Int
  BY <1>4 DEF Amounts
<1> QED
  BY <1>3, <1>5, <1>6, SumOfRows

\* One row counts once, whichever it is.
LEMMA SumWithout ==
  ASSUME NEW E, Amounts(E), NEW row \in E
  PROVE  LedgerSum(E) = LedgerSum(E \ {row}) + row.amount
<1> DEFINE CountsOnce(S, e) == LedgerSum(S) = LedgerSum(S \ {e}) + e.amount
           F == {S \in SUBSET E : \E e \in S : ~CountsOnce(S, e)}
<1>1. SUFFICES ASSUME F # {} PROVE FALSE
  OBVIOUS
<1>2. PICK S \in F : \A R \in F : R \subseteq S => R = S
  <2>1. F \subseteq SUBSET E
    OBVIOUS
  <2> HIDE DEF F
  <2> QED
    BY <1>1, <2>1, SmallestSet DEF Amounts
<1>3. PICK e \in S : ~CountsOnce(S, e)
  OBVIOUS
<1> DEFINE d == Picked(S)
<1>4. d \in S
  BY <1>3 DEF Picked
<1>5. ASSUME NEW R \in SUBSET S
      PROVE  Amounts(R) /\ LedgerSum(R) \in Int
  <2>1. R \in SUBSET E
    OBVIOUS
  <2>2. Amounts(R)
    BY <2>1, FS_Subset DEF Amounts
  <2> QED
    BY <2>2, SumIsInt
<1>6. d.amount \in Int /\ e.amount \in Int
  BY <1>4 DEF Amounts
<1>7. CountsOnce(S, d)
  <2>1. LedgerSum(S) = d.amount + LedgerSum(S \ {d})
    BY <1>3, <1>5, SumOfRows DEF Amounts
  <2>2. LedgerSum(S \ {d}) \in Int
    BY <1>5
  <2> HIDE DEF d
  <2> QED
    BY <1>6, <2>1, <2>2
<1>8. d # e
  BY <1>3, <1>7
<1>9. \A R \in SUBSET S : R # S => \A x \in R : CountsOnce(R, x)
  <2>1. \A R \in SUBSET S : R # S => R \notin F
    BY <1>2
  <2>2. SUBSET S \subseteq SUBSET E
    OBVIOUS
  <2> HIDE DEF CountsOnce
  <2> QED
    BY <2>1, <2>2
<1> HIDE DEF d, F
<1>10. CountsOnce(S \ {d}, e) /\ CountsOnce(S \ {e}, d)
  <2> HIDE DEF CountsOnce
  <2> QED
    BY <1>4, <1>8, <1>9
<1>11. (S \ {d}) \ {e} = (S \ {e}) \ {d}
  OBVIOUS
<1> DEFINE rest == LedgerSum((S \ {e}) \ {d})
<1>12. LedgerSum(S \ {d}) = rest + e.amount /\ LedgerSum(S \ {e}) = rest + d.amount
  BY <1>10, <1>11
<1>13. rest \in Int
  BY <1>5
<1> HIDE DEF rest
<1>14. LedgerSum(S) = LedgerSum(S \ {d}) + d.amount
  BY <1>7
<1> QED
  BY <1>3, <1>6, <1>12, <1>13, <1>14

(***************************************************************************)
(* The helpers on books.  Posting leaves exactly one more entry e, in      *)
(* account a, and re-derives the balance of a alone.                       *)
(***************************************************************************)
IsEntry(e, a, type, amount, currency, trade, transfer) ==
  /\ e.account = a
  /\ e.type = type
  /\ e.amount = amount
  /\ e.currency = currency
  /\ e.trade = trade
  /\ e.transfer = transfer

\* The row _create_cash_ledger_entry makes has the columns it is given.
LEMMA EntryFields ==
  ASSUME NEW E, NEW a, NEW type, NEW amount, NEW currency, NEW trade, NEW transfer
  PROVE  IsEntry(Entry(E, a, type, amount, currency, trade, transfer),
                 a, type, amount, currency, trade, transfer)
BY DEF Entry, IsEntry

SameColumns(A, B) ==
  /\ DOMAIN A = DOMAIN B
  /\ \A x \in DOMAIN A : A[x].currency = B[x].currency /\ A[x].proceeds = B[x].proceeds

\* _sync_cash_account_balance_from_ledger changes nothing but balances, and
\* those only of the accounts it is called for.
LEMMA SyncedAccounts ==
  ASSUME NEW A, NEW E, NEW T
  PROVE  /\ SameColumns(Synced(A, E, T), A)
         /\ \A x \in DOMAIN A :
              /\ x \in T => Synced(A, E, T)[x].balance = LedgerSum(EntriesOf(E, x))
              /\ x \notin T => Synced(A, E, T)[x] = A[x]
BY DEF Synced, SameColumns, AccountRow

\* What posting one entry does to each table of a book.
LEMMA PostedBook ==
  ASSUME NEW B, NEW a, NEW type, NEW amount, NEW trade, NEW transfer
  PROVE  LET P == Posted(B, a, type, amount, trade, transfer)
         IN /\ SameColumns(P.accounts, B.accounts)
            /\ \A x \in DOMAIN B.accounts :
                 /\ x = a => P.accounts[x].balance = LedgerSum(EntriesOf(P.entries, x))
                 /\ x # a => P.accounts[x] = B.accounts[x]
            /\ \E e : /\ IsEntry(e, a, type, amount, B.accounts[a].currency, trade, transfer)
                      /\ P.entries = B.entries \cup {e}
            /\ P.transfers = B.transfers
            /\ P.settlements = B.settlements
<1> DEFINE e == Entry(B.entries, a, type, amount, B.accounts[a].currency, trade, transfer)
           E == B.entries \cup {e}
<1>1. IsEntry(e, a, type, amount, B.accounts[a].currency, trade, transfer)
  BY EntryFields
<1>2. Posted(B, a, type, amount, trade, transfer)
        = LedgerBook(Synced(B.accounts, E, {a}), E, B.transfers, B.settlements)
  BY DEF Posted
<1> HIDE DEF e, E
<1>3. E = B.entries \cup {e}
  BY DEF E
<1>4. /\ SameColumns(Synced(B.accounts, E, {a}), B.accounts)
      /\ \A x \in DOMAIN B.accounts :
           /\ x \in {a} => Synced(B.accounts, E, {a})[x].balance = LedgerSum(EntriesOf(E, x))
           /\ x \notin {a} => Synced(B.accounts, E, {a})[x] = B.accounts[x]
  BY SyncedAccounts
<1> QED
  BY <1>1, <1>2, <1>3, <1>4 DEF LedgerBook

(***************************************************************************)
(* The invariants of CashLedger, stated of a book.  None is inductive by   *)
(* itself: a balance that is not re-derived is still right only because    *)
(* the deleted entries belong to the transfer's two accounts (Paired) or   *)
(* to the settlement's account (Backed), and a deleted transfer takes no   *)
(* settlement's entry with it because the two use different entry types.   *)
(***************************************************************************)
Typed(B) ==
  /\ DOMAIN B.accounts \subseteq AccountIds
  /\ \A a \in DOMAIN B.accounts : /\ B.accounts[a].currency \in Currencies
                                  /\ B.accounts[a].proceeds \in BOOLEAN
  /\ \A e \in B.entries : /\ e.type \in EntryTypes
                           /\ e.trade \in TradeIds \cup {NoRef}
                           /\ e.transfer \in TransferIds \cup {NoRef}
  /\ DOMAIN B.transfers \subseteq TransferIds
  /\ DOMAIN B.settlements \subseteq TradeIds

Balanced(B) ==
  \A a \in DOMAIN B.accounts :
    B.accounts[a].balance = LedgerSum(EntriesOf(B.entries, a))

Owned(B) == \A e \in B.entries : e.account \in DOMAIN B.accounts

IsPair(B, x, out, in) ==
  /\ {e \in B.entries : e.transfer = x} = {out, in}
  /\ out.type = "TRANSFER_OUT" /\ in.type = "TRANSFER_IN"
  /\ out.account = B.transfers[x].from /\ in.account = B.transfers[x].to
  /\ out.amount = -B.transfers[x].source /\ in.amount = B.transfers[x].target

Paired(B) ==
  /\ \A x \in DOMAIN B.transfers : \E out, in \in B.entries : IsPair(B, x, out, in)
  /\ \A e \in B.entries : e.transfer # NoRef => e.transfer \in DOMAIN B.transfers

IsBacking(B, t, p) ==
  /\ {e \in B.entries : e.trade = t} = {p}
  /\ p.account = B.settlements[t].account
  /\ \/ /\ B.settlements[t].inflow
        /\ p.type = "SELL_PROCEEDS" /\ p.amount = B.settlements[t].amount
     \/ /\ ~B.settlements[t].inflow
        /\ p.type = "BUY_FUNDING" /\ p.amount = -B.settlements[t].amount

Backed(B) == \A t \in DOMAIN B.settlements : \E p \in B.entries : IsBacking(B, t, p)

Coherent(B) ==
  /\ \A e \in B.entries : e.currency = B.accounts[e.account].currency
  /\ \A x \in DOMAIN B.transfers : B.accounts[B.transfers[x].to].currency = CNY

Initialised(B) ==
  \A a \in DOMAIN B.accounts : \E e \in B.entries : InitialEntries(B.entries, a) = {e}

Sound(B) ==
  /\ Typed(B) /\ Balanced(B) /\ Owned(B) /\ Paired(B)
  /\ Backed(B) /\ Coherent(B) /\ Initialised(B)

\* Soundness of the book in the tables is the conjunction of the state
\* invariants of CashLedger.
LEMMA BookOfState ==
  Sound(Book) <=> /\ TypeOK /\ BalanceIsLedgerSum /\ EntriesHaveAccounts
                  /\ TransfersPaired /\ SettlementsBacked
                  /\ CurrencyCoherent /\ OneInitialEntry
<1>1. Typed(Book) <=> TypeOK
  BY DEF Typed, TypeOK, Book, LedgerBook
<1>2. Balanced(Book) <=> BalanceIsLedgerSum
  BY DEF Balanced, BalanceIsLedgerSum, Book, LedgerBook
<1>3. Owned(Book) <=> EntriesHaveAccounts
  BY DEF Owned, EntriesHaveAccounts, Book, LedgerBook
<1>4. Paired(Book) <=> TransfersPaired
  BY DEF Paired, IsPair, TransfersPaired, Book, LedgerBook
<1>5. Backed(Book) <=> SettlementsBacked
  BY DEF Backed, IsBacking, SettlementsBacked, Book, LedgerBook
<1>6. Coherent(Book) <=> CurrencyCoherent
  BY DEF Coherent, CurrencyCoherent, Book, LedgerBook
<1>7. Initialised(Book) <=> OneInitialEntry
  BY DEF Initialised, OneInitialEntry, Book, LedgerBook
<1> QED
  BY <1>1, <1>2, <1>3, <1>4, <1>5, <1>6, <1>7 DEF Sound

\* A manual adjustment belongs to no transfer and no trade.
LEMMA AdjustmentSound ==
  ASSUME NEW B, NEW a \in DOMAIN B.accounts, NEW amount, Sound(B)
  PROVE  Sound(Posted(B, a, "MANUAL_ADJUSTMENT", amount, NoRef, NoRef))
<1> DEFINE P == Posted(B, a, "MANUAL_ADJUSTMENT", amount, NoRef, NoRef)
<1>1. /\ SameColumns(P.accounts, B.accounts)
      /\ \A x \in DOMAIN B.accounts :
           /\ x = a => P.accounts[x].balance = LedgerSum(EntriesOf(P.entries, x))
           /\ x # a => P.accounts[x] = B.accounts[x]
      /\ \E e : /\ IsEntry(e, a, "MANUAL_ADJUSTMENT", amount, B.accounts[a].currency, NoRef, NoRef)
                /\ P.entries = B.entries \cup {e}
      /\ P.transfers = B.transfers
      /\ P.settlements = B.settlements
  BY PostedBook
<1> HIDE DEF P
<1>2. PICK e : /\ IsEntry(e, a, "MANUAL_ADJUSTMENT", amount, B.accounts[a].currency, NoRef, NoRef)
               /\ P.entries = B.entries \cup {e}
  BY <1>1
<1>3. Typed(P)
  BY <1>1, <1>2 DEF Sound, Typed, SameColumns, IsEntry, EntryTypes
<1>4. Balanced(P)
  <2>1. \A x : x # a => EntriesOf(P.entries, x) = EntriesOf(B.entries, x)
    BY <1>2 DEF EntriesOf, IsEntry
  <2> QED
    BY <1>1, <2>1 DEF Sound, Balanced, SameColumns
<1>5. Owned(P)
  BY <1>1, <1>2 DEF Sound, Owned, SameColumns, IsEntry
<1>6. Paired(P)
  BY <1>1, <1>2, LedgerConstants DEF Sound, Paired, IsPair, IsEntry, Typed
<1>7. Backed(P)
  BY <1>1, <1>2, LedgerConstants DEF Sound, Backed, IsBacking, IsEntry, Typed
<1>8. Coherent(P)
  BY <1>1, <1>2 DEF Sound, Coherent, IsEntry, SameColumns, Owned, Paired, IsPair
<1>9. Initialised(P)
  BY <1>1, <1>2 DEF Sound, Initialised, InitialEntries, EntriesOf, IsEntry, SameColumns
<1> QED
  BY <1>3, <1>4, <1>5, <1>6, <1>7, <1>8, <1>9 DEF Sound, P

\* A removed or rewritten adjustment: only account a loses or gains an entry,
\* one with no transfer, no trade and of another type than INITIAL_BALANCE.
LEMMA AdjustmentReplaced ==
  ASSUME NEW B, NEW old \in B.entries, NEW new, NEW E, Sound(B),
         old.type = "MANUAL_ADJUSTMENT", old.trade = NoRef, old.transfer = NoRef,
         \/ E = B.entries \ {old}
         \/ /\ E = (B.entries \ {old}) \cup {new}
            /\ new.account = old.account /\ new.type = old.type
            /\ new.trade = NoRef /\ new.transfer = NoRef
            /\ new.currency = B.accounts[old.account].currency
  PROVE  Sound(LedgerBook(Synced(B.accounts, E, {old.account}), E, B.transfers, B.settlements))
<1> DEFINE A == Synced(B.accounts, E, {old.account})
           P == LedgerBook(A, E, B.transfers, B.settlements)
<1>1. /\ SameColumns(A, B.accounts)
      /\ \A x \in DOMAIN B.accounts :
           /\ x = old.account => A[x].balance = LedgerSum(EntriesOf(E, x))
           /\ x # old.account => A[x] = B.accounts[x]
  BY SyncedAccounts
<1>2. P.accounts = A /\ P.entries = E /\ P.transfers = B.transfers /\ P.settlements = B.settlements
  BY DEF LedgerBook
<1> HIDE DEF A, P
<1>3. Typed(P)
  BY <1>1, <1>2 DEF Sound, Typed, SameColumns
<1>4. Balanced(P)
  <2>1. \A x : x # old.account => EntriesOf(E, x) = EntriesOf(B.entries, x)
    BY DEF EntriesOf
  <2> QED
    BY <1>1, <1>2, <2>1 DEF Sound, Balanced, SameColumns
<1>5. Owned(P)
  BY <1>1, <1>2 DEF Sound, Owned, SameColumns
<1>6. Paired(P)
  BY <1>1, <1>2, LedgerConstants DEF Sound, Paired, IsPair, Typed
<1>7. Backed(P)
  BY <1>1, <1>2, LedgerConstants DEF Sound, Backed, IsBacking, Typed
<1>8. Coherent(P)
  BY <1>1, <1>2 DEF Sound, Coherent, SameColumns, Owned, Paired, IsPair
<1>9. Initialised(P)
  BY <1>1, <1>2 DEF Sound, Initialised, InitialEntries, EntriesOf, SameColumns
<1> QED
  BY <1>3, <1>4, <1>5, <1>6, <1>7, <1>8, <1>9 DEF Sound, P, A

\* An account that is created, or rewritten with another currency, has no
\* entries besides the initial one, so the entries stay in its currency.
LEMMA OpenedSound ==
  ASSUME NEW B, NEW a \in AccountIds, NEW currency \in Currencies,
         NEW proceeds \in BOOLEAN, NEW b, Sound(B),
         a \in DOMAIN B.accounts /\ NonInitialEntries(B.entries, a) # {}
           => currency = B.accounts[a].currency
  PROVE  /\ Sound(Opened(B, a, currency, proceeds, b))
         /\ Opened(B, a, currency, proceeds, b).transfers = B.transfers
         /\ Opened(B, a, currency, proceeds, b).settlements = B.settlements
         /\ DOMAIN Opened(B, a, currency, proceeds, b).accounts = DOMAIN B.accounts \cup {a}
         /\ NonInitialEntries(Opened(B, a, currency, proceeds, b).entries, a)
              = NonInitialEntries(B.entries, a)
         /\ Opened(B, a, currency, proceeds, b).accounts[a].currency = currency
<1> DEFINE A == [x \in DOMAIN B.accounts \cup {a} |->
                   IF x = a THEN AccountRow(currency, proceeds, 0) ELSE B.accounts[x]]
           kept == B.entries \ InitialEntries(B.entries, a)
           needed == b - LedgerSum(NonInitialEntries(B.entries, a))
           K == LedgerBook(A, kept, B.transfers, B.settlements)
           P == Posted(K, a, "INITIAL_BALANCE", needed, NoRef, NoRef)
<1>1. P = Opened(B, a, currency, proceeds, b)
  BY DEF Opened, Reconciled, LedgerBook
<1>2. /\ DOMAIN A = DOMAIN B.accounts \cup {a}
      /\ A[a].currency = currency /\ A[a].proceeds = proceeds
      /\ \A x \in DOMAIN B.accounts : x # a => A[x] = B.accounts[x]
  BY DEF AccountRow
<1>3. K.accounts = A /\ K.entries = kept /\ K.transfers = B.transfers /\ K.settlements = B.settlements
  BY DEF LedgerBook
<1>4. \A e : e \in kept <=> e \in B.entries /\ ~(e.account = a /\ e.type = "INITIAL_BALANCE")
  BY DEF InitialEntries, EntriesOf
<1> HIDE DEF K, kept, A, needed
<1>5. /\ SameColumns(P.accounts, K.accounts)
      /\ \A x \in DOMAIN K.accounts :
           /\ x = a => P.accounts[x].balance = LedgerSum(EntriesOf(P.entries, x))
           /\ x # a => P.accounts[x] = K.accounts[x]
      /\ \E e : /\ IsEntry(e, a, "INITIAL_BALANCE", needed, K.accounts[a].currency, NoRef, NoRef)
                /\ P.entries = K.entries \cup {e}
      /\ P.transfers = K.transfers
      /\ P.settlements = K.settlements
  BY PostedBook
<1> HIDE DEF P
<1>6. PICK e : /\ IsEntry(e, a, "INITIAL_BALANCE", needed, currency, NoRef, NoRef)
               /\ P.entries = kept \cup {e}
  BY <1>2, <1>3, <1>5
<1>7. /\ DOMAIN P.accounts = DOMAIN B.accounts \cup {a}
      /\ P.accounts[a].currency = currency /\ P.accounts[a].proceeds = proceeds
      /\ P.accounts[a].balance = LedgerSum(EntriesOf(P.entries, a))
      /\ \A x \in DOMAIN B.accounts : x # a => P.accounts[x] = B.accounts[x]
      /\ P.transfers = B.transfers
      /\ P.settlements = B.settlements
  BY <1>2, <1>3, <1>5 DEF SameColumns
<1>8. Typed(P)
  BY <1>4, <1>6, <1>7 DEF Sound, Typed, IsEntry, EntryTypes
<1>9. Balanced(P)
  <2>1. \A x : x # a => EntriesOf(P.entries, x) = EntriesOf(B.entries, x)
    BY <1>4, <1>6 DEF EntriesOf, IsEntry
  <2> QED
    BY <1>7, <2>1 DEF Sound, Balanced
<1>10. Owned(P)
  BY <1>4, <1>6, <1>7 DEF Sound, Owned, IsEntry
<1>11. Paired(P)
  BY <1>4, <1>6, <1>7, LedgerConstants DEF Sound, Paired, IsPair, IsEntry, Typed
<1>12. Backed(P)
  BY <1>4, <1>6, <1>7, LedgerConstants DEF Sound, Backed, IsBacking, IsEntry, Typed
<1>13. Coherent(P)
  <2>1. \A x \in kept : x.account = a => currency = B.accounts[a].currency
    BY <1>4 DEF NonInitialEntries, InitialEntries, EntriesOf, Sound, Owned
  <2>2. \A x \in P.entries : x.currency = P.accounts[x.account].currency
    BY <1>4, <1>6, <1>7, <2>1 DEF Sound, Coherent, Owned, IsEntry
  <2>3. \A x \in DOMAIN B.transfers : \E in \in kept : in.account = B.transfers[x].to
    BY <1>4 DEF Sound, Paired, IsPair
  <2>4. \A x \in DOMAIN P.transfers : P.accounts[P.transfers[x].to].currency = CNY
    BY <1>4, <1>7, <2>1, <2>3 DEF Sound, Coherent, Owned
  <2> QED
    BY <2>2, <2>4 DEF Coherent
<1>14. Initialised(P)
  <2>1. InitialEntries(P.entries, a) = {e}
    BY <1>4, <1>6 DEF InitialEntries, EntriesOf, IsEntry
  <2>2. \A x : x # a => InitialEntries(P.entries, x) = InitialEntries(B.entries, x)
    BY <1>4, <1>6 DEF InitialEntries, EntriesOf, IsEntry
  <2>3. ASSUME NEW x \in DOMAIN B.accounts, x # a
        PROVE  \E i \in P.entries : InitialEntries(P.entries, x) = {i}
    <3>1. PICK i \in B.entries : InitialEntries(B.entries, x) = {i}
      BY DEF Sound, Initialised
    <3>2. i \in P.entries
      BY <2>2, <2>3, <3>1 DEF InitialEntries, EntriesOf
    <3> QED
      BY <2>2, <2>3, <3>1, <3>2
  <2> QED
    BY <1>6, <1>7, <2>1, <2>3 DEF Initialised
<1>15. NonInitialEntries(P.entries, a) = NonInitialEntries(B.entries, a)
  BY <1>4, <1>6 DEF NonInitialEntries, InitialEntries, EntriesOf, IsEntry
<1> QED
  BY <1>1, <1>7, <1>8, <1>9, <1>10, <1>11, <1>12, <1>13, <1>14, <1>15 DEF Sound

\* Deleting rows keeps the other rows of a table as they are.
LEMMA WithoutDomain ==
  ASSUME NEW f, NEW S
  PROVE  /\ DOMAIN Without(f, S) = DOMAIN f \ S
         /\ \A x \in DOMAIN f \ S : Without(f, S)[x] = f[x]
BY DEF Without

\* Taking the entries of transfer x back, and its row with them, disturbs only
\* the two accounts whose balances are re-derived.
LEMMA UnwoundSound ==
  ASSUME NEW B, NEW x \in DOMAIN B.transfers, Sound(B)
  PROVE  /\ Sound(LedgerBook(Unwound(B, x).accounts, Unwound(B, x).entries,
                             Without(B.transfers, {x}), B.settlements))
         /\ SameColumns(Unwound(B, x).accounts, B.accounts)
         /\ Unwound(B, x).transfers = B.transfers
         /\ Unwound(B, x).settlements = B.settlements
<1> DEFINE E == {e \in B.entries : e.transfer # x}
           T == {B.transfers[x].from, B.transfers[x].to}
           A == Synced(B.accounts, E, T)
           X == Without(B.transfers, {x})
           P == LedgerBook(A, E, X, B.settlements)
<1>1. Unwound(B, x) = LedgerBook(A, E, B.transfers, B.settlements)
  BY DEF Unwound
<1>2. /\ SameColumns(A, B.accounts)
      /\ \A y \in DOMAIN B.accounts :
           /\ y \in T => A[y].balance = LedgerSum(EntriesOf(E, y))
           /\ y \notin T => A[y] = B.accounts[y]
  BY SyncedAccounts
<1>3. DOMAIN X = DOMAIN B.transfers \ {x} /\ \A y \in DOMAIN X : X[y] = B.transfers[y]
  BY DEF Without
<1>4. P.accounts = A /\ P.entries = E /\ P.transfers = X /\ P.settlements = B.settlements
  BY DEF LedgerBook
<1> HIDE DEF A, X, P
<1>5. PICK out, in \in B.entries : IsPair(B, x, out, in)
  BY DEF Sound, Paired
<1>6. \A e \in B.entries : e.transfer = x =>
        /\ e \in {out, in} /\ e.account \in T
        /\ e.type \in {"TRANSFER_OUT", "TRANSFER_IN"}
  BY <1>5 DEF IsPair
<1>7. Typed(P)
  BY <1>2, <1>3, <1>4 DEF Sound, Typed, SameColumns
<1>8. Balanced(P)
  <2>1. \A y : y \notin T => EntriesOf(E, y) = EntriesOf(B.entries, y)
    BY <1>6 DEF EntriesOf
  <2> QED
    BY <1>2, <1>4, <2>1 DEF Sound, Balanced, SameColumns
<1>9. Owned(P)
  BY <1>2, <1>4 DEF Sound, Owned, SameColumns
<1>10. Paired(P)
  BY <1>3, <1>4 DEF Sound, Paired, IsPair
<1>11. Backed(P)
  BY <1>4, <1>6 DEF Sound, Backed, IsBacking
<1>12. Coherent(P)
  BY <1>2, <1>3, <1>4 DEF Sound, Coherent, SameColumns, Owned, Paired, IsPair
<1>13. Initialised(P)
  BY <1>2, <1>4, <1>6 DEF Sound, Initialised, InitialEntries, EntriesOf, SameColumns
<1>14. Sound(P)
  BY <1>7, <1>8, <1>9, <1>10, <1>11, <1>12, <1>13 DEF Sound
<1> QED
  BY <1>1, <1>2, <1>14 DEF LedgerBook, P, X

\* A transfer row that has no entries yet gets exactly its two.
LEMMA TransferredSound ==
  ASSUME NEW B, NEW x \in TransferIds, NEW f \in DOMAIN B.accounts,
         NEW t \in DOMAIN B.accounts, NEW source, NEW target,
         B.accounts[t].currency = CNY,
         x \notin DOMAIN B.transfers, Sound(B)
  PROVE  Sound(Transferred(B, x, f, t, source, target))
<1> DEFINE row == [from |-> f, to |-> t, source |-> source, target |-> target]
           X == [y \in DOMAIN B.transfers \cup {x} |-> IF y = x THEN row ELSE B.transfers[y]]
           W == LedgerBook(B.accounts, B.entries, X, B.settlements)
           Q == Posted(W, f, "TRANSFER_OUT", -source, NoRef, x)
           P == Posted(Q, t, "TRANSFER_IN", target, NoRef, x)
<1>1. P = Transferred(B, x, f, t, source, target)
  BY DEF Transferred
<1>2. /\ DOMAIN X = DOMAIN B.transfers \cup {x}
      /\ X[x].from = f /\ X[x].to = t /\ X[x].source = source /\ X[x].target = target
      /\ \A y \in DOMAIN B.transfers : y # x => X[y] = B.transfers[y]
  OBVIOUS
<1>3. /\ W.accounts = B.accounts /\ W.entries = B.entries
      /\ W.transfers = X /\ W.settlements = B.settlements
  BY DEF LedgerBook
<1> HIDE DEF X, W
<1>4. /\ SameColumns(Q.accounts, W.accounts)
      /\ \A y \in DOMAIN W.accounts :
           /\ y = f => Q.accounts[y].balance = LedgerSum(EntriesOf(Q.entries, y))
           /\ y # f => Q.accounts[y] = W.accounts[y]
      /\ \E e : /\ IsEntry(e, f, "TRANSFER_OUT", -source, W.accounts[f].currency, NoRef, x)
                /\ Q.entries = W.entries \cup {e}
      /\ Q.transfers = W.transfers
      /\ Q.settlements = W.settlements
  BY PostedBook
<1> HIDE DEF Q
<1>5. /\ SameColumns(P.accounts, Q.accounts)
      /\ \A y \in DOMAIN Q.accounts :
           /\ y = t => P.accounts[y].balance = LedgerSum(EntriesOf(P.entries, y))
           /\ y # t => P.accounts[y] = Q.accounts[y]
      /\ \E e : /\ IsEntry(e, t, "TRANSFER_IN", target, Q.accounts[t].currency, NoRef, x)
                /\ P.entries = Q.entries \cup {e}
      /\ P.transfers = Q.transfers
      /\ P.settlements = Q.settlements
  BY PostedBook
<1> HIDE DEF P
<1>6. PICK out : /\ IsEntry(out, f, "TRANSFER_OUT", -source, B.accounts[f].currency, NoRef, x)
                 /\ Q.entries = B.entries \cup {out}
  BY <1>3, <1>4
<1>7. PICK in : /\ IsEntry(in, t, "TRANSFER_IN", target, B.accounts[t].currency, NoRef, x)
                /\ P.entries = B.entries \cup {out, in}
  <2>1. Q.accounts[t].currency = B.accounts[t].currency
    BY <1>3, <1>4 DEF SameColumns
  <2> QED
    BY <1>5, <1>6, <2>1
<1>8. /\ SameColumns(P.accounts, B.accounts)
      /\ P.transfers = X
      /\ P.settlements = B.settlements
  BY <1>3, <1>4, <1>5 DEF SameColumns
<1>9. Typed(P)
  BY <1>2, <1>6, <1>7, <1>8 DEF Sound, Typed, SameColumns, IsEntry, EntryTypes
<1>10. Balanced(P)
  <2>1. \A y : y # f /\ y # t => EntriesOf(P.entries, y) = EntriesOf(B.entries, y)
    BY <1>6, <1>7 DEF EntriesOf, IsEntry
  <2>2. f # t => EntriesOf(P.entries, f) = EntriesOf(Q.entries, f)
    BY <1>6, <1>7 DEF EntriesOf, IsEntry
  <2>3. DOMAIN P.accounts = DOMAIN B.accounts
    BY <1>8 DEF SameColumns
  <2>4. P.accounts[t].balance = LedgerSum(EntriesOf(P.entries, t))
    BY <1>3, <1>4, <1>5 DEF SameColumns
  <2>5. f # t => P.accounts[f].balance = LedgerSum(EntriesOf(P.entries, f))
    BY <1>3, <1>4, <1>5, <2>2 DEF SameColumns
  <2>6. \A y \in DOMAIN B.accounts : y # f /\ y # t => P.accounts[y] = B.accounts[y]
    BY <1>3, <1>4, <1>5 DEF SameColumns
  <2> QED
    BY <2>1, <2>3, <2>4, <2>5, <2>6 DEF Sound, Balanced
<1>11. Owned(P)
  BY <1>6, <1>7, <1>8 DEF Sound, Owned, SameColumns, IsEntry
<1>12. Paired(P)
  <2>1. \A e \in B.entries : e.transfer # x
    BY LedgerConstants DEF Sound, Paired
  <2>2. IsPair(P, x, out, in)
    BY <1>2, <1>6, <1>7, <1>8, <2>1 DEF IsPair, IsEntry
  <2>3. \A y \in DOMAIN B.transfers : \A o, i \in B.entries :
          IsPair(B, y, o, i) => IsPair(P, y, o, i)
    BY <1>2, <1>6, <1>7, <1>8 DEF IsPair, IsEntry
  <2> QED
    BY <1>2, <1>6, <1>7, <1>8, <2>2, <2>3 DEF Sound, Paired, IsEntry
<1>13. Backed(P)
  BY <1>6, <1>7, <1>8, LedgerConstants DEF Sound, Backed, IsBacking, IsEntry, Typed
<1>14. Coherent(P)
  BY <1>2, <1>6, <1>7, <1>8 DEF Sound, Coherent, SameColumns, Owned, IsEntry, Paired, IsPair
<1>15. Initialised(P)
  BY <1>6, <1>7, <1>8 DEF Sound, Initialised, InitialEntries, EntriesOf, SameColumns, IsEntry
<1> QED
  BY <1>1, <1>9, <1>10, <1>11, <1>12, <1>13, <1>14, <1>15 DEF Sound

\* The cascade of delete_account.
LEMMA DeletedAccountSound ==
  ASSUME NEW B, NEW a \in DOMAIN B.accounts, NEW X, NEW S, NEW others, NEW E, Sound(B),
         X = {x \in DOMAIN B.transfers : a \in {B.transfers[x].from, B.transfers[x].to}},
         S = {t \in DOMAIN B.settlements : B.settlements[t].account = a},
         others = (UNION {{B.transfers[x].from, B.transfers[x].to} : x \in X}) \ {a},
         E = {e \in B.entries : e.transfer \notin X /\ e.trade \notin S}
  PROVE  Sound(LedgerBook(Without(Synced(B.accounts, E, others), {a}), E \ EntriesOf(E, a),
                          Without(B.transfers, X), Without(B.settlements, S)))
<1> DEFINE A == Synced(B.accounts, E, others)
           P == LedgerBook(Without(A, {a}), E \ EntriesOf(E, a),
                           Without(B.transfers, X), Without(B.settlements, S))
<1>1. /\ SameColumns(A, B.accounts)
      /\ \A y \in DOMAIN B.accounts :
           /\ y \in others => A[y].balance = LedgerSum(EntriesOf(E, y))
           /\ y \notin others => A[y] = B.accounts[y]
  BY ONLY SyncedAccounts
<1> HIDE DEF A
<1>2. /\ DOMAIN P.accounts = DOMAIN B.accounts \ {a}
      /\ \A y \in DOMAIN P.accounts : P.accounts[y] = A[y]
      /\ DOMAIN P.transfers = DOMAIN B.transfers \ X
      /\ \A x \in DOMAIN P.transfers : P.transfers[x] = B.transfers[x]
      /\ DOMAIN P.settlements = DOMAIN B.settlements \ S
      /\ \A t \in DOMAIN P.settlements : P.settlements[t] = B.settlements[t]
  BY <1>1 DEF LedgerBook, Without, SameColumns
<1>3. \A e : e \in P.entries <=> e \in E /\ e.account # a
  BY DEF LedgerBook, EntriesOf
<1> HIDE DEF P
<1>4. \A e \in B.entries : e.transfer \in X =>
        e.type \in {"TRANSFER_OUT", "TRANSFER_IN"} /\ e.account \in others \cup {a}
  <2> SUFFICES ASSUME NEW e \in B.entries, e.transfer \in X
               PROVE  e.type \in {"TRANSFER_OUT", "TRANSFER_IN"} /\ e.account \in others \cup {a}
    OBVIOUS
  <2>1. PICK out, in \in B.entries : IsPair(B, e.transfer, out, in)
    BY DEF Sound, Paired
  <2>2. e \in {out, in}
    BY <2>1 DEF IsPair
  <2>3. e.account \in {B.transfers[e.transfer].from, B.transfers[e.transfer].to}
    BY <2>1, <2>2 DEF IsPair
  <2>4. e.account \in others \cup {a}
    BY <2>3
  <2> QED
    BY <2>1, <2>2, <2>4 DEF IsPair
<1>5. \A e \in B.entries : e.trade \in S =>
        e.account = a /\ e.type \in {"SELL_PROCEEDS", "BUY_FUNDING"}
  BY DEF Sound, Backed, IsBacking
<1>6. Typed(P)
  BY <1>1, <1>2, <1>3 DEF Sound, Typed, SameColumns
<1>7. Balanced(P)
  <2>1. \A y : y # a => EntriesOf(P.entries, y) = EntriesOf(E, y)
    BY <1>3 DEF EntriesOf
  <2>2. \A y : y \notin others \cup {a} => EntriesOf(E, y) = EntriesOf(B.entries, y)
    BY <1>4, <1>5 DEF EntriesOf
  <2> QED
    BY <1>1, <1>2, <2>1, <2>2 DEF Sound, Balanced
<1>8. Owned(P)
  BY <1>2, <1>3 DEF Sound, Owned
<1>9. Paired(P)
  <2>1. ASSUME NEW x \in DOMAIN P.transfers
        PROVE  \E out, in \in P.entries : IsPair(P, x, out, in)
    <3>1. PICK out, in \in B.entries : IsPair(B, x, out, in)
      BY <1>2 DEF Sound, Paired
    <3>2. out.account # a /\ in.account # a
      BY <1>2, <3>1 DEF IsPair
    <3>3. out.transfer = x /\ in.transfer = x
      BY <3>1 DEF IsPair
    <3>4. out \in P.entries /\ in \in P.entries
      BY <1>2, <1>3, <1>5, <3>1, <3>2, <3>3 DEF IsPair
    <3> QED
      BY <1>2, <1>3, <3>1, <3>4 DEF IsPair
  <2>2. \A e \in P.entries : e.transfer # NoRef => e.transfer \in DOMAIN P.transfers
    BY <1>2, <1>3 DEF Sound, Paired
  <2> QED
    BY <2>1, <2>2 DEF Paired
<1>10. Backed(P)
  <2> SUFFICES ASSUME NEW t \in DOMAIN P.settlements
               PROVE  \E p \in P.entries : IsBacking(P, t, p)
    BY DEF Backed
  <2>1. PICK p \in B.entries : IsBacking(B, t, p)
    BY <1>2 DEF Sound, Backed
  <2>2. p.trade = t /\ p.account # a
    BY <1>2, <2>1 DEF IsBacking
  <2>3. p \in P.entries
    BY <1>2, <1>3, <1>4, <2>1, <2>2 DEF IsBacking
  <2> QED
    BY <1>2, <1>3, <2>1, <2>3 DEF IsBacking
<1>11. Coherent(P)
  <2>1. \A e \in P.entries : e.currency = P.accounts[e.account].currency
    BY <1>1, <1>2, <1>3 DEF Sound, Coherent, Owned, SameColumns
  <2>2. \A x \in DOMAIN B.transfers : B.transfers[x].to \in DOMAIN B.accounts
    BY DEF Sound, Paired, IsPair, Owned
  <2>3. \A x \in DOMAIN P.transfers : P.accounts[P.transfers[x].to].currency = CNY
    BY <1>1, <1>2, <2>2 DEF Sound, Coherent, SameColumns
  <2> QED
    BY <2>1, <2>3 DEF Coherent
<1>12. Initialised(P)
  <2> SUFFICES ASSUME NEW y \in DOMAIN P.accounts
               PROVE  \E e \in P.entries : InitialEntries(P.entries, y) = {e}
    BY DEF Initialised
  <2>1. PICK e \in B.entries : InitialEntries(B.entries, y) = {e}
    BY <1>2 DEF Sound, Initialised
  <2>2. InitialEntries(P.entries, y) = InitialEntries(B.entries, y)
    BY <1>2, <1>3, <1>4, <1>5 DEF InitialEntries, EntriesOf
  <2> QED
    BY <2>1, <2>2 DEF InitialEntries, EntriesOf
<1> QED
  BY <1>6, <1>7, <1>8, <1>9, <1>10, <1>11, <1>12 DEF Sound, P, A

-----------------------------------------------------------------------------
(***************************************************************************)
(* The handlers.                                                           *)
(***************************************************************************)
\* Soundness depends on the four tables only.
LEMMA SoundFields ==
  ASSUME NEW B
  PROVE  Sound(B) <=> Sound(LedgerBook(B.accounts, B.entries, B.transfers, B.settlements))
<1> DEFINE P == LedgerBook(B.accounts, B.entries, B.transfers, B.settlements)
<1>1. /\ P.accounts = B.accounts /\ P.entries = B.entries
      /\ P.transfers = B.transfers /\ P.settlements = B.settlements
  BY DEF LedgerBook
<1> HIDE DEF P
<1>2. (Typed(B) <=> Typed(P)) /\ (Balanced(B) <=> Balanced(P)) /\ (Owned(B) <=> Owned(P))
  BY <1>1 DEF Typed, Balanced, Owned
<1>3. (Paired(B) <=> Paired(P)) /\ (Backed(B) <=> Backed(P))
  BY <1>1 DEF Paired, IsPair, Backed, IsBacking
<1>4. (Coherent(B) <=> Coherent(P)) /\ (Initialised(B) <=> Initialised(P))
  BY <1>1 DEF Coherent, Initialised
<1> QED
  BY <1>2, <1>3, <1>4 DEF Sound, P

\* Committing a sound book leaves sound tables.
LEMMA CommitSound ==
  ASSUME NEW B, Sound(B), Commit(B)
  PROVE  Sound(Book)'
<1>1. Book' = LedgerBook(B.accounts, B.entries, B.transfers, B.settlements)
  BY DEF Book, Commit, LedgerBook
<1>2. Sound(Book')
  BY <1>1, SoundFields
<1> QED
  BY <1>2

\* Empty tables are sound.
LEMMA InitSound == Init => Sound(Book)
<1> SUFFICES ASSUME Init PROVE Sound(Book)
  OBVIOUS
<1>1. /\ DOMAIN Book.accounts = {} /\ Book.entries = {}
      /\ DOMAIN Book.transfers = {} /\ DOMAIN Book.settlements = {}
  BY DEF Init, Book, LedgerBook
<1> HIDE DEF Book
<1> QED
  BY <1>1 DEF Sound, Typed, Balanced, Owned, Paired, Backed, Coherent, Initialised

\* A fresh id is one that no live row has.
LEMMA FreshIdIsFree ==
  ASSUME NEW Ids, NEW used, FreeIds(Ids, used) # {}
  PROVE  FreshId(Ids, used) \in Ids \ used
BY DEF FreshId, FreeIds

\* The book of a state is its four tables.
LEMMA BookFields ==
  /\ Book.accounts = accounts /\ Book.entries = entries
  /\ Book.transfers = transfers /\ Book.settlements = settlements
BY DEF Book, LedgerBook

\* Creating, rewriting and deleting accounts keep the book sound.
LEMMA AccountStepSound ==
  ASSUME Sound(Book), AccountStep
  PROVE  Sound(Book)'
<1>1. ASSUME NEW currency \in Currencies, NEW proceeds \in ProceedsFlags, NEW b \in StartBalances,
             CreateAccount(currency, proceeds, b)
      PROVE  Sound(Book)'
  <2> DEFINE a == FreshId(AccountIds, DOMAIN accounts)
  <2>1. a \in AccountIds \ DOMAIN accounts
    BY <1>1, FreshIdIsFree DEF CreateAccount, RoomForAccount
  <2>2. proceeds \in BOOLEAN
    BY LedgerConstants
  <2> HIDE DEF a
  <2>3. Sound(Opened(Book, a, currency, proceeds, b))
    BY <2>1, <2>2, BookFields, OpenedSound
  <2>4. Commit(Opened(Book, a, currency, proceeds, b))
    BY <1>1 DEF CreateAccount, a
  <2> QED
    BY <2>3, <2>4, CommitSound
<1>2. ASSUME NEW a \in AccountIds, NEW currency \in Currencies, NEW proceeds \in ProceedsFlags,
             NEW b \in StartBalances, UpdateAccount(a, currency, proceeds, b)
      PROVE  Sound(Book)'
  <2>1. proceeds \in BOOLEAN
    BY LedgerConstants
  <2>2. NonInitialEntries(entries, a) # {} => currency = accounts[a].currency
    BY <1>2 DEF UpdateAccount
  <2>3. Sound(Opened(Book, a, currency, proceeds, b))
    BY <2>1, <2>2, BookFields, OpenedSound
  <2>4. Commit(Opened(Book, a, currency, proceeds, b))
    BY <1>2 DEF UpdateAccount
  <2> QED
    BY <2>3, <2>4, CommitSound
<1>3. ASSUME NEW a \in AccountIds, DeleteAccount(a)
      PROVE  Sound(Book)'
  <2> DEFINE X == {x \in DOMAIN transfers : a \in {transfers[x].from, transfers[x].to}}
             S == {t \in DOMAIN settlements : settlements[t].account = a}
             others == (UNION {{transfers[x].from, transfers[x].to} : x \in X}) \ {a}
             E == {e \in entries : e.transfer \notin X /\ e.trade \notin S}
             P == LedgerBook(Without(Synced(accounts, E, others), {a}), E \ EntriesOf(E, a),
                             Without(transfers, X), Without(settlements, S))
  <2>1. a \in DOMAIN accounts /\ Commit(P)
    BY <1>3 DEF DeleteAccount
  <2>2. /\ X = {x \in DOMAIN Book.transfers : a \in {Book.transfers[x].from, Book.transfers[x].to}}
        /\ S = {t \in DOMAIN Book.settlements : Book.settlements[t].account = a}
        /\ others = (UNION {{Book.transfers[x].from, Book.transfers[x].to} : x \in X}) \ {a}
        /\ E = {e \in Book.entries : e.transfer \notin X /\ e.trade \notin S}
    BY BookFields
  <2> HIDE DEF X, S, others, E
  <2>3. Sound(LedgerBook(Without(Synced(Book.accounts, E, others), {a}), E \ EntriesOf(E, a),
                         Without(Book.transfers, X), Without(Book.settlements, S)))
    <3>1. a \in DOMAIN Book.accounts
      BY <2>1, BookFields
    <3> HIDE DEF P
    <3> QED
      BY ONLY Sound(Book), <2>2, <3>1, DeletedAccountSound
  <2>4. Sound(P)
    BY <2>3, BookFields
  <2> HIDE DEF P
  <2> QED
    BY <2>1, <2>4, CommitSound
<1> QED
  BY <1>1, <1>2, <1>3 DEF AccountStep

\* Manual adjustments keep the book sound.
LEMMA AdjustmentStepSound ==
  ASSUME Sound(Book), AdjustmentStep
  PROVE  Sound(Book)'
<1>1. ASSUME NEW a \in AccountIds, NEW amount \in AdjustmentAmounts, CreateAdjustment(a, amount)
      PROVE  Sound(Book)'
  <2>1. /\ a \in DOMAIN Book.accounts
        /\ Commit(Posted(Book, a, "MANUAL_ADJUSTMENT", amount, NoRef, NoRef))
    BY <1>1, BookFields DEF CreateAdjustment
  <2>2. Sound(Posted(Book, a, "MANUAL_ADJUSTMENT", amount, NoRef, NoRef))
    BY <2>1, AdjustmentSound
  <2> QED
    BY <2>1, <2>2, CommitSound
<1>2. ASSUME NEW e \in entries, NEW amount \in AdjustmentAmounts, UpdateAdjustment(e, amount)
      PROVE  Sound(Book)'
  <2> DEFINE new == Entry(entries \ {e}, e.account, e.type, amount,
                          accounts[e.account].currency, e.trade, e.transfer)
             E == (entries \ {e}) \cup {new}
             P == LedgerBook(Synced(accounts, E, {e.account}), E, transfers, settlements)
  <2>1. IsEntry(new, e.account, e.type, amount, accounts[e.account].currency, e.trade, e.transfer)
    BY EntryFields
  <2>2. /\ e.type = "MANUAL_ADJUSTMENT" /\ e.trade = NoRef /\ e.transfer = NoRef
        /\ Commit(P)
    BY <1>2 DEF UpdateAdjustment, ManualAdjustments
  <2> HIDE DEF new
  <2>3. Sound(P)
    BY <2>1, <2>2, BookFields, AdjustmentReplaced DEF IsEntry
  <2> HIDE DEF P
  <2> QED
    BY <2>2, <2>3, CommitSound
<1>3. ASSUME NEW e \in entries, DeleteAdjustment(e)
      PROVE  Sound(Book)'
  <2> DEFINE E == entries \ {e}
             P == LedgerBook(Synced(accounts, E, {e.account}), E, transfers, settlements)
  <2>1. /\ e.type = "MANUAL_ADJUSTMENT" /\ e.trade = NoRef /\ e.transfer = NoRef
        /\ Commit(P)
    BY <1>3 DEF DeleteAdjustment, ManualAdjustments
  <2>2. Sound(P)
    BY <2>1, BookFields, AdjustmentReplaced
  <2> HIDE DEF P
  <2> QED
    BY <2>1, <2>2, CommitSound
<1> QED
  BY <1>1, <1>2, <1>3 DEF AdjustmentStep

\* Creating, rewriting and deleting transfers keep the book sound.
LEMMA TransferStepSound ==
  ASSUME Sound(Book), TransferStep
  PROVE  Sound(Book)'
<1>1. ASSUME NEW f \in AccountIds, NEW t \in AccountIds, NEW amount \in TransferAmounts,
             NEW rate \in FxRates, NEW skew \in TargetSkews,
             CreateTransfer(f, t, amount, rate, skew)
      PROVE  Sound(Book)'
  <2> DEFINE x == FreshId(TransferIds, DOMAIN transfers)
             target == Converted(amount, accounts[f].currency, accounts[t].currency, rate) + skew
             P == Transferred(Book, x, f, t, amount, target)
  <2>1. x \in TransferIds \ DOMAIN transfers
    BY <1>1, FreshIdIsFree DEF CreateTransfer
  <2>2. Commit(P) /\ MayTransfer(Book, f, t, amount)
    BY <1>1 DEF CreateTransfer
  <2> HIDE DEF x, target
  <2>3. Sound(P)
    BY <2>1, <2>2, BookFields, TransferredSound DEF MayTransfer
  <2> QED
    BY <2>2, <2>3, CommitSound
<1>2. ASSUME NEW x \in TransferIds, NEW f \in AccountIds, NEW t \in AccountIds,
             NEW amount \in TransferAmounts, NEW rate \in FxRates, NEW skew \in TargetSkews,
             UpdateTransfer(x, f, t, amount, rate, skew)
      PROVE  Sound(Book)'
  <2> DEFINE U == Unwound(Book, x)
             V == LedgerBook(U.accounts, U.entries, Without(transfers, {x}), settlements)
             target == Converted(amount, accounts[f].currency, accounts[t].currency, rate) + skew
             P == Transferred(U, x, f, t, amount, target)
             Q == Transferred(V, x, f, t, amount, target)
  <2>1. x \in DOMAIN transfers /\ MayTransfer(U, f, t, amount) /\ Commit(P)
    BY <1>2 DEF UpdateTransfer
  <2>2. Sound(V) /\ U.transfers = transfers /\ U.settlements = settlements
    BY <2>1, BookFields, UnwoundSound
  <2>3. /\ V.accounts = U.accounts /\ V.entries = U.entries /\ V.settlements = settlements
        /\ V.transfers = Without(transfers, {x})
    BY DEF LedgerBook
  <2> HIDE DEF U, V, target
  <2>4. DOMAIN V.transfers = DOMAIN transfers \ {x}
    BY <2>3, WithoutDomain
  <2>5. Sound(Q)
    BY <2>1, <2>2, <2>3, <2>4, TransferredSound DEF MayTransfer
  <2>6. P = Q
    <3> DEFINE row == [from |-> f, to |-> t, source |-> amount, target |-> target]
               XU == [y \in DOMAIN U.transfers \cup {x} |-> IF y = x THEN row ELSE U.transfers[y]]
               XV == [y \in DOMAIN V.transfers \cup {x} |-> IF y = x THEN row ELSE V.transfers[y]]
    <3>1. \A y \in DOMAIN transfers \ {x} : V.transfers[y] = transfers[y]
      BY <2>3 DEF Without
    <3>2. XU = XV
      BY <2>1, <2>2, <2>4, <3>1
    <3> HIDE DEF XU, XV
    <3>3. LedgerBook(U.accounts, U.entries, XU, U.settlements)
            = LedgerBook(V.accounts, V.entries, XV, V.settlements)
      BY <2>2, <2>3, <3>2
    <3> QED
      BY <3>3 DEF Transferred, XU, XV
  <2> HIDE DEF P, Q
  <2> QED
    BY <2>1, <2>5, <2>6, CommitSound
<1>3. ASSUME NEW x \in TransferIds, DeleteTransfer(x)
      PROVE  Sound(Book)'
  <2> DEFINE P == LedgerBook(Unwound(Book, x).accounts, Unwound(Book, x).entries,
                             Without(transfers, {x}), settlements)
  <2>1. x \in DOMAIN transfers /\ Commit(P)
    BY <1>3 DEF DeleteTransfer
  <2>2. Sound(P)
    BY <2>1, BookFields, UnwoundSound
  <2> HIDE DEF P
  <2> QED
    BY <2>1, <2>2, CommitSound
<1> QED
  BY <1>1, <1>2, <1>3 DEF TransferStep

\* Every request of the cash handlers keeps the book sound.
LEMMA NextSound == Sound(Book) /\ Next => Sound(Book)'
BY AccountStepSound, AdjustmentStepSound, TransferStepSound DEF Next

\* The inductive invariant: in every reachable state the four tables are a
\* sound book, whatever the sizes, amounts, rates and bounds.
THEOREM LedgerSound == Spec => []Sound(Book)
<1>1. Init => Sound(Book)
  BY InitSound
<1>2. Sound(Book) /\ [Next]_ledgerVars => Sound(Book)'
  <2>1. Sound(Book) /\ UNCHANGED ledgerVars => Sound(Book)'
    <3> SUFFICES ASSUME Sound(Book), UNCHANGED ledgerVars PROVE Sound(Book)'
      OBVIOUS
    <3>1. Book' = Book
      BY DEF Book, ledgerVars
    <3> QED
      BY <3>1
  <2> QED
    BY <2>1, NextSound
<1> QED
  BY <1>1, <1>2, PTL DEF Spec

\* Every table holds live ids and well-formed references.
THEOREM TypeCorrect == Spec => []TypeOK
<1>1. Sound(Book) => TypeOK
  BY BookOfState
<1> QED
  BY <1>1, LedgerSound, PTL

\* The stored balance of every account is the sum of its ledger entries, after
\* any number of handlers in any order.
THEOREM BalancesFollowLedger == Spec => []BalanceIsLedgerSum
<1>1. Sound(Book) => BalanceIsLedgerSum
  BY BookOfState
<1> QED
  BY <1>1, LedgerSound, PTL

\* Every transfer is backed by its two entries and by nothing else.
THEOREM TransfersStayPaired == Spec => []TransfersPaired
<1>1. Sound(Book) => TransfersPaired
  BY BookOfState
<1> QED
  BY <1>1, LedgerSound, PTL

\* No entry outlives its account, entries stay in their account's currency,
\* and every account keeps the one initial entry its balance is typed into.
THEOREM EntriesWellPlaced == Spec => []EntriesPlaced
<1>1. Sound(Book) => EntriesPlaced
  BY BookOfState DEF EntriesPlaced
<1> QED
  BY <1>1, LedgerSound, PTL

-----------------------------------------------------------------------------
(***************************************************************************)
(* Amounts.  The ledger stays a finite set of rows with integer amounts,   *)
(* so that a balance moves by exactly what a handler posts.                *)
(***************************************************************************)
\* Fewer rows are as good.
LEMMA FewerAmounts ==
  ASSUME NEW E, Amounts(E), NEW F, F \subseteq E
  PROVE  Amounts(F)
BY FS_Subset DEF Amounts

\* So is one more.
LEMMA MoreAmounts ==
  ASSUME NEW E, Amounts(E), NEW e, e.amount \in Int
  PROVE  Amounts(E \cup {e})
BY FS_AddElement DEF Amounts

\* While there is room in the ledger a new row differs from all others.
LEMMA FreshEntry ==
  ASSUME NEW E, IsFiniteSet(E), RoomForEntry(E),
         NEW a, NEW type, NEW amount, NEW currency, NEW trade, NEW transfer
  PROVE  Entry(E, a, type, amount, currency, trade, transfer) \notin E
<1> DEFINE row(n) == [copy |-> n, account |-> a, type |-> type, amount |-> amount,
                      currency |-> currency, trade |-> trade, transfer |-> transfer]
           copies == 1 .. MaxEntries
<1>1. SUFFICES ASSUME \A n \in copies : row(n) \in E PROVE FALSE
  BY DEF Entry
<1>2. \A m, n \in copies : row(m) = row(n) => m = n
  <2> SUFFICES ASSUME NEW m \in copies, NEW n \in copies, row(m) = row(n) PROVE m = n
    OBVIOUS
  <2> QED
    BY row(m).copy = m, row(n).copy = n
<1> DEFINE f == [n \in copies |-> row(n)]
<1>3. IsFiniteSet(copies) /\ Cardinality(copies) = MaxEntries
  BY FS_Interval, LedgerConstants
<1> HIDE DEF row, copies
<1>4. f \in [copies -> E]
  BY <1>1
<1>5. Cardinality(E) < Cardinality(copies)
  BY <1>3 DEF RoomForEntry
<1>6. PICK m, n \in copies : m # n /\ f[m] = f[n]
  <2> HIDE DEF f
  <2> QED
    BY <1>3, <1>4, <1>5, FS_PigeonHole
<1> QED
  BY <1>2, <1>6

\* A posted row adds its amount to the account's balance.
LEMMA PostedAmount ==
  ASSUME NEW B, Amounts(B.entries), NEW a, NEW type, NEW amount \in Int, NEW trade, NEW transfer
  PROVE  LET P == Posted(B, a, type, amount, trade, transfer)
         IN /\ Amounts(P.entries)
            /\ a \in DOMAIN B.accounts /\ RoomForEntry(B.entries)
                 => P.accounts[a].balance = LedgerSum(EntriesOf(B.entries, a)) + amount
<1> DEFINE e == Entry(B.entries, a, type, amount, B.accounts[a].currency, trade, transfer)
           E == B.entries \cup {e}
           P == Posted(B, a, type, amount, trade, transfer)
<1>1. P.entries = E /\ P.accounts = Synced(B.accounts, E, {a})
  BY DEF Posted, LedgerBook
<1>2. e.account = a /\ e.amount = amount
  BY EntryFields DEF IsEntry
<1>3. RoomForEntry(B.entries) => e \notin B.entries
  BY FreshEntry DEF Amounts
<1> HIDE DEF e, P
<1>4. Amounts(E)
  BY <1>2, MoreAmounts
<1>5. ASSUME a \in DOMAIN B.accounts, RoomForEntry(B.entries)
      PROVE  P.accounts[a].balance = LedgerSum(EntriesOf(B.entries, a)) + amount
  <2>1. P.accounts[a].balance = LedgerSum(EntriesOf(E, a))
    <3> HIDE DEF E
    <3> QED
      BY <1>1, <1>5, SyncedAccounts
  <2>2. EntriesOf(E, a) \ {e} = EntriesOf(B.entries, a) /\ e \in EntriesOf(E, a)
    BY <1>2, <1>3, <1>5 DEF EntriesOf
  <2>3. Amounts(EntriesOf(E, a))
    BY <1>4, FewerAmounts DEF EntriesOf
  <2> QED
    BY <1>2, <2>1, <2>2, <2>3, SumWithout
<1> QED
  BY <1>1, <1>4, <1>5 DEF P

\* An account that is opened or retyped has the balance asked for.
LEMMA OpenedAmount ==
  ASSUME NEW B, Amounts(B.entries), NEW a, NEW currency, NEW proceeds, NEW b \in Int
  PROVE  LET P == Opened(B, a, currency, proceeds, b)
         IN /\ Amounts(P.entries)
            /\ RoomForEntry(B.entries \ InitialEntries(B.entries, a)) => P.accounts[a].balance = b
<1> DEFINE A == [x \in DOMAIN B.accounts \cup {a} |->
                   IF x = a THEN AccountRow(currency, proceeds, 0) ELSE B.accounts[x]]
           kept == B.entries \ InitialEntries(B.entries, a)
           others == NonInitialEntries(B.entries, a)
           needed == b - LedgerSum(others)
           K == LedgerBook(A, kept, B.transfers, B.settlements)
           P == Posted(K, a, "INITIAL_BALANCE", needed, NoRef, NoRef)
<1>1. Opened(B, a, currency, proceeds, b) = P
  BY DEF Opened, Reconciled, LedgerBook
<1>2. a \in DOMAIN K.accounts /\ K.entries = kept
  BY DEF LedgerBook
<1>3. EntriesOf(kept, a) = others
  BY DEF NonInitialEntries, InitialEntries, EntriesOf
<1>4. Amounts(kept) /\ Amounts(others)
  BY FewerAmounts DEF NonInitialEntries, InitialEntries, EntriesOf
<1>5. LedgerSum(others) \in Int /\ needed \in Int
  BY <1>4, SumIsInt
<1> HIDE DEF K, kept, others
<1>6. /\ Amounts(P.entries)
      /\ RoomForEntry(kept) => P.accounts[a].balance = LedgerSum(others) + needed
  <2> HIDE DEF needed
  <2> QED
    BY <1>2, <1>3, <1>4, <1>5, PostedAmount
<1> QED
  BY <1>1, <1>5, <1>6 DEF kept

\* A transfer takes its amount out of its source.
LEMMA TransferredAmount ==
  ASSUME NEW B, Amounts(B.entries), NEW x, NEW f, NEW t, NEW source \in Int, NEW target \in Int
  PROVE  LET P == Transferred(B, x, f, t, source, target)
         IN /\ Amounts(P.entries)
            /\ {f, t} \subseteq DOMAIN B.accounts /\ f # t /\ RoomForPair(B.entries)
                 => P.accounts[f].balance = LedgerSum(EntriesOf(B.entries, f)) - source
<1> DEFINE X == [y \in DOMAIN B.transfers \cup {x} |->
                   IF y = x THEN [from |-> f, to |-> t, source |-> source, target |-> target]
                            ELSE B.transfers[y]]
           W == LedgerBook(B.accounts, B.entries, X, B.settlements)
           paid == Posted(W, f, "TRANSFER_OUT", -source, NoRef, x)
           P == Posted(paid, t, "TRANSFER_IN", target, NoRef, x)
<1>1. Transferred(B, x, f, t, source, target) = P
  BY DEF Transferred
<1>2. W.accounts = B.accounts /\ W.entries = B.entries
  BY DEF LedgerBook
<1> HIDE DEF W
<1>3. /\ Amounts(paid.entries)
      /\ f \in DOMAIN B.accounts /\ RoomForEntry(B.entries)
           => paid.accounts[f].balance = LedgerSum(EntriesOf(B.entries, f)) + -source
  BY <1>2, PostedAmount
<1>4. SameColumns(paid.accounts, B.accounts)
  BY <1>2, PostedBook
<1> HIDE DEF paid
<1>5. Amounts(P.entries)
  BY <1>3, PostedAmount
<1>6. f # t /\ f \in DOMAIN paid.accounts => P.accounts[f] = paid.accounts[f]
  BY PostedBook
<1> HIDE DEF P
<1>7. ASSUME {f, t} \subseteq DOMAIN B.accounts, f # t, RoomForPair(B.entries)
      PROVE  P.accounts[f].balance = LedgerSum(EntriesOf(B.entries, f)) - source
  <2>1. RoomForEntry(B.entries)
    BY <1>7, FS_CardinalityType, LedgerConstants DEF Amounts, RoomForPair, RoomForEntry
  <2>2. LedgerSum(EntriesOf(B.entries, f)) \in Int
    BY FewerAmounts, SumIsInt DEF EntriesOf
  <2> QED
    BY <1>3, <1>4, <1>6, <1>7, <2>1, <2>2 DEF SameColumns
<1> QED
  BY <1>1, <1>5, <1>7

\* Converting an integer amount gives one.
LEMMA ConvertedAmount ==
  ASSUME NEW amount \in Int, NEW from, NEW to, NEW rate \in Int
  PROVE  Converted(amount, from, to, rate) \in Int
BY DEF Converted

Countable == Sound(Book) /\ Amounts(entries)

\* Whatever is written, the amounts stay integers of finitely many rows.
LEMMA NextAmounts ==
  ASSUME Countable, Next
  PROVE  Amounts(entries')
<1>1. Amounts(entries) /\ Amounts(Book.entries)
  BY BookFields DEF Countable
<1>2. ASSUME NEW F, F \subseteq entries, entries' = F
      PROVE  Amounts(entries')
  BY <1>1, <1>2, FewerAmounts
<1>3. CASE AccountStep
  <2>1. ASSUME NEW a, NEW currency, NEW proceeds, NEW b \in StartBalances,
               Commit(Opened(Book, a, currency, proceeds, b))
        PROVE  Amounts(entries')
    <3>1. b \in Int
      BY LedgerConstants
    <3> QED
      BY <1>1, <2>1, <3>1, OpenedAmount DEF Commit
  <2>2. ASSUME NEW a \in AccountIds, DeleteAccount(a)
        PROVE  Amounts(entries')
    <3>1. entries' \subseteq entries
      BY <2>2 DEF DeleteAccount, Commit, LedgerBook, EntriesOf
    <3> QED
      BY <1>2, <3>1
  <2> QED
    BY <1>3, <2>1, <2>2 DEF AccountStep, CreateAccount, UpdateAccount
<1>4. CASE AdjustmentStep
  <2>1. ASSUME NEW a, NEW amount \in AdjustmentAmounts, CreateAdjustment(a, amount)
        PROVE  Amounts(entries')
    <3>1. amount \in Int
      BY LedgerConstants
    <3> QED
      BY <1>1, <2>1, <3>1, PostedAmount DEF CreateAdjustment, Commit
  <2>2. ASSUME NEW e \in entries, NEW amount \in AdjustmentAmounts, UpdateAdjustment(e, amount)
        PROVE  Amounts(entries')
    <3> DEFINE kept == entries \ {e}
               new == Entry(kept, e.account, e.type, amount,
                            accounts[e.account].currency, e.trade, e.transfer)
    <3>1. new.amount = amount /\ amount \in Int
      <4>1. IsEntry(new, e.account, e.type, amount, accounts[e.account].currency,
                    e.trade, e.transfer)
        BY EntryFields
      <4> HIDE DEF new
      <4> QED
        BY <4>1, LedgerConstants DEF IsEntry
    <3>2. entries' = kept \cup {new}
      <4> DEFINE E == kept \cup {new}
                 P == LedgerBook(Synced(accounts, E, {e.account}), E, transfers, settlements)
      <4>1. Commit(P)
        BY <2>2 DEF UpdateAdjustment
      <4> HIDE DEF E
      <4> QED
        BY <4>1 DEF Commit, LedgerBook, E
    <3>3. Amounts(kept)
      BY <1>1, FewerAmounts
    <3> HIDE DEF kept, new
    <3> QED
      BY <3>1, <3>2, <3>3, MoreAmounts
  <2>3. ASSUME NEW e \in entries, DeleteAdjustment(e)
        PROVE  Amounts(entries')
    <3>1. entries' \subseteq entries
      BY <2>3 DEF DeleteAdjustment, Commit, LedgerBook
    <3> QED
      BY <1>2, <3>1
  <2> QED
    BY <1>4, <2>1, <2>2, <2>3 DEF AdjustmentStep
<1>5. CASE TransferStep
  <2>1. ASSUME NEW B, B.entries \subseteq entries, NEW x, NEW f, NEW t, NEW amount \in TransferAmounts,
               NEW from, NEW to, NEW rate \in FxRates, NEW skew \in TargetSkews,
               Commit(Transferred(B, x, f, t, amount, Converted(amount, from, to, rate) + skew))
        PROVE  Amounts(entries')
    <3> DEFINE target == Converted(amount, from, to, rate) + skew
    <3>1. amount \in Int /\ rate \in Int /\ skew \in Int
      BY LedgerConstants
    <3>2. Converted(amount, from, to, rate) \in Int
      BY <3>1, ConvertedAmount
    <3>3. target \in Int
      BY <3>1, <3>2
    <3>4. Amounts(B.entries)
      BY <1>1, <2>1, FewerAmounts
    <3> HIDE DEF target
    <3>5. Amounts(Transferred(B, x, f, t, amount, target).entries)
      BY <3>1, <3>3, <3>4, TransferredAmount
    <3> QED
      BY <2>1, <3>5 DEF Commit, target
  <2>2. \A x : Unwound(Book, x).entries \subseteq entries
    BY BookFields DEF Unwound, LedgerBook
  <2>3. ASSUME NEW x \in TransferIds, DeleteTransfer(x)
        PROVE  Amounts(entries')
    <3>1. entries' \subseteq entries
      BY <2>2, <2>3 DEF DeleteTransfer, Commit, LedgerBook
    <3> QED
      BY <1>2, <3>1
  <2> QED
    BY <1>5, <2>1, <2>2, <2>3, BookFields DEF TransferStep, CreateTransfer, UpdateTransfer
<1> QED
  BY <1>3, <1>4, <1>5 DEF Next

\* The inductive invariant with the amounts.
THEOREM LedgerCounted == Spec => []Countable
<1>1. Init => Countable
  BY InitSound, FS_EmptySet DEF Init, Countable, Amounts
<1>2. Countable /\ [Next]_ledgerVars => Countable'
  <2> SUFFICES ASSUME Countable, [Next]_ledgerVars PROVE Countable'
    OBVIOUS
  <2>1. CASE Next
    BY <2>1, NextSound, NextAmounts DEF Countable
  <2>2. CASE UNCHANGED ledgerVars
    BY <2>2 DEF Countable, ledgerVars, Book, Amounts, Sound, Typed, Balanced, Owned, Paired,
                Backed, Coherent, Initialised
  <2> QED
    BY <2>1, <2>2
<1> QED
  BY <1>1, <1>2, PTL DEF Spec

\* update_account leaves the balance the user typed.
LEMMA TypedBalance ==
  ASSUME Countable, NEW a \in AccountIds, NEW currency \in Currencies,
         NEW proceeds \in ProceedsFlags, NEW b \in StartBalances,
         UpdateAccount(a, currency, proceeds, b)
  PROVE  accounts'[a].balance = b
<1>1. /\ RoomForEntry(Book.entries \ InitialEntries(Book.entries, a))
      /\ Commit(Opened(Book, a, currency, proceeds, b))
  BY BookFields DEF UpdateAccount
<1>2. Amounts(Book.entries) /\ b \in Int
  BY BookFields, LedgerConstants DEF Countable
<1>3. Opened(Book, a, currency, proceeds, b).accounts[a].balance = b
  BY <1>1, <1>2, OpenedAmount
<1> QED
  BY <1>1, <1>3 DEF Commit

\* A new or rewritten transfer is covered by its source.
Covered(x) ==
  (x \notin DOMAIN transfers \/ transfers'[x] # transfers[x])
    => accounts'[transfers'[x].from].balance >= -Epsilon

\* Writing a transfer checks the book that it is written to.
LEMMA TransferCovered ==
  ASSUME NEW B, Balanced(B), Amounts(B.entries), B.transfers = transfers,
         NEW x, NEW f, NEW t, NEW amount \in Int, NEW target \in Int,
         MayTransfer(B, f, t, amount), RoomForPair(B.entries),
         Commit(Transferred(B, x, f, t, amount, target))
  PROVE  \A y \in DOMAIN transfers' : Covered(y)
<1> DEFINE P == Transferred(B, x, f, t, amount, target)
<1>1. P.transfers = [y \in DOMAIN transfers \cup {x} |->
                       IF y = x THEN [from |-> f, to |-> t, source |-> amount, target |-> target]
                                ELSE transfers[y]]
  BY DEF Transferred, Posted, LedgerBook
<1>2. P.accounts[f].balance = LedgerSum(EntriesOf(B.entries, f)) - amount
  BY TransferredAmount DEF MayTransfer
<1>3. LedgerSum(EntriesOf(B.entries, f)) \in Int
  BY FewerAmounts, SumIsInt DEF EntriesOf
<1>4. LedgerSum(EntriesOf(B.entries, f)) + Epsilon >= amount
  BY DEF MayTransfer, Balanced
<1>5. P.accounts[f].balance >= -Epsilon
  <2> HIDE DEF P
  <2> QED
    BY <1>2, <1>3, <1>4 DEF Epsilon
<1>6. accounts' = P.accounts /\ transfers' = P.transfers
  BY DEF Commit
<1> HIDE DEF P
<1> QED
  BY <1>1, <1>5, <1>6 DEF Covered

\* No handler but those of transfers writes a transfer.
LEMMA NextCovered ==
  ASSUME Countable, Next
  PROVE  \A x \in DOMAIN transfers' : Covered(x)
<1>1. ASSUME \A x \in DOMAIN transfers' : x \in DOMAIN transfers /\ transfers'[x] = transfers[x]
      PROVE  \A x \in DOMAIN transfers' : Covered(x)
  BY <1>1 DEF Covered
<1>2. CASE AccountStep
  <2>1. ASSUME NEW a, NEW currency, NEW proceeds, NEW b,
               Commit(Opened(Book, a, currency, proceeds, b))
        PROVE  transfers' = transfers
    BY <2>1 DEF Commit, Opened, Reconciled, Posted, Book, LedgerBook
  <2>2. ASSUME NEW a \in AccountIds, DeleteAccount(a)
        PROVE  \A x \in DOMAIN transfers' : x \in DOMAIN transfers /\ transfers'[x] = transfers[x]
    BY <2>2 DEF DeleteAccount, Commit, LedgerBook, Without
  <2> QED
    BY <1>1, <1>2, <2>1, <2>2 DEF AccountStep, CreateAccount, UpdateAccount
<1>3. CASE AdjustmentStep
  <2>1. transfers' = transfers
    BY <1>3 DEF AdjustmentStep, CreateAdjustment, UpdateAdjustment, DeleteAdjustment,
                Commit, Posted, Book, LedgerBook
  <2> QED
    BY <1>1, <2>1
<1>4. CASE TransferStep
  <2>1. ASSUME NEW f \in AccountIds, NEW t \in AccountIds, NEW amount \in TransferAmounts,
               NEW rate \in FxRates, NEW skew \in TargetSkews,
               CreateTransfer(f, t, amount, rate, skew)
        PROVE  \A x \in DOMAIN transfers' : Covered(x)
    <3> DEFINE x == FreshId(TransferIds, DOMAIN transfers)
               target == Converted(amount, accounts[f].currency, accounts[t].currency, rate) + skew
    <3>1. /\ MayTransfer(Book, f, t, amount) /\ RoomForPair(entries)
          /\ Commit(Transferred(Book, x, f, t, amount, target))
      BY <2>1 DEF CreateTransfer
    <3>2. amount \in Int /\ rate \in Int /\ skew \in Int
      BY LedgerConstants
    <3>3. target \in Int
      BY <3>2, ConvertedAmount
    <3> HIDE DEF x, target
    <3>4. Balanced(Book) /\ Amounts(Book.entries) /\ Book.transfers = transfers
      BY BookFields DEF Countable, Sound
    <3> QED
      BY <3>1, <3>2, <3>3, <3>4, BookFields, TransferCovered
  <2>2. ASSUME NEW x \in TransferIds, NEW f \in AccountIds, NEW t \in AccountIds,
               NEW amount \in TransferAmounts, NEW rate \in FxRates, NEW skew \in TargetSkews,
               UpdateTransfer(x, f, t, amount, rate, skew)
        PROVE  \A y \in DOMAIN transfers' : Covered(y)
    <3> DEFINE U == Unwound(Book, x)
               V == LedgerBook(U.accounts, U.entries, Without(transfers, {x}), settlements)
               target == Converted(amount, accounts[f].currency, accounts[t].currency, rate) + skew
    <3>1. /\ x \in DOMAIN transfers /\ MayTransfer(U, f, t, amount) /\ RoomForPair(U.entries)
          /\ Commit(Transferred(U, x, f, t, amount, target))
      BY <2>2 DEF UpdateTransfer
    <3>2. amount \in Int /\ rate \in Int /\ skew \in Int
      BY LedgerConstants
    <3>3. target \in Int
      BY <3>2, ConvertedAmount
    <3>4. Sound(V) /\ U.transfers = transfers
      BY <3>1, BookFields, UnwoundSound DEF Countable
    <3>5. V.accounts = U.accounts /\ V.entries = U.entries
      BY DEF LedgerBook
    <3>6. U.entries \subseteq entries
      BY BookFields DEF Unwound, LedgerBook
    <3> HIDE DEF U, V, target
    <3>7. Balanced(U) /\ Amounts(U.entries)
      BY <3>4, <3>5, <3>6, FewerAmounts DEF Sound, Balanced, Countable
    <3> QED
      BY <3>1, <3>2, <3>3, <3>4, <3>7, TransferCovered
  <2>3. ASSUME NEW x \in TransferIds, DeleteTransfer(x)
        PROVE  \A y \in DOMAIN transfers' : Covered(y)
    <3>1. transfers' = Without(transfers, {x})
      BY <2>3 DEF DeleteTransfer, Commit, LedgerBook
    <3> QED
      BY <1>1, <3>1 DEF Without
  <2> QED
    BY <1>4, <2>1, <2>2, <2>3 DEF TransferStep
<1> QED
  BY <1>2, <1>3, <1>4 DEF Next

\* update_account ends with the balance that was typed, whatever else the
\* ledger holds.
THEOREM BalancesAsTyped == Spec => BalanceAsTyped
<1>1. Countable => [\A a \in AccountIds, currency \in Currencies, proceeds \in ProceedsFlags,
                    b \in StartBalances :
                    UpdateAccount(a, currency, proceeds, b)
                      => accounts'[a].balance = b]_ledgerVars
  BY TypedBalance
<1> QED
  BY <1>1, LedgerCounted, PTL DEF BalanceAsTyped

\* No transfer, new or rewritten, overdraws its source by more than the one
\* quantum of tolerance.
THEOREM WithdrawalsAreCovered == Spec => WithdrawalsCovered
<1>1. Countable /\ [Next]_ledgerVars
        => [\A x \in DOMAIN transfers' :
              (x \notin DOMAIN transfers \/ transfers'[x] # transfers[x])
                => accounts'[transfers'[x].from].balance >= -Epsilon]_ledgerVars
  BY NextCovered DEF Covered
<1> QED
  BY <1>1, LedgerCounted, PTL DEF Spec, WithdrawalsCovered

-----------------------------------------------------------------------------
(***************************************************************************)
(* Settling a trade and taking settlements back, as operations on books.   *)
(***************************************************************************)
\* Every settled trade of a sound book has its one entry, which opens no
\* account and belongs to no transfer.
LEMMA BackingEntries ==
  ASSUME NEW B, Sound(B), NEW e \in B.entries, e.trade \in DOMAIN B.settlements
  PROVE  /\ e.account = B.settlements[e.trade].account
         /\ e.type \in {"SELL_PROCEEDS", "BUY_FUNDING"}
         /\ e.transfer = NoRef
<1>1. PICK p \in B.entries : IsBacking(B, e.trade, p)
  BY DEF Sound, Backed
<1>2. e = p
  BY <1>1 DEF IsBacking
<1>3. e.account = B.settlements[e.trade].account /\ e.type \in {"SELL_PROCEEDS", "BUY_FUNDING"}
  BY <1>1, <1>2 DEF IsBacking
<1>4. e.transfer = NoRef
  <2> SUFFICES ASSUME e.transfer # NoRef PROVE FALSE
    OBVIOUS
  <2>1. PICK out, in \in B.entries : IsPair(B, e.transfer, out, in)
    BY DEF Sound, Paired
  <2>2. e \in {out, in}
    BY <2>1 DEF IsPair
  <2> QED
    BY <1>3, <2>1, <2>2 DEF IsPair
<1> QED
  BY <1>3, <1>4

\* _record_holding_transaction_cash_settlement of a trade that has neither a
\* settlement nor an entry.
LEMMA SettledSound ==
  ASSUME NEW B, NEW t, NEW a \in DOMAIN B.accounts, NEW amount, NEW inflow \in BOOLEAN, NEW auto,
         Sound(B), t.id \in TradeIds,
         t.id \notin DOMAIN B.settlements, \A e \in B.entries : e.trade # t.id
  PROVE  LET S == Settled(B, t, a, amount, inflow, auto)
         IN /\ Sound(S)
            /\ DOMAIN S.settlements = DOMAIN B.settlements \cup {t.id}
            /\ \A e \in S.entries : e \in B.entries \/ e.trade = t.id
<1> DEFINE type == IF inflow THEN "SELL_PROCEEDS" ELSE "BUY_FUNDING"
           sum == IF inflow THEN amount ELSE -amount
           Q == Posted(B, a, type, sum, t.id, NoRef)
           row == [account |-> a, amount |-> amount, inflow |-> inflow, auto |-> auto]
           P == Settled(B, t, a, amount, inflow, auto)
<1>1. /\ P.accounts = Q.accounts /\ P.entries = Q.entries /\ P.transfers = B.transfers
      /\ DOMAIN P.settlements = DOMAIN B.settlements \cup {t.id}
      /\ P.settlements[t.id] = row
      /\ \A u \in DOMAIN B.settlements : P.settlements[u] = B.settlements[u]
  BY DEF Settled, LedgerBook
<1> HIDE DEF P, type, sum, row
<1>2. /\ SameColumns(Q.accounts, B.accounts)
      /\ \A x \in DOMAIN B.accounts :
           /\ x = a => Q.accounts[x].balance = LedgerSum(EntriesOf(Q.entries, x))
           /\ x # a => Q.accounts[x] = B.accounts[x]
      /\ \E e : /\ IsEntry(e, a, type, sum, B.accounts[a].currency, t.id, NoRef)
                /\ Q.entries = B.entries \cup {e}
  BY PostedBook
<1> HIDE DEF Q
<1>3. PICK e : /\ IsEntry(e, a, type, sum, B.accounts[a].currency, t.id, NoRef)
               /\ P.entries = B.entries \cup {e}
  BY <1>1, <1>2
<1>4. Typed(P)
  BY <1>1, <1>2, <1>3 DEF Sound, Typed, SameColumns, IsEntry, EntryTypes, type
<1>5. Balanced(P)
  <2>1. \A x : x # a => EntriesOf(P.entries, x) = EntriesOf(B.entries, x)
    BY <1>3 DEF EntriesOf, IsEntry
  <2> QED
    BY <1>1, <1>2, <2>1 DEF Sound, Balanced, SameColumns
<1>6. Owned(P)
  BY <1>1, <1>2, <1>3 DEF Sound, Owned, SameColumns, IsEntry
<1>7. Paired(P)
  BY <1>1, <1>3, LedgerConstants DEF Sound, Paired, IsPair, IsEntry, Typed, type
<1>8. Backed(P)
  <2>1. IsBacking(P, t.id, e)
    BY <1>1, <1>3 DEF IsBacking, IsEntry, type, sum, row
  <2>2. ASSUME NEW u \in DOMAIN B.settlements
        PROVE  \E p \in P.entries : IsBacking(P, u, p)
    <3>1. PICK p \in B.entries : IsBacking(B, u, p)
      BY DEF Sound, Backed
    <3>2. u # t.id
      OBVIOUS
    <3> QED
      BY <1>1, <1>3, <3>1, <3>2 DEF IsBacking, IsEntry
  <2> QED
    BY <1>1, <1>3, <2>1, <2>2 DEF Backed
<1>9. Coherent(P)
  BY <1>1, <1>2, <1>3 DEF Sound, Coherent, IsEntry, SameColumns, Owned, Paired, IsPair
<1>10. Initialised(P)
  BY <1>1, <1>2, <1>3 DEF Sound, Initialised, InitialEntries, EntriesOf, IsEntry, SameColumns, type
<1>11. \A x \in P.entries : x \in B.entries \/ x.trade = t.id
  BY <1>3 DEF IsEntry
<1> QED
  BY <1>1, <1>4, <1>5, <1>6, <1>7, <1>8, <1>9, <1>10, <1>11 DEF Sound, P

\* _reverse_holding_transaction_cash_settlement of a set of settled trades.
\* An account it deletes is empty but for its opening entry, so no transfer
\* and no other settlement refers to it.
LEMMA ReversedSound ==
  ASSUME NEW B, NEW T, Sound(B), IdsOf(T) \subseteq DOMAIN B.settlements
  PROVE  LET R == Reversed(B, T)
         IN /\ Sound(R)
            /\ DOMAIN R.settlements = DOMAIN B.settlements \ IdsOf(T)
            /\ \A e \in R.entries : e \in B.entries /\ e.trade \notin IdsOf(T)
<1> DEFINE touched == {B.settlements[t].account : t \in IdsOf(T)}
           emptied == {B.settlements[t.id].account : t \in {u \in T : EmptiedBy(B, T, u)}}
           E == {e \in B.entries : e.trade \notin IdsOf(T) /\ e.account \notin emptied}
           A == Synced(B.accounts, E, touched)
           P == Reversed(B, T)
<1>1. /\ DOMAIN P.accounts = DOMAIN A \ emptied
      /\ \A x \in DOMAIN P.accounts : P.accounts[x] = A[x]
      /\ P.entries = E /\ P.transfers = B.transfers
      /\ DOMAIN P.settlements = DOMAIN B.settlements \ IdsOf(T)
      /\ \A t \in DOMAIN P.settlements : P.settlements[t] = B.settlements[t]
  BY DEF Reversed, LedgerBook, Without
<1>2. /\ SameColumns(A, B.accounts)
      /\ \A x \in DOMAIN B.accounts :
           /\ x \in touched => A[x].balance = LedgerSum(EntriesOf(E, x))
           /\ x \notin touched => A[x] = B.accounts[x]
  BY ONLY SyncedAccounts
<1> HIDE DEF P, A
<1>3. ASSUME NEW e \in B.entries, e.account \in emptied, e.trade \notin IdsOf(T)
      PROVE  e.type = "INITIAL_BALANCE"
  <2>1. PICK t \in T : EmptiedBy(B, T, t) /\ e.account = B.settlements[t.id].account
    BY <1>3
  <2>2. e.trade \notin ReversedBy(T, t)
    BY <1>3 DEF ReversedBy, IdsOf
  <2> QED
    BY <2>1, <2>2 DEF EmptiedBy, EntriesOf
<1>4. emptied \subseteq touched
  BY DEF IdsOf
<1>5. \A e \in B.entries : e.trade \in IdsOf(T) =>
        /\ e.account \in touched
        /\ e.type \in {"SELL_PROCEEDS", "BUY_FUNDING"}
        /\ e.transfer = NoRef
  BY BackingEntries
<1>6. \A e \in B.entries :
        e \in E <=> e.trade \notin IdsOf(T) /\ e.account \notin emptied
  OBVIOUS
<1> HIDE DEF touched, emptied, E
<1>6a. E \subseteq B.entries
  BY DEF E
<1>7. Typed(P)
  BY <1>1, <1>2, <1>6a DEF Sound, Typed, SameColumns
<1>8. Balanced(P)
  <2>1. \A x : x \notin touched => EntriesOf(E, x) = EntriesOf(B.entries, x)
    BY <1>4, <1>5, <1>6, <1>6a DEF EntriesOf
  <2> QED
    BY <1>1, <1>2, <2>1 DEF Sound, Balanced, SameColumns
<1>9. Owned(P)
  BY <1>1, <1>2, <1>6, <1>6a DEF Sound, Owned, SameColumns
<1>10. \A e \in B.entries : e.transfer # NoRef => e \in E
  <2> SUFFICES ASSUME NEW e \in B.entries, e.transfer # NoRef PROVE e \in E
    OBVIOUS
  <2>1. PICK out, in \in B.entries : IsPair(B, e.transfer, out, in)
    BY DEF Sound, Paired
  <2>2. e \in {out, in} /\ e.type # "INITIAL_BALANCE"
    BY <2>1 DEF IsPair
  <2> QED
    BY <1>3, <1>5, <1>6, <2>2
<1>11. Paired(P)
  <2>1. ASSUME NEW x \in DOMAIN P.transfers
        PROVE  \E out, in \in P.entries : IsPair(P, x, out, in)
    <3>1. x \in TransferIds /\ x # NoRef
      BY <1>1, LedgerConstants DEF Sound, Typed
    <3>2. PICK out, in \in B.entries : IsPair(B, x, out, in)
      BY <1>1 DEF Sound, Paired
    <3>3. {e \in P.entries : e.transfer = x} = {e \in B.entries : e.transfer = x}
      BY <1>1, <1>6a, <1>10, <3>1
    <3>4. out \in P.entries /\ in \in P.entries
      BY <3>2, <3>3 DEF IsPair
    <3> QED
      BY <1>1, <3>2, <3>3, <3>4 DEF IsPair
  <2>2. \A e \in P.entries : e.transfer # NoRef => e.transfer \in DOMAIN P.transfers
    BY <1>1, <1>6a DEF Sound, Paired
  <2> QED
    BY <2>1, <2>2 DEF Paired
<1>12. Backed(P)
  <2> SUFFICES ASSUME NEW t \in DOMAIN P.settlements
               PROVE  \E p \in P.entries : IsBacking(P, t, p)
    BY DEF Backed
  <2>1. PICK p \in B.entries : IsBacking(B, t, p)
    BY <1>1 DEF Sound, Backed
  <2>2. p.trade = t /\ p.type # "INITIAL_BALANCE"
    BY <2>1 DEF IsBacking
  <2>3. p \in E
    BY <1>1, <1>3, <1>6, <2>2
  <2> QED
    BY <1>1, <1>6a, <2>1, <2>3 DEF IsBacking
<1>13. Coherent(P)
  <2>1. \A e \in P.entries : e.currency = P.accounts[e.account].currency
    BY <1>1, <1>2, <1>6, <1>6a DEF Sound, Coherent, Owned, SameColumns
  <2>2. ASSUME NEW x \in DOMAIN P.transfers
        PROVE  P.accounts[P.transfers[x].to].currency = CNY
    <3>1. PICK out, in \in P.entries : IsPair(P, x, out, in)
      BY <1>11 DEF Paired
    <3>2. P.transfers[x].to \in DOMAIN P.accounts
      BY <1>9, <3>1 DEF Owned, IsPair
    <3> QED
      BY <1>1, <1>2, <3>2 DEF Sound, Coherent, SameColumns
  <2> QED
    BY <2>1, <2>2 DEF Coherent
<1>14. Initialised(P)
  <2> SUFFICES ASSUME NEW x \in DOMAIN P.accounts
               PROVE  \E e \in P.entries : InitialEntries(P.entries, x) = {e}
    BY DEF Initialised
  <2>1. x \in DOMAIN B.accounts /\ x \notin emptied
    BY <1>1, <1>2 DEF SameColumns
  <2>2. PICK e \in B.entries : InitialEntries(B.entries, x) = {e}
    BY <2>1 DEF Sound, Initialised
  <2>3. InitialEntries(P.entries, x) = InitialEntries(B.entries, x)
    BY <1>1, <1>5, <1>6, <1>6a, <2>1 DEF InitialEntries, EntriesOf
  <2> QED
    BY <2>2, <2>3 DEF InitialEntries, EntriesOf
<1>15. \A e \in P.entries : e \in B.entries /\ e.trade \notin IdsOf(T)
  BY <1>1, <1>6, <1>6a
<1> QED
  BY <1>1, <1>7, <1>8, <1>9, <1>11, <1>12, <1>13, <1>14, <1>15 DEF Sound, P

-----------------------------------------------------------------------------
(***************************************************************************)
(* What a trade handler may do to the book: only trade i gains or loses a  *)
(* settlement, and an entry of i is there only while i is settled.         *)
(***************************************************************************)
Tracks(B, P, i) ==
  /\ Sound(P)
  /\ DOMAIN P.settlements \ {i} = DOMAIN B.settlements \ {i}
  /\ \A e \in P.entries : e.trade = i => i \in DOMAIN P.settlements
  /\ \A e \in P.entries : e \in B.entries \/ e.trade \in {i, NoRef}

Clear(B, i) == i \notin DOMAIN B.settlements /\ \A e \in B.entries : e.trade # i

\* Settling a trade that is not settled yet.
LEMMA SettledTracks ==
  ASSUME NEW B, NEW U, NEW t, Tracks(B, U, t.id), Clear(U, t.id), t.id \in TradeIds,
         NEW a \in DOMAIN U.accounts, NEW amount, NEW inflow \in BOOLEAN, NEW auto
  PROVE  Tracks(B, Settled(U, t, a, amount, inflow, auto), t.id)
<1> DEFINE S == Settled(U, t, a, amount, inflow, auto)
<1>1. /\ Sound(S)
      /\ DOMAIN S.settlements = DOMAIN U.settlements \cup {t.id}
      /\ \A e \in S.entries : e \in U.entries \/ e.trade = t.id
  BY SettledSound DEF Tracks, Clear
<1> HIDE DEF S
<1> QED
  BY <1>1 DEF Tracks, S

\* An opened account brings one entry, of no trade, and no settlement.
LEMMA OpenedEntries ==
  ASSUME NEW B, NEW a, NEW currency, NEW proceeds, NEW b
  PROVE  /\ \A e \in Opened(B, a, currency, proceeds, b).entries :
              e \in B.entries \/ e.trade = NoRef
         /\ Opened(B, a, currency, proceeds, b).settlements = B.settlements
<1> DEFINE A == [x \in DOMAIN B.accounts \cup {a} |->
                   IF x = a THEN AccountRow(currency, proceeds, 0) ELSE B.accounts[x]]
           kept == B.entries \ InitialEntries(B.entries, a)
           needed == b - LedgerSum(NonInitialEntries(B.entries, a))
           K == LedgerBook(A, kept, B.transfers, B.settlements)
           P == Posted(K, a, "INITIAL_BALANCE", needed, NoRef, NoRef)
<1>1. P = Opened(B, a, currency, proceeds, b)
  BY DEF Opened, Reconciled, LedgerBook
<1>2. K.entries = kept /\ kept \subseteq B.entries /\ K.settlements = B.settlements
  BY DEF LedgerBook
<1> HIDE DEF K, kept, needed
<1>3. P.settlements = K.settlements
  BY PostedBook
<1>4. \E e : /\ IsEntry(e, a, "INITIAL_BALANCE", needed, K.accounts[a].currency, NoRef, NoRef)
             /\ P.entries = K.entries \cup {e}
  BY PostedBook
<1> HIDE DEF P
<1> QED
  BY <1>1, <1>2, <1>3, <1>4 DEF IsEntry

\* _apply_buy_funding_handling
LEMMA FundedTracks ==
  ASSUME NEW B, NEW U, NEW t, Tracks(B, U, t.id), Clear(U, t.id), t.id \in TradeIds,
         NEW a, NEW rate, MayFund(U, t, a, rate)
  PROVE  Tracks(B, Funded(U, t, a, rate), t.id)
<1>1. a \in DOMAIN U.accounts
  BY DEF MayFund
<1>2. Tracks(B, Settled(U, t, a, SettledAmount(U, t, a, rate), FALSE, FALSE), t.id)
  BY <1>1, SettledTracks
<1> QED
  BY <1>2 DEF Funded

\* _apply_sell_proceeds_handling
LEMMA CreditedTracks ==
  ASSUME NEW B, NEW U, NEW t, Tracks(B, U, t.id), Clear(U, t.id), t.id \in TradeIds,
         t.currency \in Currencies,
         NEW handling \in Handlings, NEW a, NEW rate, MayCredit(U, handling, a)
  PROVE  Tracks(B, Credited(U, t, handling, a, rate), t.id)
<1>1. CASE handling = "DISCARD"
  <2>1. Credited(U, t, handling, a, rate) = U
    BY <1>1 DEF Credited
  <2> QED
    BY <2>1
<1>2. CASE handling = "ADD_TO_EXISTING_CASH"
  <2>1. Credited(U, t, handling, a, rate)
          = Settled(U, t, a, SettledAmount(U, t, a, rate), TRUE, FALSE)
    BY <1>2 DEF Credited
  <2>2. a \in DOMAIN U.accounts
    BY <1>2 DEF MayCredit
  <2> QED
    BY <2>1, <2>2, SettledTracks
<1>3. CASE handling = "CREATE_NEW_CASH"
  <2> DEFINE x == FreshId(AccountIds, DOMAIN U.accounts)
             proceeds == TRUE
             V == Opened(U, x, t.currency, proceeds, 0)
  <2>1. x \in AccountIds \ DOMAIN U.accounts
    BY <1>3, FreshIdIsFree DEF MayCredit, RoomForAccount
  <2>2. Credited(U, t, handling, a, rate) = Settled(V, t, x, t.quantity * t.price, TRUE, TRUE)
    BY <1>3 DEF Credited, CreditedToNew
  <2>a. t.currency \in Currencies /\ proceeds \in BOOLEAN
    OBVIOUS
  <2> HIDE DEF x, proceeds
  <2>3. /\ Sound(V) /\ V.settlements = U.settlements
        /\ DOMAIN V.accounts = DOMAIN U.accounts \cup {x}
    <3>1. Sound(U)
      BY DEF Tracks
    <3> QED
      BY ONLY <2>1, <2>a, <3>1, OpenedSound
  <2>4. \A e \in V.entries : e \in U.entries \/ e.trade = NoRef
    BY OpenedEntries
  <2> HIDE DEF V
  <2>5. Clear(V, t.id)
    BY <2>3, <2>4, LedgerConstants DEF Clear
  <2>6. Tracks(B, V, t.id)
    BY <2>3, <2>4, <2>5 DEF Tracks, Clear
  <2>7. x \in DOMAIN V.accounts
    BY <2>3
  <2>8. Tracks(B, Settled(V, t, x, t.quantity * t.price, TRUE, TRUE), t.id)
    BY <2>5, <2>6, <2>7, SettledTracks
  <2> QED
    BY <2>2, <2>8
<1> QED
  BY <1>1, <1>2, <1>3 DEF Handlings

-----------------------------------------------------------------------------
(***************************************************************************)
(* The inductive invariant.  LiveTradesSettled needs that ids are unique   *)
(* and never come back (an entry left behind by delete_holding must not    *)
(* become a new trade's), and settling a trade anew needs that no entry of *)
(* it is left; both rest on RowsLinked.                                    *)
(***************************************************************************)
Sides == {"BUY", "SELL", "ADJUST"}

TradeRow(t) ==
  /\ t = [id |-> t.id, symbol |-> t.symbol, side |-> t.side, quantity |-> t.quantity,
          price |-> t.price, currency |-> t.currency, day |-> t.day]
  /\ t.id \in TradeIds /\ t.symbol \in Symbols /\ t.side \in Sides

RowsLinked ==
  /\ nextTrade \in Nat \ {0}
  /\ \A t \in trades : TradeRow(t) /\ t.id < nextTrade
  /\ \A t, u \in trades : t.id = u.id => t = u
  /\ \A e \in entries : e.trade < nextTrade
  /\ DOMAIN settlements \subseteq IdsOf(trades)

Linked == Sound(Book) /\ RowsLinked /\ LiveTradesSettled

\* Ids of trades are numbers.
LEMMA EntryTrades ==
  ASSUME Linked
  PROVE  \A e \in entries : e.trade \in Nat
<1>1. TypeOK
  BY BookOfState DEF Linked
<1>2. \A e \in entries : e.trade \in TradeIds \cup {NoRef}
  BY <1>1 DEF TypeOK
<1>3. NoRef \in Nat /\ TradeIds \subseteq Nat
  BY TradeConstants DEF NoRef
<1> QED
  BY <1>2, <1>3

\* A trade handler that commits a book tracking its trade keeps the trades,
\* the settlements and the entries linked.
LEMMA TrackedStep ==
  ASSUME Linked, NEW P, NEW i, Tracks(Book, P, i), Commit(P),
         nextTrade' \in Nat, nextTrade <= nextTrade',
         \A t \in trades' : TradeRow(t) /\ t.id < nextTrade',
         \A t, u \in trades' : t.id = u.id => t = u,
         IdsOf(trades') \ {i} = IdsOf(trades) \ {i},
         i \in TradeIds, i < nextTrade',
         i \in DOMAIN P.settlements => i \in IdsOf(trades')
  PROVE  Linked'
<1>1. /\ accounts' = P.accounts /\ entries' = P.entries
      /\ transfers' = P.transfers /\ settlements' = P.settlements
  BY DEF Commit
<1>2. Sound(Book)'
  BY CommitSound DEF Tracks
<1>3. \A e \in entries' : e \in entries \/ e.trade \in {i, NoRef}
  BY <1>1, BookFields DEF Tracks
<1>4. \A e \in entries : e.trade \in Nat
  BY EntryTrades
<1>5. \A e \in entries' : e.trade < nextTrade'
  BY <1>3, <1>4 DEF Linked, RowsLinked, NoRef
<1>6. DOMAIN settlements' \subseteq IdsOf(trades')
  BY <1>1, BookFields DEF Tracks, Linked, RowsLinked
<1>7. RowsLinked'
  BY <1>5, <1>6 DEF Linked, RowsLinked
<1>8. LiveTradesSettled'
  <2> SUFFICES ASSUME NEW e \in entries', e.trade \in IdsOf(trades')
               PROVE  e.trade \in DOMAIN settlements'
    BY DEF LiveTradesSettled
  <2>1. CASE e.trade = i
    BY <1>1, <2>1 DEF Tracks
  <2>2. CASE e.trade # i
    <3>1. e.trade # NoRef
      BY LedgerConstants DEF IdsOf, TradeRow
    <3>2. e \in entries /\ e.trade \in IdsOf(trades)
      BY <1>3, <2>2, <3>1
    <3>3. e.trade \in DOMAIN settlements
      BY <3>2 DEF Linked, LiveTradesSettled
    <3> QED
      BY <1>1, <2>2, <3>3, BookFields DEF Tracks
  <2> QED
    BY <2>1, <2>2
<1> QED
  BY <1>2, <1>7, <1>8 DEF Linked

\* Nothing in the tables refers to the next trade id.
LEMMA NextTradeClear ==
  ASSUME Linked
  PROVE  Clear(Book, nextTrade) /\ Tracks(Book, Book, nextTrade)
<1>1. \A e \in entries : e.trade \in Nat /\ e.trade # nextTrade
  BY EntryTrades DEF Linked, RowsLinked
<1>2. nextTrade \notin DOMAIN settlements
  BY TradeConstants DEF Linked, RowsLinked, IdsOf, TradeRow
<1> QED
  BY <1>1, <1>2, BookFields DEF Clear, Tracks, Linked

\* The reversed book has nothing of trade t left.
LEMMA UndoneTracks ==
  ASSUME Linked, NEW t \in trades
  PROVE  Clear(Undone(t), t.id) /\ Tracks(Book, Undone(t), t.id)
<1> DEFINE T == SettledAmong(Book, {t})
           R == Reversed(Book, T)
<1>1. IdsOf(T) \subseteq DOMAIN Book.settlements /\ IdsOf(T) \subseteq {t.id}
      /\ (t.id \in DOMAIN Book.settlements => t.id \in IdsOf(T))
  BY DEF SettledAmong, IdsOf
<1> HIDE DEF T
<1>2. /\ Sound(R)
      /\ DOMAIN R.settlements = DOMAIN Book.settlements \ IdsOf(T)
      /\ \A e \in R.entries : e \in Book.entries /\ e.trade \notin IdsOf(T)
  BY <1>1, ReversedSound DEF Linked
<1> HIDE DEF R
<1>3. t.id \notin DOMAIN R.settlements /\ \A e \in R.entries : e.trade # t.id
  BY <1>1, <1>2, BookFields DEF Linked, LiveTradesSettled, IdsOf
<1>4. Tracks(Book, R, t.id)
  BY <1>1, <1>2, <1>3 DEF Tracks
<1>5. Undone(t) = R
  BY DEF Undone, R, T
<1> QED
  BY <1>3, <1>4, <1>5 DEF Clear

-----------------------------------------------------------------------------
(***************************************************************************)
(* The handlers of CashLedger: they write no entry of a trade, and a       *)
(* settlement that goes takes its entry with it.                           *)
(***************************************************************************)
KeepsTrades ==
  /\ \A e \in entries' : e \in entries \/ e.trade = NoRef
  /\ DOMAIN settlements' \subseteq DOMAIN settlements
  /\ \A t \in DOMAIN settlements' : settlements'[t] = settlements[t]
  /\ \A e \in entries' : e.trade \in DOMAIN settlements => e.trade \in DOMAIN settlements'

\* What both handlers of transfers write.
LEMMA TransferredEntries ==
  ASSUME NEW B, NEW x, NEW f, NEW t, NEW source, NEW target
  PROVE  /\ \A e \in Transferred(B, x, f, t, source, target).entries :
              e \in B.entries \/ e.trade = NoRef
         /\ Transferred(B, x, f, t, source, target).settlements = B.settlements
<1> DEFINE X == [y \in DOMAIN B.transfers \cup {x} |->
                   IF y = x THEN [from |-> f, to |-> t, source |-> source, target |-> target]
                            ELSE B.transfers[y]]
           K == LedgerBook(B.accounts, B.entries, X, B.settlements)
           out == -source
           Q == Posted(K, f, "TRANSFER_OUT", out, NoRef, x)
           P == Posted(Q, t, "TRANSFER_IN", target, NoRef, x)
<1>1. K.entries = B.entries /\ K.settlements = B.settlements
  BY DEF LedgerBook
<1>2. P = Transferred(B, x, f, t, source, target)
  BY DEF Transferred
<1> HIDE DEF K, out
<1>3. /\ \E e : /\ IsEntry(e, f, "TRANSFER_OUT", out, K.accounts[f].currency, NoRef, x)
                /\ Q.entries = K.entries \cup {e}
      /\ Q.settlements = K.settlements
  BY PostedBook
<1> HIDE DEF Q
<1>4. /\ \E e : /\ IsEntry(e, t, "TRANSFER_IN", target, Q.accounts[t].currency, NoRef, x)
                /\ P.entries = Q.entries \cup {e}
      /\ P.settlements = Q.settlements
  BY PostedBook
<1> HIDE DEF P
<1> QED
  BY <1>1, <1>2, <1>3, <1>4 DEF IsEntry

\* Accounts
LEMMA AccountsCashOnly == AccountStep => KeepsTrades
<1> SUFFICES ASSUME AccountStep PROVE KeepsTrades
  OBVIOUS
<1>1. ASSUME NEW a, NEW currency, NEW proceeds, NEW b,
             Commit(Opened(Book, a, currency, proceeds, b))
      PROVE  KeepsTrades
  BY <1>1, OpenedEntries, BookFields DEF KeepsTrades, Commit
<1>2. ASSUME NEW a \in AccountIds, DeleteAccount(a)
      PROVE  KeepsTrades
  <2> DEFINE S == {t \in DOMAIN settlements : settlements[t].account = a}
  <2>1. /\ \A e \in entries' : e \in entries /\ e.trade \notin S
        /\ settlements' = Without(settlements, S)
    BY <1>2 DEF DeleteAccount, Commit, LedgerBook
  <2> HIDE DEF S
  <2> QED
    BY <2>1 DEF KeepsTrades, Without
<1> QED
  BY <1>1, <1>2 DEF AccountStep, CreateAccount, UpdateAccount

\* Manual adjustments
LEMMA AdjustmentsCashOnly == AdjustmentStep => KeepsTrades
<1> SUFFICES ASSUME AdjustmentStep PROVE KeepsTrades
  OBVIOUS
<1>1. ASSUME NEW a \in AccountIds, NEW amount \in AdjustmentAmounts, CreateAdjustment(a, amount)
      PROVE  KeepsTrades
  <2> DEFINE P == Posted(Book, a, "MANUAL_ADJUSTMENT", amount, NoRef, NoRef)
  <2>1. Commit(P)
    BY <1>1 DEF CreateAdjustment
  <2>2. /\ \E e : /\ IsEntry(e, a, "MANUAL_ADJUSTMENT", amount, Book.accounts[a].currency, NoRef, NoRef)
                  /\ P.entries = Book.entries \cup {e}
        /\ P.settlements = Book.settlements
    BY PostedBook
  <2> HIDE DEF P
  <2> QED
    BY <2>1, <2>2, BookFields DEF KeepsTrades, Commit, IsEntry
<1>2. ASSUME NEW e \in entries, NEW amount \in AdjustmentAmounts, UpdateAdjustment(e, amount)
      PROVE  KeepsTrades
  <2> DEFINE new == Entry(entries \ {e}, e.account, e.type, amount,
                          accounts[e.account].currency, e.trade, e.transfer)
  <2>1. IsEntry(new, e.account, e.type, amount, accounts[e.account].currency, e.trade, e.transfer)
    BY EntryFields
  <2>2. e.trade = NoRef /\ entries' = (entries \ {e}) \cup {new} /\ settlements' = settlements
    BY <1>2 DEF UpdateAdjustment, ManualAdjustments, Commit, LedgerBook
  <2> HIDE DEF new
  <2> QED
    BY <2>1, <2>2 DEF KeepsTrades, IsEntry
<1>3. ASSUME NEW e \in entries, DeleteAdjustment(e)
      PROVE  KeepsTrades
  BY <1>3 DEF DeleteAdjustment, Commit, LedgerBook, KeepsTrades
<1> QED
  BY <1>1, <1>2, <1>3 DEF AdjustmentStep

\* Transfers
LEMMA TransfersCashOnly == TransferStep => KeepsTrades
<1> SUFFICES ASSUME TransferStep PROVE KeepsTrades
  OBVIOUS
<1>1. \A x : /\ Unwound(Book, x).entries \subseteq entries
             /\ Unwound(Book, x).settlements = settlements
  BY BookFields DEF Unwound, LedgerBook
<1>2. ASSUME NEW B, NEW x, NEW f, NEW t, NEW source, NEW target,
             B.entries \subseteq entries, B.settlements = settlements,
             Commit(Transferred(B, x, f, t, source, target))
      PROVE  KeepsTrades
  BY <1>2, TransferredEntries DEF KeepsTrades, Commit
<1>3. ASSUME NEW f \in AccountIds, NEW t \in AccountIds, NEW amount \in TransferAmounts,
             NEW rate \in FxRates, NEW skew \in TargetSkews,
             CreateTransfer(f, t, amount, rate, skew)
      PROVE  KeepsTrades
  BY <1>2, <1>3, BookFields DEF CreateTransfer
<1>4. ASSUME NEW x \in TransferIds, NEW f \in AccountIds, NEW t \in AccountIds,
             NEW amount \in TransferAmounts, NEW rate \in FxRates, NEW skew \in TargetSkews,
             UpdateTransfer(x, f, t, amount, rate, skew)
      PROVE  KeepsTrades
  BY <1>1, <1>2, <1>4 DEF UpdateTransfer
<1>5. ASSUME NEW x \in TransferIds, DeleteTransfer(x)
      PROVE  KeepsTrades
  <2>1. entries' = Unwound(Book, x).entries /\ settlements' = settlements
    BY <1>5 DEF DeleteTransfer, Commit, LedgerBook
  <2> QED
    BY <1>1, <2>1 DEF KeepsTrades
<1> QED
  BY <1>3, <1>4, <1>5 DEF TransferStep

\* Whatever the cash handlers do, trades, settlements and entries stay linked.
LEMMA CashStepLinked ==
  ASSUME Linked, CashStep
  PROVE  Linked'
<1>1. Next /\ UNCHANGED <<trades, holdings, nextTrade>>
  BY DEF CashStep
<1>2. KeepsTrades
  BY <1>1, AccountsCashOnly, AdjustmentsCashOnly, TransfersCashOnly DEF Next
<1>3. Sound(Book)'
  BY <1>1, NextSound DEF Linked
<1>4. RowsLinked'
  BY <1>1, <1>2 DEF Linked, RowsLinked, KeepsTrades, NoRef
<1>5. LiveTradesSettled'
  <2>1. NoRef \notin IdsOf(trades)
    BY LedgerConstants DEF Linked, RowsLinked, TradeRow, IdsOf
  <2> QED
    BY <1>1, <1>2, <2>1 DEF Linked, LiveTradesSettled, KeepsTrades
<1> QED
  BY <1>3, <1>4, <1>5 DEF Linked

-----------------------------------------------------------------------------
(***************************************************************************)
(* The trade handlers.                                                     *)
(***************************************************************************)
\* create_holding_transaction: the new row has the next id.
LEMMA NewTradeStep ==
  ASSUME Linked, NEW s \in Symbols, NEW side \in Sides, NEW q, NEW p, NEW currency, NEW d,
         AllocateTradeId, trades' = trades \cup {NewTrade(s, side, q, p, currency, d)},
         NEW P, Tracks(Book, P, nextTrade), Commit(P)
  PROVE  Linked'
<1> DEFINE t == NewTrade(s, side, q, p, currency, d)
<1>1. nextTrade \in TradeIds /\ nextTrade \in Nat /\ nextTrade' = nextTrade + 1
  BY DEF AllocateTradeId, Linked, RowsLinked
<1>2. TradeRow(t) /\ t.id = nextTrade
  BY <1>1 DEF NewTrade, TradeRow
<1> HIDE DEF t
<1>3. \A u \in trades : TradeRow(u) /\ u.id < nextTrade /\ u.id \in Nat
  BY TradeConstants DEF Linked, RowsLinked, TradeRow
<1>4. \A u \in trades' : TradeRow(u) /\ u.id < nextTrade'
  BY <1>1, <1>2, <1>3 DEF t
<1>5. \A u, v \in trades' : u.id = v.id => u = v
  BY <1>1, <1>2, <1>3 DEF t, Linked, RowsLinked
<1>6. /\ nextTrade \in IdsOf(trades')
      /\ IdsOf(trades') \ {nextTrade} = IdsOf(trades) \ {nextTrade}
  BY <1>2 DEF t, IdsOf
<1>7. nextTrade' \in Nat /\ nextTrade <= nextTrade' /\ nextTrade < nextTrade'
  BY <1>1
<1> HIDE DEF t
<1> QED
  BY <1>1, <1>4, <1>5, <1>6, <1>7, TrackedStep

\* update_holding_transaction: the rewritten row keeps id, symbol and side.
LEMMA RewrittenTradeStep ==
  ASSUME Linked, NEW t \in trades, NEW u, TradeRow(u), u.id = t.id,
         trades' = (trades \ {t}) \cup {u}, UNCHANGED nextTrade,
         NEW P, Tracks(Book, P, t.id), Commit(P)
  PROVE  Linked'
<1>1. \A v \in trades : TradeRow(v) /\ v.id < nextTrade /\ (v.id = t.id => v = t)
  BY DEF Linked, RowsLinked
<1>2. \A v \in trades' : TradeRow(v) /\ v.id < nextTrade'
  BY <1>1
<1>3. \A v, w \in trades' : v.id = w.id => v = w
  BY <1>1 DEF Linked, RowsLinked
<1>4. IdsOf(trades') = IdsOf(trades)
  <2>1. t.id \in IdsOf(trades')
    BY DEF IdsOf
  <2> QED
    BY DEF IdsOf
<1>5. t.id \in TradeIds /\ t.id < nextTrade' /\ t.id \in IdsOf(trades)
  BY <1>1 DEF TradeRow, IdsOf
<1>6. nextTrade' \in Nat /\ nextTrade <= nextTrade'
  BY DEF Linked, RowsLinked
<1> QED
  BY <1>2, <1>3, <1>4, <1>5, <1>6, TrackedStep

\* delete_holding_transaction
LEMMA DeletedTradeStep ==
  ASSUME Linked, NEW t \in trades, trades' = trades \ {t}, UNCHANGED nextTrade,
         NEW P, Tracks(Book, P, t.id), t.id \notin DOMAIN P.settlements, Commit(P)
  PROVE  Linked'
<1>1. \A v \in trades : TradeRow(v) /\ v.id < nextTrade /\ (v.id = t.id => v = t)
  BY DEF Linked, RowsLinked
<1>2. \A v \in trades' : TradeRow(v) /\ v.id < nextTrade'
  BY <1>1
<1>3. \A v, w \in trades' : v.id = w.id => v = w
  BY DEF Linked, RowsLinked
<1>4. IdsOf(trades') \ {t.id} = IdsOf(trades) \ {t.id}
  BY <1>1 DEF IdsOf
<1>5. t.id \in TradeIds /\ t.id < nextTrade'
  BY <1>1 DEF TradeRow
<1>6. nextTrade' \in Nat /\ nextTrade <= nextTrade'
  BY DEF Linked, RowsLinked
<1> QED
  BY <1>2, <1>3, <1>4, <1>5, <1>6, TrackedStep

\* Rewriting a row changes none of the columns that tell whose it is.
LEMMA RewrittenRow ==
  ASSUME NEW t, TradeRow(t), NEW q, NEW p, NEW currency, NEW d
  PROVE  LET u == Rewritten(t, q, p, currency, d)
         IN /\ TradeRow(u) /\ u.id = t.id /\ u.symbol = t.symbol
            /\ u.quantity = q /\ u.price = p /\ u.currency = currency /\ u.day = d
<1> DEFINE u == Rewritten(t, q, p, currency, d)
<1>1. u = [id |-> t.id, symbol |-> t.symbol, side |-> t.side, quantity |-> q,
           price |-> p, currency |-> currency, day |-> d]
  <2>1. PICK i, s, side, qq, pp, c, dd :
          t = [id |-> i, symbol |-> s, side |-> side, quantity |-> qq,
               price |-> pp, currency |-> c, day |-> dd]
    BY DEF TradeRow
  <2>2. t.id = i /\ t.symbol = s /\ t.side = side
    BY <2>1
  <2> DEFINE row(x, y, z, w) == [id |-> i, symbol |-> s, side |-> side, quantity |-> x,
                                 price |-> y, currency |-> z, day |-> w]
  <2>3. /\ [row(qq, pp, c, dd) EXCEPT !.quantity = q] = row(q, pp, c, dd)
        /\ [row(q, pp, c, dd) EXCEPT !.price = p] = row(q, p, c, dd)
        /\ [row(q, p, c, dd) EXCEPT !.currency = currency] = row(q, p, currency, dd)
        /\ [row(q, p, currency, dd) EXCEPT !.day = d] = row(q, p, currency, d)
    OBVIOUS
  <2>4. u = [[[[t EXCEPT !.quantity = q] EXCEPT !.price = p] EXCEPT !.currency = currency]
               EXCEPT !.day = d]
    BY DEF Rewritten
  <2>5. t = row(qq, pp, c, dd)
    BY <2>1
  <2> HIDE DEF row, u
  <2>6. u = row(q, p, currency, d)
    BY <2>3, <2>4, <2>5
  <2> QED
    BY <2>2, <2>6 DEF row
<1> HIDE DEF u
<1>2. /\ u.id = t.id /\ u.symbol = t.symbol /\ u.side = t.side /\ u.currency = currency
      /\ u.quantity = q /\ u.price = p /\ u.day = d
  BY <1>1
<1>3. TradeRow(u)
  BY <1>1, <1>2 DEF TradeRow
<1> QED
  BY <1>2, <1>3 DEF u

\* Every step of the trade handlers keeps the tables linked.
LEMMA TradeStepLinked ==
  ASSUME Linked, TradeStep
  PROVE  Linked'
<1>1. ASSUME NEW s \in Symbols, NEW q \in Quantities, NEW p \in Prices, NEW currency \in Currencies,
             NEW d \in Days, NEW a \in AccountIds \cup {NoRef}, NEW rate \in FxRates,
             Buy(s, q, p, currency, d, a, rate)
      PROVE  Linked'
  <2> DEFINE t == NewTrade(s, "BUY", q, p, currency, d)
             funded == p # NoPrice /\ a # NoRef
  <2>1. /\ AllocateTradeId /\ trades' = trades \cup {t}
        /\ funded => MayFund(Book, t, a, rate)
        /\ Commit(IF funded THEN Funded(Book, t, a, rate) ELSE Book)
    BY <1>1 DEF Buy, Projected
  <2>2. t.id = nextTrade /\ nextTrade \in TradeIds
    BY <2>1 DEF NewTrade, AllocateTradeId
  <2>3. Clear(Book, nextTrade) /\ Tracks(Book, Book, nextTrade)
    BY NextTradeClear
  <2> HIDE DEF funded
  <2>4. CASE funded
    <3> HIDE DEF t
    <3>1. Tracks(Book, Funded(Book, t, a, rate), nextTrade)
      BY <2>1, <2>2, <2>3, <2>4, FundedTracks
    <3>2. Commit(Funded(Book, t, a, rate))
      BY <2>1, <2>4
    <3> QED
      BY <2>1, <3>1, <3>2, NewTradeStep DEF t, Sides
  <2>5. CASE ~funded
    <3>1. Commit(Book)
      BY <2>1, <2>5
    <3> QED
      BY <2>1, <2>3, <3>1, NewTradeStep DEF Sides
  <2> QED
    BY <2>4, <2>5
<1>2. ASSUME NEW s \in Symbols, NEW q \in Quantities, NEW p \in Prices, NEW currency \in Currencies,
             NEW d \in Days, NEW handling \in Handlings, NEW a \in AccountIds \cup {NoRef},
             NEW rate \in FxRates, Sell(s, q, p, currency, d, handling, a, rate)
      PROVE  Linked'
  <2> DEFINE t == NewTrade(s, "SELL", q, p, currency, d)
             P == Credited(Book, t, handling, a, rate)
  <2>1. /\ AllocateTradeId /\ trades' = trades \cup {t}
        /\ MayCredit(Book, handling, a) /\ Commit(P)
    BY <1>2 DEF Sell, Projected
  <2>2. t.id = nextTrade /\ nextTrade \in TradeIds /\ t.currency = currency
    BY <2>1 DEF NewTrade, AllocateTradeId
  <2>3. Clear(Book, nextTrade) /\ Tracks(Book, Book, nextTrade)
    BY NextTradeClear
  <2> HIDE DEF t
  <2>4. Tracks(Book, P, nextTrade)
    BY <2>1, <2>2, <2>3, CreditedTracks
  <2> HIDE DEF P
  <2> QED
    BY <2>1, <2>4, NewTradeStep DEF t, Sides
<1>3. ASSUME NEW t \in trades, NEW q, NEW p, NEW currency \in Currencies, NEW d,
             Revised(t, Rewritten(t, q, p, currency, d)),
             NEW P, Tracks(Book, P, t.id), Commit(P)
      PROVE  Linked'
  <2> DEFINE u == Rewritten(t, q, p, currency, d)
  <2>1. TradeRow(t)
    BY DEF Linked, RowsLinked
  <2>2. TradeRow(u) /\ u.id = t.id
    BY <2>1, RewrittenRow
  <2>3. trades' = (trades \ {t}) \cup {u} /\ UNCHANGED nextTrade
    BY <1>3 DEF Revised, Projected
  <2> HIDE DEF u
  <2> QED
    BY <1>3, <2>2, <2>3, RewrittenTradeStep
<1>4. ASSUME NEW t \in trades, UpdateTrade(t)
      PROVE  Linked'
  <2>1. Clear(Undone(t), t.id) /\ Tracks(Book, Undone(t), t.id)
    BY UndoneTracks
  <2>2. TradeRow(t) /\ t.id \in TradeIds
    BY DEF Linked, RowsLinked, TradeRow
  <2>3. ASSUME NEW q \in Quantities, NEW p \in Prices, NEW currency \in Currencies, NEW d \in Days,
               NEW a \in AccountIds \cup {NoRef}, NEW rate \in FxRates,
               UpdateBuy(t, q, p, currency, d, a, rate)
        PROVE  Linked'
    <3> DEFINE u == Rewritten(t, q, p, currency, d)
               payer == IF a # NoRef \/ ~(t.id \in DOMAIN settlements)
                        THEN a ELSE settlements[t.id].account
    <3>1. /\ payer # NoRef => MayFund(Undone(t), u, payer, rate)
          /\ Commit(IF payer # NoRef THEN Funded(Undone(t), u, payer, rate) ELSE Undone(t))
          /\ Revised(t, u)
      BY <2>3 DEF UpdateBuy
    <3>2. u.id = t.id
      BY <2>2, RewrittenRow
    <3> HIDE DEF payer, u
    <3>3. CASE payer # NoRef
      <4>1. Tracks(Book, Funded(Undone(t), u, payer, rate), t.id)
        BY <2>1, <2>2, <3>1, <3>2, <3>3, FundedTracks
      <4> QED
        BY <1>3, <3>1, <3>3, <4>1 DEF u
    <3>4. CASE payer = NoRef
      BY <1>3, <2>1, <3>1, <3>4 DEF u
    <3> QED
      BY <3>3, <3>4
  <2>4. ASSUME NEW q \in Quantities, NEW p \in Prices, NEW currency \in Currencies, NEW d \in Days,
               NEW handling \in Handlings \cup {"KEEP"}, NEW a \in AccountIds \cup {NoRef},
               NEW rate \in FxRates, UpdateSell(t, q, p, currency, d, handling, a, rate)
        PROVE  Linked'
    <3> DEFINE u == Rewritten(t, q, p, currency, d)
               was == t.id \in DOMAIN settlements
               kept == IF ~was THEN "DISCARD"
                       ELSE IF settlements[t.id].auto THEN "CREATE_NEW_CASH"
                       ELSE "ADD_TO_EXISTING_CASH"
               how == IF handling = "KEEP" THEN kept ELSE handling
               payee == IF a = NoRef /\ was /\ ~settlements[t.id].auto
                        THEN settlements[t.id].account ELSE a
    <3>1. /\ MayCredit(Undone(t), how, payee)
          /\ Commit(Credited(Undone(t), u, how, payee, rate))
          /\ Revised(t, u)
      BY <2>4 DEF UpdateSell
    <3>2. u.id = t.id /\ u.currency = currency
      BY <2>2, RewrittenRow
    <3>3. how \in Handlings
      BY DEF Handlings
    <3> HIDE DEF how, payee, u
    <3>4. Tracks(Book, Credited(Undone(t), u, how, payee, rate), t.id)
      BY <2>1, <2>2, <3>1, <3>2, <3>3, CreditedTracks
    <3> QED
      BY <1>3, <3>1, <3>4 DEF u
  <2>5. ASSUME NEW q \in Quantities, NEW p \in Prices, NEW currency \in Currencies, NEW d \in Days,
               UpdateAdjust(t, q, p, currency, d)
        PROVE  Linked'
    BY <1>3, <2>1, <2>5 DEF UpdateAdjust
  <2> QED
    BY <1>4, <2>3, <2>4, <2>5 DEF UpdateTrade
<1>5. ASSUME NEW t \in trades, DeleteTrade(t)
      PROVE  Linked'
  <2>1. Clear(Undone(t), t.id) /\ Tracks(Book, Undone(t), t.id)
    BY UndoneTracks
  <2>2. trades' = trades \ {t} /\ UNCHANGED nextTrade /\ Commit(Undone(t))
    BY <1>5 DEF DeleteTrade, Projected
  <2> QED
    BY <2>1, <2>2, DeletedTradeStep DEF Clear
<1> QED
  BY <1>1, <1>2, <1>4, <1>5 DEF TradeStep, CreateTrade

-----------------------------------------------------------------------------
(***************************************************************************)
(* Edits and deletions of holdings.                                        *)
(***************************************************************************)
AsAdjustment(t, q, p, d) ==
  [t EXCEPT !.side = "ADJUST", !.quantity = q, !.price = p, !.day = d]

\* A trade that becomes an adjustment keeps its id and its symbol.
LEMMA AdjustedRow ==
  ASSUME NEW t, TradeRow(t), NEW q, NEW p, NEW d
  PROVE  LET u == AsAdjustment(t, q, p, d)
         IN TradeRow(u) /\ u.id = t.id /\ u.symbol = t.symbol /\ u.day = d
<1> DEFINE u == AsAdjustment(t, q, p, d)
           row(i, s, side, x, y, c, w) ==
             [id |-> i, symbol |-> s, side |-> side, quantity |-> x,
              price |-> y, currency |-> c, day |-> w]
<1>1. PICK i, s, side, qq, pp, c, dd : t = row(i, s, side, qq, pp, c, dd)
  BY DEF TradeRow
<1>2. t.id = i /\ t.symbol = s
  BY <1>1
<1>3. /\ [row(i, s, side, qq, pp, c, dd) EXCEPT !.side = "ADJUST"]
            = row(i, s, "ADJUST", qq, pp, c, dd)
      /\ [row(i, s, "ADJUST", qq, pp, c, dd) EXCEPT !.quantity = q]
            = row(i, s, "ADJUST", q, pp, c, dd)
      /\ [row(i, s, "ADJUST", q, pp, c, dd) EXCEPT !.price = p] = row(i, s, "ADJUST", q, p, c, dd)
      /\ [row(i, s, "ADJUST", q, p, c, dd) EXCEPT !.day = d] = row(i, s, "ADJUST", q, p, c, d)
  OBVIOUS
<1>4. u = [[[[t EXCEPT !.side = "ADJUST"] EXCEPT !.quantity = q] EXCEPT !.price = p]
             EXCEPT !.day = d]
  BY DEF AsAdjustment
<1> HIDE DEF row, u
<1>5. u = row(i, s, "ADJUST", q, p, c, d)
  BY <1>1, <1>3, <1>4
<1>6. /\ u.id = i /\ u.symbol = s /\ u.side = "ADJUST" /\ u.quantity = q
      /\ u.price = p /\ u.currency = c /\ u.day = d
  BY <1>5 DEF row
<1>7. TradeRow(u)
  BY <1>2, <1>5, <1>6 DEF row, TradeRow, Sides
<1> QED
  BY <1>2, <1>6, <1>7 DEF u

\* update_holding either adds an adjustment or turns the earliest trade of the
\* symbol into one.
LEMMA AdjustedTrades ==
  ASSUME Linked, NEW s \in Symbols, NEW q, NEW p, NEW d
  PROVE  LET T == Adjusted(s, q, p, d)
         IN \/ T = trades \cup {NewTrade(s, "ADJUST", q, p, CNY, d)}
            \/ /\ trades # {} /\ IdsOf(T) = IdsOf(trades)
               /\ \A t \in T : TradeRow(t) /\ t.id < nextTrade
               /\ \A t, u \in T : t.id = u.id => t = u
               /\ \A x : x # s => TradesOf(T, x) = TradesOf(trades, x)
<1> DEFINE first == {t \in TradesOf(trades, s) : \A u \in TradesOf(trades, s) \ {t} : Older(t, u)}
           changed == {t \in first : d <= t.day}
           adj(t) == AsAdjustment(t, q, p, d)
           T == Adjusted(s, q, p, d)
<1>1. CASE changed = {}
  BY <1>1 DEF Adjusted
<1>2. CASE changed # {}
  <2>1. T = (trades \ changed) \cup {adj(t) : t \in changed}
    BY <1>2 DEF Adjusted, AsAdjustment
  <2>2. changed \subseteq trades /\ \A t \in changed : t.symbol = s
    BY DEF TradesOf
  <2>3. \A t \in trades : TradeRow(t) /\ t.id < nextTrade
    BY DEF Linked, RowsLinked
  <2>4. \A t \in trades : TradeRow(adj(t)) /\ adj(t).id = t.id /\ adj(t).symbol = t.symbol
    BY <2>3, AdjustedRow
  <2>5. \A t, u \in trades : t.id = u.id => t = u
    BY DEF Linked, RowsLinked
  <2> HIDE DEF changed, adj, T
  <2>6. trades # {}
    BY <1>2, <2>2
  <2>7. \A t \in T : TradeRow(t) /\ t.id < nextTrade
    BY <2>1, <2>2, <2>3, <2>4
  <2>8. IdsOf(T) = IdsOf(trades)
    BY <2>1, <2>2, <2>4 DEF IdsOf
  <2>9. \A t, u \in T : t.id = u.id => t = u
    BY <2>1, <2>2, <2>4, <2>5
  <2>10. \A x : x # s => TradesOf(T, x) = TradesOf(trades, x)
    BY <2>1, <2>2, <2>4 DEF TradesOf
  <2> QED
    BY <2>6, <2>7, <2>8, <2>9, <2>10 DEF T
<1> QED
  BY <1>1, <1>2

\* update_holding leaves the ledger alone; a trade that it turns into an
\* adjustment keeps its settlement.
LEMMA EditHoldingLinked ==
  ASSUME Linked, NEW s \in Symbols, NEW q, NEW p, NEW d, EditHolding(s, q, p, d)
  PROVE  Linked'
<1> DEFINE T == Adjusted(s, q, p, d)
<1>1. /\ trades' = T
      /\ IF nextTrade \in IdsOf(T) THEN AllocateTradeId ELSE UNCHANGED nextTrade
      /\ Commit(Book)
  BY BookFields DEF EditHolding, Commit, ledgerVars
<1>2. \/ T = trades \cup {NewTrade(s, "ADJUST", q, p, CNY, d)}
      \/ /\ trades # {} /\ IdsOf(T) = IdsOf(trades)
         /\ \A t \in T : TradeRow(t) /\ t.id < nextTrade
         /\ \A t, u \in T : t.id = u.id => t = u
  BY AdjustedTrades
<1> HIDE DEF T
<1>3. CASE T = trades \cup {NewTrade(s, "ADJUST", q, p, CNY, d)}
  <2> DEFINE row == NewTrade(s, "ADJUST", q, p, CNY, d)
  <2>1. row.id = nextTrade /\ row \in T
    BY <1>3 DEF NewTrade
  <2> HIDE DEF row
  <2>2. nextTrade \in IdsOf(T)
    BY <2>1 DEF IdsOf
  <2> QED
    BY <1>1, <1>3, <2>2, NextTradeClear, NewTradeStep DEF Sides, row
<1>4. CASE /\ trades # {} /\ IdsOf(T) = IdsOf(trades)
           /\ \A t \in T : TradeRow(t) /\ t.id < nextTrade
           /\ \A t, u \in T : t.id = u.id => t = u
  <2>1. PICK t \in trades : TRUE
    BY <1>4
  <2>2. t.id \in TradeIds /\ t.id < nextTrade /\ nextTrade \in Nat /\ nextTrade <= nextTrade
    BY DEF Linked, RowsLinked, TradeRow
  <2>3. nextTrade \notin IdsOf(trades)
    BY TradeConstants DEF Linked, RowsLinked, TradeRow, IdsOf
  <2>4. UNCHANGED nextTrade
    BY <1>1, <1>4, <2>3
  <2>5. Tracks(Book, Book, t.id)
    BY BookFields DEF Tracks, Linked, LiveTradesSettled, IdsOf
  <2>6. t.id \in IdsOf(trades')
    BY <1>1, <1>4 DEF IdsOf
  <2> QED
    BY <1>1, <1>4, <2>2, <2>4, <2>5, <2>6, TrackedStep
<1> QED
  BY <1>2, <1>3, <1>4

\* A book that forgets settlements is still sound.
LEMMA ForgottenSettlements ==
  ASSUME NEW B, NEW S, Sound(B)
  PROVE  Sound(LedgerBook(B.accounts, B.entries, B.transfers, Without(B.settlements, S)))
<1> DEFINE P == LedgerBook(B.accounts, B.entries, B.transfers, Without(B.settlements, S))
<1>1. /\ P.accounts = B.accounts /\ P.entries = B.entries /\ P.transfers = B.transfers
      /\ DOMAIN P.settlements = DOMAIN B.settlements \ S
      /\ \A t \in DOMAIN P.settlements : P.settlements[t] = B.settlements[t]
  BY DEF LedgerBook, Without
<1> HIDE DEF P
<1>2. Typed(P) /\ Balanced(P) /\ Owned(P)
  BY <1>1 DEF Sound, Typed, Balanced, Owned
<1>3. Paired(P)
  BY <1>1 DEF Sound, Paired, IsPair
<1>4. Backed(P)
  <2> SUFFICES ASSUME NEW t \in DOMAIN P.settlements
               PROVE  \E p \in P.entries : IsBacking(P, t, p)
    BY DEF Backed
  <2>1. PICK p \in B.entries : IsBacking(B, t, p)
    BY <1>1 DEF Sound, Backed
  <2> QED
    BY <1>1, <2>1 DEF IsBacking
<1>5. Coherent(P) /\ Initialised(P)
  BY <1>1 DEF Sound, Coherent, Initialised
<1> QED
  BY <1>2, <1>3, <1>4, <1>5 DEF Sound, P

\* delete_holding: entries of its buys stay, without settlement and without
\* trade.
LEMMA DeleteHoldingLinked ==
  ASSUME Linked, NEW s \in Symbols, DeleteHolding(s)
  PROVE  Linked'
<1> DEFINE T == TradesOf(trades, s)
           sells == SettledAmong(Book, {t \in T : t.side = "SELL"})
           R == Reversed(Book, sells)
           P == LedgerBook(R.accounts, R.entries, R.transfers, Without(R.settlements, IdsOf(T)))
<1>1. Commit(P) /\ trades' = trades \ T /\ UNCHANGED nextTrade
  BY DEF DeleteHolding
<1>2. IdsOf(sells) \subseteq DOMAIN settlements /\ IdsOf(sells) \subseteq IdsOf(T)
  BY BookFields DEF SettledAmong, IdsOf
<1>3. T \subseteq trades
  BY DEF TradesOf
<1> HIDE DEF sells, T
<1>4. /\ Sound(R)
      /\ DOMAIN R.settlements = DOMAIN settlements \ IdsOf(sells)
      /\ \A e \in R.entries : e \in entries
  BY <1>2, ReversedSound, BookFields DEF Linked
<1> HIDE DEF R
<1>5. /\ Sound(P) /\ P.entries = R.entries
      /\ DOMAIN P.settlements = DOMAIN settlements \ IdsOf(T)
  <2>1. Sound(P)
    BY <1>4, ForgottenSettlements
  <2>2. DOMAIN Without(R.settlements, IdsOf(T)) = DOMAIN R.settlements \ IdsOf(T)
    BY DEF Without
  <2>3. /\ P.entries = R.entries
        /\ P.settlements = Without(R.settlements, IdsOf(T))
    BY DEF LedgerBook
  <2> HIDE DEF P
  <2> QED
    BY <1>2, <1>4, <2>1, <2>2, <2>3
<1> HIDE DEF P
<1>6. entries' \subseteq entries /\ DOMAIN settlements' = DOMAIN settlements \ IdsOf(T)
  BY <1>1, <1>4, <1>5 DEF Commit
<1>7. \A t \in trades' : t.id \notin IdsOf(T)
  BY <1>1, <1>3 DEF Linked, RowsLinked, IdsOf
<1>8. Sound(Book)'
  BY <1>1, <1>5, CommitSound
<1>9. RowsLinked'
  BY <1>1, <1>3, <1>6 DEF Linked, RowsLinked, IdsOf
<1>10. LiveTradesSettled'
  BY <1>1, <1>6, <1>7 DEF Linked, LiveTradesSettled, IdsOf
<1> QED
  BY <1>8, <1>9, <1>10 DEF Linked

\* Every step of the holding handlers keeps the tables linked.
LEMMA HoldingStepLinked ==
  ASSUME Linked, HoldingStep
  PROVE  Linked'
BY EditHoldingLinked, DeleteHoldingLinked
   DEF HoldingStep, AdjustHolding, UpdateHolding, UpdateHoldingDate, UpdateHoldingQuantity,
       UpdateHoldingCost

\* Empty tables are linked.
LEMMA InitLinked == PortfolioInit => Linked
<1> SUFFICES ASSUME PortfolioInit PROVE Linked
  OBVIOUS
<1>1. Sound(Book)
  BY InitSound DEF PortfolioInit
<1>2. RowsLinked /\ LiveTradesSettled
  BY DEF PortfolioInit, Init, RowsLinked, LiveTradesSettled, IdsOf
<1> QED
  BY <1>1, <1>2 DEF Linked

\* The inductive invariant about the ledger: it stays sound under the trade
\* handlers too, and entries, settlements and trades refer to each other.
THEOREM TablesLinked == PortfolioSpec => []Linked
<1>1. Linked /\ [PortfolioNext]_vars => Linked'
  <2> SUFFICES ASSUME Linked, [PortfolioNext]_vars PROVE Linked'
    OBVIOUS
  <2>1. CASE PortfolioNext
    BY <2>1, CashStepLinked, TradeStepLinked, HoldingStepLinked DEF PortfolioNext
  <2>2. CASE UNCHANGED vars
    BY <2>2 DEF Linked, RowsLinked, LiveTradesSettled, vars, Sound, Book, IdsOf
  <2> QED
    BY <2>1, <2>2
<1> QED
  BY <1>1, InitLinked, PTL DEF PortfolioSpec

\* Trade rows carry used ids, one per row, and settlements belong to rows.
THEOREM PortfolioTypeCorrect == PortfolioSpec => []PortfolioTypeOK
<1>1. Linked => PortfolioTypeOK
  BY BookOfState DEF Linked, RowsLinked, TradeRow, PortfolioTypeOK
<1> QED
  BY <1>1, TablesLinked, PTL

\* The trade handlers keep what is shown above of the cash handlers:
\* balances are the sums of their entries,
THEOREM TradesKeepBalances == PortfolioSpec => []BalanceIsLedgerSum
<1>1. Linked => BalanceIsLedgerSum
  BY BookOfState DEF Linked
<1> QED
  BY <1>1, TablesLinked, PTL

\* transfers keep exactly their two entries,
THEOREM TradesKeepTransfers == PortfolioSpec => []TransfersPaired
<1>1. Linked => TransfersPaired
  BY BookOfState DEF Linked
<1> QED
  BY <1>1, TablesLinked, PTL

\* and every entry stays in a live account of its currency, also when a
\* reversal empties and deletes an automatic account.
THEOREM TradesKeepPlaces == PortfolioSpec => []EntriesPlaced
<1>1. Linked => EntriesPlaced
  BY BookOfState DEF Linked, EntriesPlaced
<1> QED
  BY <1>1, TablesLinked, PTL

\* A settlement is backed by exactly one entry, in the account and for the
\* amount it names, whatever is settled, re-settled, reversed or cascaded.
THEOREM SettlementsStayBacked == PortfolioSpec => []SettlementsBacked
<1>1. Linked => SettlementsBacked
  BY BookOfState DEF Linked
<1> QED
  BY <1>1, TablesLinked, PTL

\* No entry of a trade that still exists lacks its settlement, so that the
\* entry is taken back with the trade.
THEOREM LiveTradesStaySettled == PortfolioSpec => []LiveTradesSettled
<1>1. Linked => LiveTradesSettled
  BY DEF Linked
<1> QED
  BY <1>1, TablesLinked, PTL

-----------------------------------------------------------------------------
(***************************************************************************)
(* Trades and holdings.  The replay of a symbol's trades stays opaque,     *)
(* but for that of no trades at all.                                       *)
(***************************************************************************)
\* No trades replay to no lots.
LEMMA ReplayOfNothing == Replay({}) = NoLots
BY DEF Replay, MapThenFoldSet

\* No lots hold nothing.
LEMMA QuantityOfNothing == LotQuantity(<<>>) = 0
<1> DEFINE none == <<>>
           Iterates(f) == f = [S \in SUBSET {} |->
                                 IF S = {} THEN 0 ELSE f[S \ {Max(S)}] + none[Max(S)].quantity]
<1>1. DOMAIN none = {}
  OBVIOUS
<1> HIDE DEF none
<1>2. Iterates([S \in SUBSET {} |-> 0])
  OBVIOUS
<1>3. LotQuantity(none) = (CHOOSE f : Iterates(f))[{}]
  BY <1>1 DEF LotQuantity, FoldLeft, MapThenFoldSet
<1>4. Iterates(CHOOSE f : Iterates(f))
  BY <1>2
<1> QED
  BY <1>3, <1>4 DEF none

\* Having no trades is fine, and no position.
LEMMA EmptyPosition == Replayable({}) /\ Projection({}) = NoHolding
<1>1. ProjectedQuantity(NoLots.lots) = 0
  BY QuantityOfNothing DEF NoLots, ProjectedQuantity, Epsilon
<1> QED
  BY <1>1, ReplayOfNothing DEF Replayable, Projection, NoLots

Positioned == TradesReplay /\ PositionsHeld

SameElsewhere(T, s) == \A x : x # s => TradesOf(T, x) = TradesOf(trades, x)

\* Projecting one symbol leaves every symbol in order when only its trades
\* were written.
LEMMA ProjectedPositions ==
  ASSUME Positioned, NEW T, NEW s \in Symbols, Projected(T, s), SameElsewhere(T, s)
  PROVE  Positioned'
<1> DEFINE row == Projection(TradesOf(T, s))
<1>1. /\ Replayable(TradesOf(T, s)) /\ trades' = T
      /\ holdings' = IF row = NoHolding
                     THEN Without(holdings, {s})
                     ELSE [x \in DOMAIN holdings \cup {s} |-> IF x = s THEN row ELSE holdings[x]]
  BY DEF Projected
<1> HIDE DEF row
<1>2. \A x \in DOMAIN holdings : x # s => x \in DOMAIN holdings' /\ holdings'[x] = holdings[x]
  <2>1. CASE row = NoHolding
    BY <1>1, <2>1 DEF Without
  <2>2. CASE row # NoHolding
    BY <1>1, <2>2
  <2> QED
    BY <2>1, <2>2
<1>3. row # NoHolding => s \in DOMAIN holdings' /\ holdings'[s] = row
  BY <1>1
<1>4. TradesReplay'
  <2> SUFFICES ASSUME NEW x \in Symbols PROVE Replayable(TradesOf(T, x))
    BY <1>1 DEF TradesReplay
  <2>1. CASE x # s
    BY <2>1 DEF Positioned, TradesReplay, SameElsewhere
  <2> QED
    BY <1>1, <2>1
<1>5. PositionsHeld'
  <2> SUFFICES ASSUME NEW x \in Symbols, Projection(TradesOf(T, x)) # NoHolding
               PROVE  x \in DOMAIN holdings' /\ holdings'[x] = Projection(TradesOf(T, x))
    BY <1>1 DEF PositionsHeld
  <2>1. CASE x = s
    BY <1>3, <2>1 DEF row
  <2>2. CASE x # s
    BY <1>2, <2>2 DEF Positioned, PositionsHeld, SameElsewhere
  <2> QED
    BY <2>1, <2>2
<1> QED
  BY <1>4, <1>5 DEF Positioned

\* Requests on trades project the symbol of the one trade they write.
LEMMA TradeStepPositions ==
  ASSUME Linked, Positioned, TradeStep
  PROVE  Positioned'
<1>1. ASSUME NEW s \in Symbols, NEW t, t.symbol = s, Projected(trades \cup {t}, s)
      PROVE  Positioned'
  BY <1>1, ProjectedPositions DEF SameElsewhere, TradesOf
<1>2. CASE CreateTrade
  <2>1. PICK s, side, q, p, currency, d :
               s \in Symbols /\ Projected(trades \cup {NewTrade(s, side, q, p, currency, d)}, s)
    BY <1>2 DEF CreateTrade, Buy, Sell
  <2>2. NewTrade(s, side, q, p, currency, d).symbol = s
    BY DEF NewTrade
  <2> QED
    BY <1>1, <2>1, <2>2
<1>3. ASSUME NEW t \in trades, NEW u, u.symbol = t.symbol, Revised(t, u)
      PROVE  Positioned'
  <2>1. t.symbol \in Symbols
    BY DEF Linked, RowsLinked, TradeRow
  <2> QED
    BY <1>3, <2>1, ProjectedPositions DEF Revised, SameElsewhere, TradesOf
<1>4. ASSUME NEW t \in trades, UpdateTrade(t)
      PROVE  Positioned'
  <2>1. PICK q, p, currency, d : Revised(t, Rewritten(t, q, p, currency, d))
    BY <1>4 DEF UpdateTrade, UpdateBuy, UpdateSell, UpdateAdjust
  <2>2. TradeRow(t)
    BY DEF Linked, RowsLinked
  <2> QED
    BY <1>3, <2>1, <2>2, RewrittenRow
<1>5. ASSUME NEW t \in trades, DeleteTrade(t)
      PROVE  Positioned'
  <2>1. t.symbol \in Symbols
    BY DEF Linked, RowsLinked, TradeRow
  <2> QED
    BY <1>5, <2>1, ProjectedPositions DEF DeleteTrade, SameElsewhere, TradesOf
<1> QED
  BY <1>2, <1>4, <1>5 DEF TradeStep

\* A holding edit writes only trades of its symbol, and their position unless
\* none is left.
LEMMA EditHoldingPositions ==
  ASSUME Linked, Positioned, NEW s \in Symbols, NEW q, NEW p, NEW d, EditHolding(s, q, p, d)
  PROVE  Positioned'
<1> DEFINE T == Adjusted(s, q, p, d)
           row == Projection(TradesOf(T, s))
<1>1. /\ s \in DOMAIN holdings
      /\ Replayable(TradesOf(T, s)) /\ trades' = T
      /\ holdings' = IF row = NoHolding THEN holdings ELSE [holdings EXCEPT ![s] = row]
  BY DEF EditHolding
<1>2. SameElsewhere(T, s)
  <2>1. CASE T = trades \cup {NewTrade(s, "ADJUST", q, p, CNY, d)}
    <3>1. NewTrade(s, "ADJUST", q, p, CNY, d).symbol = s
      BY DEF NewTrade
    <3> HIDE DEF T
    <3> QED
      BY <2>1, <3>1 DEF SameElsewhere, TradesOf
  <2> QED
    BY <2>1, AdjustedTrades DEF SameElsewhere
<1> HIDE DEF T, row
<1>3. TradesReplay'
  BY <1>1, <1>2 DEF Positioned, TradesReplay, SameElsewhere
<1>4. PositionsHeld'
  <2> SUFFICES ASSUME NEW x \in Symbols, Projection(TradesOf(T, x)) # NoHolding
               PROVE  x \in DOMAIN holdings' /\ holdings'[x] = Projection(TradesOf(T, x))
    BY <1>1 DEF PositionsHeld
  <2>1. CASE x = s
    BY <1>1, <2>1 DEF row
  <2>2. CASE x # s
    BY <1>1, <1>2, <2>2 DEF Positioned, PositionsHeld, SameElsewhere
  <2> QED
    BY <2>1, <2>2
<1> QED
  BY <1>3, <1>4 DEF Positioned

\* Deleting a holding leaves no trades of its symbol.
LEMMA DeleteHoldingPositions ==
  ASSUME Positioned, NEW s \in Symbols, DeleteHolding(s)
  PROVE  Positioned'
<1> DEFINE T == trades \ TradesOf(trades, s)
<1>1. trades' = T /\ holdings' = Without(holdings, {s})
  BY DEF DeleteHolding
<1>2. TradesOf(T, s) = {} /\ SameElsewhere(T, s)
  BY DEF SameElsewhere, TradesOf
<1> HIDE DEF T
<1>3. \A x \in DOMAIN holdings : x # s => x \in DOMAIN holdings' /\ holdings'[x] = holdings[x]
  BY <1>1 DEF Without
<1>4. TradesReplay'
  BY <1>1, <1>2, EmptyPosition DEF Positioned, TradesReplay, SameElsewhere
<1>5. PositionsHeld'
  BY <1>1, <1>2, <1>3, EmptyPosition DEF Positioned, PositionsHeld, SameElsewhere
<1> QED
  BY <1>4, <1>5 DEF Positioned

\* Trades always replay, and what they leave is what the holding rows say.
LEMMA AlwaysPositioned == PortfolioSpec => []Positioned
<1>1. PortfolioInit => Positioned
  <2> SUFFICES ASSUME PortfolioInit PROVE Positioned
    OBVIOUS
  <2>1. \A s : TradesOf(trades, s) = {}
    BY DEF PortfolioInit, TradesOf
  <2> QED
    BY <2>1, EmptyPosition DEF Positioned, TradesReplay, PositionsHeld
<1>2. Linked /\ Positioned /\ [PortfolioNext]_vars => Positioned'
  <2> SUFFICES ASSUME Linked, Positioned, [PortfolioNext]_vars PROVE Positioned'
    OBVIOUS
  <2>1. CASE UNCHANGED <<trades, holdings>>
    BY <2>1 DEF Positioned, TradesReplay, PositionsHeld
  <2>2. CASE HoldingStep
    BY <2>2, EditHoldingPositions, DeleteHoldingPositions
       DEF HoldingStep, AdjustHolding, UpdateHolding, UpdateHoldingDate,
           UpdateHoldingQuantity, UpdateHoldingCost
  <2> QED
    BY <2>1, <2>2, TradeStepPositions DEF PortfolioNext, CashStep, vars
<1> QED
  BY <1>1, <1>2, TablesLinked, PTL DEF PortfolioSpec

\* The trades stored for a symbol replay after every request, so no later one
\* fails on them: each handler that writes trades projects their symbol first.
THEOREM TradesAlwaysReplay == PortfolioSpec => []TradesReplay
<1>1. Positioned => TradesReplay
  BY DEF Positioned
<1> QED
  BY <1>1, AlwaysPositioned, PTL

\* A symbol whose trades leave a position has the row of that position.
THEOREM PositionsAlwaysHeld == PortfolioSpec => []PositionsHeld
<1>1. Positioned => PositionsHeld
  BY DEF Positioned
<1> QED
  BY <1>1, AlwaysPositioned, PTL

-----------------------------------------------------------------------------
(***************************************************************************)
(* Amounts.  A handler works on a book that has at most lost settlements,  *)
(* and adds at most one, which the paying account covers.                  *)
(***************************************************************************)
Reduced(U) ==
  /\ Amounts(U.entries)
  /\ U.transfers = transfers
  /\ \A i \in DOMAIN U.settlements :
       i \in DOMAIN settlements /\ U.settlements[i] = settlements[i]

Charged(P) ==
  \A i \in DOMAIN P.settlements :
    ~P.settlements[i].inflow
    /\ (i \notin DOMAIN settlements \/ P.settlements[i] # settlements[i])
      => P.accounts[P.settlements[i].account].balance >= -Epsilon

Fits(P) == Amounts(P.entries) /\ P.transfers = transfers /\ Charged(P)

\* A book that only lost settlements charges nobody.
LEMMA ReducedFits ==
  ASSUME NEW U, Reduced(U)
  PROVE  Fits(U)
BY DEF Reduced, Fits, Charged

\* One settlement more is covered, when what is to be paid is there.
LEMMA SettledFits ==
  ASSUME NEW U, Reduced(U), NEW t, NEW a \in DOMAIN U.accounts, NEW amount \in Int,
         NEW inflow \in BOOLEAN, NEW auto,
         ~inflow => /\ RoomForEntry(U.entries)
                    /\ LedgerSum(EntriesOf(U.entries, a)) + Epsilon >= amount
  PROVE  Fits(Settled(U, t, a, amount, inflow, auto))
<1> DEFINE type == IF inflow THEN "SELL_PROCEEDS" ELSE "BUY_FUNDING"
           signed == IF inflow THEN amount ELSE -amount
           Q == Posted(U, a, type, signed, t.id, NoRef)
           row == [account |-> a, amount |-> amount, inflow |-> inflow, auto |-> auto]
           S == [i \in DOMAIN U.settlements \cup {t.id} |->
                   IF i = t.id THEN row ELSE U.settlements[i]]
           P == LedgerBook(Q.accounts, Q.entries, U.transfers, S)
<1>1. Settled(U, t, a, amount, inflow, auto) = P
  BY DEF Settled
<1>2. signed \in Int /\ (~inflow => signed = -amount)
  OBVIOUS
<1>3. row.account = a /\ row.inflow = inflow
  OBVIOUS
<1> HIDE DEF type, signed, row
<1>4. /\ Amounts(Q.entries)
      /\ RoomForEntry(U.entries)
           => Q.accounts[a].balance = LedgerSum(EntriesOf(U.entries, a)) + signed
  BY <1>2, PostedAmount DEF Reduced
<1> HIDE DEF Q
<1>5. /\ P.accounts = Q.accounts /\ P.entries = Q.entries /\ P.transfers = U.transfers
      /\ P.settlements = S
  BY DEF LedgerBook
<1>6. LedgerSum(EntriesOf(U.entries, a)) \in Int
  BY FewerAmounts, SumIsInt DEF Reduced, EntriesOf
<1>7. ~inflow => Q.accounts[a].balance >= -Epsilon
  BY <1>2, <1>4, <1>6 DEF Epsilon
<1> HIDE DEF P
<1>8. ASSUME NEW i \in DOMAIN P.settlements, ~P.settlements[i].inflow,
             i \notin DOMAIN settlements \/ P.settlements[i] # settlements[i]
      PROVE  P.accounts[P.settlements[i].account].balance >= -Epsilon
  <2>1. i = t.id
    BY <1>5, <1>8 DEF Reduced
  <2>2. P.settlements[i] = row
    BY <1>5, <2>1
  <2> QED
    BY <1>3, <1>5, <1>7, <1>8, <2>2
<1> QED
  BY <1>1, <1>4, <1>5, <1>8 DEF Fits, Charged, Reduced

\* What a trade comes to.
LEMMA SettledAmountIsInt ==
  ASSUME NEW B, NEW t, t.quantity \in Int, t.price \in Int, NEW a, NEW rate \in FxRates
  PROVE  t.quantity * t.price \in Int /\ SettledAmount(B, t, a, rate) \in Int
<1>1. t.quantity * t.price \in Int /\ rate \in Int
  BY LedgerConstants
<1> DEFINE value == t.quantity * t.price
<1>2. SettledAmount(B, t, a, rate) = Converted(value, t.currency, B.accounts[a].currency, rate)
  BY DEF SettledAmount
<1>3. value \in Int
  BY <1>1
<1> HIDE DEF value
<1> QED
  BY <1>1, <1>2, <1>3, ConvertedAmount

\* _apply_buy_funding_handling
LEMMA FundedFits ==
  ASSUME NEW U, Reduced(U), Balanced(U), NEW t, t.quantity \in Int, t.price \in Int,
         NEW a, NEW rate \in FxRates, MayFund(U, t, a, rate)
  PROVE  Fits(Funded(U, t, a, rate))
<1> DEFINE amount == SettledAmount(U, t, a, rate)
           inflow == FALSE
<1>1. amount \in Int
  BY SettledAmountIsInt
<1>2. /\ a \in DOMAIN U.accounts /\ RoomForEntry(U.entries)
      /\ LedgerSum(EntriesOf(U.entries, a)) + Epsilon >= amount
  BY DEF MayFund, Balanced
<1>3. Funded(U, t, a, rate) = Settled(U, t, a, amount, inflow, inflow)
  BY DEF Funded
<1>4. inflow \in BOOLEAN
  OBVIOUS
<1> HIDE DEF amount, inflow
<1> QED
  BY <1>1, <1>2, <1>3, <1>4, SettledFits

\* _apply_sell_proceeds_handling
LEMMA CreditedFits ==
  ASSUME NEW U, Reduced(U), NEW t, t.quantity \in Int, t.price \in Int,
         NEW handling \in Handlings, NEW a, NEW rate \in FxRates, MayCredit(U, handling, a)
  PROVE  Fits(Credited(U, t, handling, a, rate))
<1> DEFINE inflow == TRUE
           auto == FALSE
<1>1. inflow \in BOOLEAN /\ inflow
  OBVIOUS
<1>2. CASE handling = "DISCARD"
  <2>1. Credited(U, t, handling, a, rate) = U
    BY <1>2 DEF Credited
  <2> QED
    BY <2>1, ReducedFits
<1>3. CASE handling = "ADD_TO_EXISTING_CASH"
  <2> DEFINE amount == SettledAmount(U, t, a, rate)
  <2>1. Credited(U, t, handling, a, rate) = Settled(U, t, a, amount, inflow, auto)
    BY <1>3 DEF Credited
  <2>2. a \in DOMAIN U.accounts /\ amount \in Int
    BY <1>3, SettledAmountIsInt DEF MayCredit
  <2> HIDE DEF amount, inflow, auto
  <2> QED
    BY <1>1, <2>1, <2>2, SettledFits
<1>4. CASE handling = "CREATE_NEW_CASH"
  <2> DEFINE x == FreshId(AccountIds, DOMAIN U.accounts)
             proceeds == TRUE
             V == Opened(U, x, t.currency, proceeds, 0)
             amount == t.quantity * t.price
  <2>1. Credited(U, t, handling, a, rate) = Settled(V, t, x, amount, inflow, inflow)
    BY <1>4 DEF Credited, CreditedToNew
  <2>2. amount \in Int
    BY SettledAmountIsInt
  <2> HIDE DEF x, proceeds
  <2>3. Amounts(V.entries)
    <3>1. Amounts(U.entries) /\ 0 \in Int
      BY DEF Reduced
    <3> QED
      BY <3>1, OpenedAmount
  <2>4. /\ V.transfers = U.transfers /\ V.settlements = U.settlements
        /\ x \in DOMAIN V.accounts
    BY DEF Opened, Reconciled, Posted, Synced, LedgerBook
  <2> HIDE DEF V, amount, inflow
  <2>5. Reduced(V)
    BY <2>3, <2>4 DEF Reduced
  <2> QED
    BY <1>1, <2>1, <2>2, <2>4, <2>5, SettledFits
<1> QED
  BY <1>2, <1>3, <1>4 DEF Handlings

\* Taking settlements back leaves a sound book that lost them.
LEMMA ReversedReduces ==
  ASSUME Linked, Amounts(entries), NEW T, IdsOf(T) \subseteq DOMAIN settlements
  PROVE  Reduced(Reversed(Book, T)) /\ Balanced(Reversed(Book, T))
<1> DEFINE R == Reversed(Book, T)
<1>1. /\ Sound(R) /\ \A e \in R.entries : e \in entries
      /\ DOMAIN R.settlements = DOMAIN settlements \ IdsOf(T)
  BY ReversedSound, BookFields DEF Linked
<1>2. R.transfers = transfers /\ R.settlements = Without(settlements, IdsOf(T))
  BY BookFields DEF Reversed, LedgerBook
<1> HIDE DEF R
<1>3. Amounts(R.entries)
  BY <1>1, FewerAmounts
<1>4. \A i \in DOMAIN R.settlements :
        i \in DOMAIN settlements /\ R.settlements[i] = settlements[i]
  BY <1>2 DEF Without
<1> QED
  BY <1>1, <1>2, <1>3, <1>4 DEF Reduced, Sound, R

LEMMA UndoneReduces ==
  ASSUME Linked, Amounts(entries), NEW t \in trades
  PROVE  Reduced(Undone(t)) /\ Balanced(Undone(t))
<1>1. IdsOf(SettledAmong(Book, {t})) \subseteq DOMAIN settlements
  BY BookFields DEF SettledAmong, IdsOf
<1> QED
  BY <1>1, ReversedReduces DEF Undone

\* Every request on a trade commits a fitting book.
LEMMA TradeStepFits ==
  ASSUME Linked, Amounts(entries), TradeStep
  PROVE  \E P : Commit(P) /\ Fits(P)
<1>1. Reduced(Book) /\ Balanced(Book)
  BY BookFields DEF Reduced, Linked, Sound
<1>2. ASSUME NEW t \in trades
      PROVE  /\ Reduced(Undone(t)) /\ Balanced(Undone(t)) /\ Fits(Undone(t))
             /\ \A q, p, currency, d : /\ Rewritten(t, q, p, currency, d).quantity = q
                                       /\ Rewritten(t, q, p, currency, d).price = p
  <2>1. TradeRow(t)
    BY DEF Linked, RowsLinked
  <2> QED
    BY <2>1, UndoneReduces, ReducedFits, RewrittenRow
<1>3. ASSUME NEW s \in Symbols, NEW q \in Quantities, NEW p \in Prices, NEW currency \in Currencies,
             NEW d \in Days, NEW a \in AccountIds \cup {NoRef}, NEW rate \in FxRates,
             Buy(s, q, p, currency, d, a, rate)
      PROVE  \E P : Commit(P) /\ Fits(P)
  <2> DEFINE t == NewTrade(s, "BUY", q, p, currency, d)
             funded == p # NoPrice /\ a # NoRef
  <2>1. /\ funded => MayFund(Book, t, a, rate)
        /\ Commit(IF funded THEN Funded(Book, t, a, rate) ELSE Book)
    BY <1>3 DEF Buy
  <2>2. t.quantity \in Int /\ t.price \in Int
    BY TradeConstants DEF NewTrade
  <2> HIDE DEF t, funded
  <2> QED
    BY <1>1, <2>1, <2>2, FundedFits, ReducedFits
<1>4. ASSUME NEW s \in Symbols, NEW q \in Quantities, NEW p \in Prices, NEW currency \in Currencies,
             NEW d \in Days, NEW handling \in Handlings, NEW a \in AccountIds \cup {NoRef},
             NEW rate \in FxRates, Sell(s, q, p, currency, d, handling, a, rate)
      PROVE  \E P : Commit(P) /\ Fits(P)
  <2> DEFINE t == NewTrade(s, "SELL", q, p, currency, d)
  <2>1. MayCredit(Book, handling, a) /\ Commit(Credited(Book, t, handling, a, rate))
    BY <1>4 DEF Sell
  <2>2. t.quantity \in Int /\ t.price \in Int
    BY TradeConstants DEF NewTrade
  <2> HIDE DEF t
  <2> QED
    BY <1>1, <2>1, <2>2, CreditedFits
<1>5. ASSUME NEW t \in trades, NEW q \in Quantities, NEW p \in Prices, NEW currency \in Currencies,
             NEW d \in Days, NEW a \in AccountIds \cup {NoRef}, NEW rate \in FxRates,
             UpdateBuy(t, q, p, currency, d, a, rate)
      PROVE  \E P : Commit(P) /\ Fits(P)
  <2> DEFINE u == Rewritten(t, q, p, currency, d)
             payer == IF a # NoRef \/ ~(t.id \in DOMAIN settlements)
                      THEN a ELSE settlements[t.id].account
  <2>1. /\ payer # NoRef => MayFund(Undone(t), u, payer, rate)
        /\ Commit(IF payer # NoRef THEN Funded(Undone(t), u, payer, rate) ELSE Undone(t))
    BY <1>5 DEF UpdateBuy
  <2>2. u.quantity \in Int /\ u.price \in Int
    BY <1>2, TradeConstants
  <2> HIDE DEF u, payer
  <2> QED
    BY <1>2, <2>1, <2>2, FundedFits
<1>6. ASSUME NEW t \in trades, NEW q \in Quantities, NEW p \in Prices, NEW currency \in Currencies,
             NEW d \in Days, NEW handling \in Handlings \cup {"KEEP"},
             NEW a \in AccountIds \cup {NoRef}, NEW rate \in FxRates,
             UpdateSell(t, q, p, currency, d, handling, a, rate)
      PROVE  \E P : Commit(P) /\ Fits(P)
  <2> DEFINE u == Rewritten(t, q, p, currency, d)
             was == t.id \in DOMAIN settlements
             kept == IF ~was THEN "DISCARD"
                     ELSE IF settlements[t.id].auto THEN "CREATE_NEW_CASH"
                     ELSE "ADD_TO_EXISTING_CASH"
             how == IF handling = "KEEP" THEN kept ELSE handling
             payee == IF a = NoRef /\ was /\ ~settlements[t.id].auto
                      THEN settlements[t.id].account ELSE a
  <2>1. /\ MayCredit(Undone(t), how, payee)
        /\ Commit(Credited(Undone(t), u, how, payee, rate))
    BY <1>6 DEF UpdateSell
  <2>2. u.quantity \in Int /\ u.price \in Int
    BY <1>2, TradeConstants
  <2>3. how \in Handlings
    BY DEF Handlings
  <2> HIDE DEF u, how, payee
  <2> QED
    BY <1>2, <2>1, <2>2, <2>3, CreditedFits
<1>7. ASSUME NEW t \in trades, NEW q, NEW p, NEW currency, NEW d,
             UpdateAdjust(t, q, p, currency, d) \/ DeleteTrade(t)
      PROVE  \E P : Commit(P) /\ Fits(P)
  BY <1>2, <1>7 DEF UpdateAdjust, DeleteTrade
<1>8. CASE CreateTrade
  BY <1>3, <1>4, <1>8 DEF CreateTrade
<1>9. ASSUME NEW t \in trades, UpdateTrade(t) \/ DeleteTrade(t)
      PROVE  \E P : Commit(P) /\ Fits(P)
  BY <1>5, <1>6, <1>7, <1>9 DEF UpdateTrade
<1> QED
  BY <1>8, <1>9 DEF TradeStep

\* Requests on holdings settle nothing.
LEMMA HoldingStepFits ==
  ASSUME Linked, Amounts(entries), HoldingStep
  PROVE  \E P : Commit(P) /\ Fits(P)
<1>1. Reduced(Book)
  BY BookFields DEF Reduced
<1>2. ASSUME NEW s, NEW q, NEW p, NEW d, EditHolding(s, q, p, d)
      PROVE  \E P : Commit(P) /\ Fits(P)
  <2>1. Commit(Book)
    BY <1>2, BookFields DEF EditHolding, Commit, ledgerVars
  <2> QED
    BY <1>1, <2>1, ReducedFits
<1>3. ASSUME NEW s \in Symbols, DeleteHolding(s)
      PROVE  \E P : Commit(P) /\ Fits(P)
  <2> DEFINE T == TradesOf(trades, s)
             sells == SettledAmong(Book, {t \in T : t.side = "SELL"})
             R == Reversed(Book, sells)
             P == LedgerBook(R.accounts, R.entries, R.transfers, Without(R.settlements, IdsOf(T)))
  <2>1. Commit(P)
    BY <1>3 DEF DeleteHolding
  <2>2. IdsOf(sells) \subseteq DOMAIN settlements
    BY BookFields DEF SettledAmong, IdsOf
  <2> HIDE DEF T, sells
  <2>3. Reduced(R)
    BY <2>2, ReversedReduces
  <2> HIDE DEF R
  <2>4. /\ P.entries = R.entries /\ P.transfers = R.transfers
        /\ P.settlements = Without(R.settlements, IdsOf(T))
    BY DEF LedgerBook
  <2> HIDE DEF P
  <2>5. Reduced(P)
    BY <2>3, <2>4 DEF Reduced, Without
  <2> QED
    BY <2>1, <2>5, ReducedFits
<1> QED
  BY <1>2, <1>3 DEF HoldingStep, AdjustHolding, UpdateHolding, UpdateHoldingDate,
                    UpdateHoldingQuantity, UpdateHoldingCost

\* What a step of either kind may do to transfers and settlements.
PaidFor(t) ==
  ~settlements'[t].inflow /\ (t \notin DOMAIN settlements \/ settlements'[t] # settlements[t])
    => accounts'[settlements'[t].account].balance >= -Epsilon

LEMMA PortfolioStepCovered ==
  ASSUME Linked, Amounts(entries), PortfolioNext
  PROVE  /\ Amounts(entries')
         /\ \A t \in DOMAIN settlements' : PaidFor(t)
         /\ \A x \in DOMAIN transfers' : Covered(x)
<1>1. CASE CashStep
  <2>1. Countable /\ Next
    BY <1>1 DEF Countable, Linked, CashStep
  <2>2. KeepsTrades
    BY <2>1, AccountsCashOnly, AdjustmentsCashOnly, TransfersCashOnly DEF Next
  <2>3. \A t \in DOMAIN settlements' : PaidFor(t)
    BY <2>2 DEF KeepsTrades, PaidFor
  <2> QED
    BY <2>1, <2>3, NextAmounts, NextCovered
<1>2. CASE TradeStep \/ HoldingStep
  <2>1. PICK P : Commit(P) /\ Fits(P)
    BY <1>2, TradeStepFits, HoldingStepFits
  <2>2. /\ accounts' = P.accounts /\ entries' = P.entries
        /\ transfers' = P.transfers /\ settlements' = P.settlements
    BY <2>1 DEF Commit
  <2> QED
    BY <2>1, <2>2 DEF Fits, Charged, PaidFor, Covered
<1> QED
  BY <1>1, <1>2 DEF PortfolioNext

\* The ledger stays a finite set of integer amounts.
LEMMA AmountsStay == PortfolioSpec => [](Linked /\ Amounts(entries))
<1>1. PortfolioInit => Amounts(entries)
  BY FS_EmptySet DEF PortfolioInit, Init, Amounts
<1>2. Linked /\ Amounts(entries) /\ [PortfolioNext]_vars => Amounts(entries)'
  <2> SUFFICES ASSUME Linked, Amounts(entries), [PortfolioNext]_vars PROVE Amounts(entries')
    BY DEF Amounts
  <2> QED
    BY PortfolioStepCovered DEF vars
<1> QED
  BY <1>1, <1>2, TablesLinked, PTL DEF PortfolioSpec

\* Whoever pays for a buy, when it is entered or edited, is left with at least
\* minus one quantum: funds are checked after the old settlement is undone,
\* in the account and for the amount that is then written.
THEOREM FundingIsCovered == PortfolioSpec => FundingCovered
<1>1. Linked /\ Amounts(entries) /\ [PortfolioNext]_vars
        => [\A t \in DOMAIN settlements' :
              ~settlements'[t].inflow
              /\ (t \notin DOMAIN settlements \/ settlements'[t] # settlements[t])
                => accounts'[settlements'[t].account].balance >= -Epsilon]_vars
  BY PortfolioStepCovered DEF PaidFor
<1> QED
  BY <1>1, AmountsStay, PTL DEF PortfolioSpec, FundingCovered

\* Trades never write a transfer, so the cover of transfers stays as it is
\* under the cash handlers alone.
THEOREM TradesKeepCover == PortfolioSpec => WithdrawalsCovered
<1>1. Linked /\ Amounts(entries) /\ [PortfolioNext]_vars
        => [\A x \in DOMAIN transfers' :
              (x \notin DOMAIN transfers \/ transfers'[x] # transfers[x])
                => accounts'[transfers'[x].from].balance >= -Epsilon]_ledgerVars
  BY PortfolioStepCovered DEF Covered, vars, ledgerVars
<1> QED
  BY <1>1, AmountsStay, PTL DEF PortfolioSpec, WithdrawalsCovered

\* A retyped balance stands whatever trades were settled in the account.
THEOREM TradesKeepTypedBalances == PortfolioSpec => BalanceAsTyped
<1>1. Linked /\ Amounts(entries)
        => [\A a \in AccountIds, currency \in Currencies, proceeds \in ProceedsFlags,
              b \in StartBalances :
              UpdateAccount(a, currency, proceeds, b)
                => accounts'[a].balance = b]_ledgerVars
  BY TypedBalance DEF Linked, Countable
<1> QED
  BY <1>1, AmountsStay, PTL DEF BalanceAsTyped

-----------------------------------------------------------------------------
(***************************************************************************)
(* The records.  What a listing learns is a fold over the log, which the   *)
(* provers see as the function that FoldLeft chooses.  A smallest          *)
(* counterexample shows that this function exists and learns one audit     *)
(* after the other: LearnedUnfolds says how what is known of the trades    *)
(* changes with an audit.                                                  *)
(***************************************************************************)
\* A non-empty set of numbers has a least one.
LEMMA LeastNumber ==
  ASSUME NEW F \in SUBSET Nat, F # {}
  PROVE  \E n \in F : \A m \in F : n <= m
<1>1. PICK top \in F : TRUE
  OBVIOUS
<1> DEFINE E == 0 .. top
           G == {0 .. m : m \in {k \in F : k <= top}}
<1>2. IsFiniteSet(E)
  BY <1>1, FS_Interval
<1>3. G \subseteq SUBSET E /\ G # {}
  BY <1>1
<1>4. PICK S \in G : \A R \in G : R \subseteq S => R = S
  <2> HIDE DEF E, G
  <2> QED
    BY <1>2, <1>3, SmallestSet
<1>5. PICK n \in F : n <= top /\ S = 0 .. n
  OBVIOUS
<1>6. ASSUME NEW m \in F, m < n
      PROVE  FALSE
  <2>1. 0 .. m \in G /\ 0 .. m \subseteq S
    BY <1>1, <1>5, <1>6
  <2>2. 0 .. m = 0 .. n
    BY <1>4, <1>5, <2>1
  <2> QED
    BY <1>6, <2>2
<1> QED
  BY <1>6

\* The largest of some numbers.
LEMMA MaxIs ==
  ASSUME NEW S \in SUBSET Int, NEW n \in S, \A m \in S : m <= n
  PROVE  Max(S) = n
<1>1. \E x \in S : \A y \in S : x >= y
  OBVIOUS
<1>2. Max(S) \in S /\ \A y \in S : Max(S) >= y
  BY <1>1, Zenon DEF Max
<1> DEFINE x == Max(S)
<1>3. x \in S /\ x >= n
  BY <1>2
<1> HIDE DEF x
<1>4. x = n
  BY <1>3
<1> QED
  BY <1>4 DEF x

Start == [versions |-> {}, ok |-> TRUE, profits |-> <<>>]

\* The function that ProfitMap chooses: it adds the last audit of a set of
\* positions to what is learned from the others.
LearnsFrom(f, L, n) ==
  f = [S \in SUBSET (1 .. n) |->
         IF S = {} THEN Start ELSE Profited(f[S \ {Max(S)}], L[Max(S)])]

\* What is learned from a log is what that function says of all its positions.
LEMMA ProfitMapIsChoice ==
  ASSUME NEW L, NEW n, DOMAIN L = 1 .. n
  PROVE  ProfitMap(L) = (CHOOSE f : LearnsFrom(f, L, n))[1 .. n]
BY DEF ProfitMap, FoldLeft, MapThenFoldSet, LearnsFrom, Start

\* It learns the last audit last.
LEMMA LearnsLast ==
  ASSUME NEW f, NEW L, NEW n \in Nat, LearnsFrom(f, L, n), NEW k \in 1 .. n
  PROVE  f[1 .. k] = Profited(f[1 .. (k - 1)], L[k])
<1> DEFINE S == 1 .. k
           R == 1 .. (k - 1)
<1>1. S \in SUBSET (1 .. n) /\ S # {} /\ S \ {k} = R
  OBVIOUS
<1>2. S \in SUBSET Int /\ k \in S /\ \A m \in S : m <= k
  OBVIOUS
<1> HIDE DEF S, R
<1>3. Max(S) = k
  BY <1>2, MaxIs
<1>4. f[S] = Profited(f[S \ {Max(S)}], L[Max(S)])
  BY <1>1 DEF LearnsFrom
<1> QED
  BY <1>1, <1>3, <1>4 DEF S, R

\* Such a function exists for all positions up to any n.
LEMMA LearningExists ==
  ASSUME NEW L, NEW n \in Nat
  PROVE  \E f : LearnsFrom(f, L, n)
<1> DEFINE F == {m \in Nat : ~ \E f : LearnsFrom(f, L, m)}
<1>1. SUFFICES ASSUME F # {} PROVE FALSE
  OBVIOUS
<1>2. PICK m \in F : \A k \in F : m <= k
  BY <1>1, LeastNumber
<1>3. CASE m = 0
  <2>1. LearnsFrom([S \in SUBSET (1 .. 0) |-> Start], L, 0)
    <3>1. \A S \in SUBSET (1 .. 0) : S = {}
      OBVIOUS
    <3> QED
      BY <3>1 DEF LearnsFrom
  <2> QED
    BY <1>2, <1>3, <2>1
<1>4. CASE m # 0
  <2> DEFINE k == m - 1
  <2>1. k \in Nat /\ k \notin F /\ m = k + 1
    BY <1>2, <1>4
  <2>2. PICK f : LearnsFrom(f, L, k)
    BY <2>1
  <2> HIDE DEF k, F
  <2> DEFINE g == [S \in SUBSET (1 .. m) |->
                     IF m \in S THEN Profited(f[S \ {m}], L[m]) ELSE f[S]]
             h == [S \in SUBSET (1 .. m) |->
                     IF S = {} THEN Start ELSE Profited(g[S \ {Max(S)}], L[Max(S)])]
  <2>3. ASSUME NEW S \in SUBSET (1 .. m)
        PROVE  g[S] = h[S]
    <3>1. CASE m \in S
      <4>1. Max(S) = m
        BY <2>1, <3>1, MaxIs
      <4>2. S \ {m} \in SUBSET (1 .. m) /\ m \notin S \ {m} /\ S # {}
        BY <3>1
      <4>3. g[S \ {m}] = f[S \ {m}]
        BY <4>2
      <4>4. g[S] = Profited(f[S \ {m}], L[m])
        BY <3>1
      <4>5. h[S] = Profited(g[S \ {m}], L[m])
        BY <4>1, <4>2
      <4> HIDE DEF g, h
      <4> QED
        BY <4>3, <4>4, <4>5
    <3>2. CASE m \notin S
      <4>1. S \in SUBSET (1 .. k) /\ g[S] = f[S]
        BY <2>1, <3>2
      <4>2. CASE S = {}
        BY <2>2, <4>1, <4>2 DEF LearnsFrom
      <4>3. CASE S # {}
        <5> DEFINE R == S \ {Max(S)}
        <5>1. f[S] = Profited(f[R], L[Max(S)])
          BY <2>2, <4>1, <4>3 DEF LearnsFrom
        <5>2. R \in SUBSET (1 .. m) /\ m \notin R
          BY <3>2
        <5>3. g[R] = f[R]
          BY <5>2
        <5>4. h[S] = Profited(g[R], L[Max(S)])
          BY <4>3
        <5> HIDE DEF R, g, h
        <5> QED
          BY <4>1, <5>1, <5>3, <5>4
      <4> QED
        BY <4>2, <4>3
    <3> QED
      BY <3>1, <3>2
  <2>4. g = [S \in SUBSET (1 .. m) |-> g[S]] /\ h = [S \in SUBSET (1 .. m) |-> h[S]]
    OBVIOUS
  <2>5. h = [S \in SUBSET (1 .. m) |->
               IF S = {} THEN Start ELSE Profited(g[S \ {Max(S)}], L[Max(S)])]
    OBVIOUS
  <2> HIDE DEF g, h
  <2>6. g = h
    BY <2>3, <2>4
  <2>7. LearnsFrom(g, L, m)
    BY <2>5, <2>6 DEF LearnsFrom
  <2> QED
    BY <1>2, <2>7 DEF F
<1> QED
  BY <1>3, <1>4

\* Logs that agree up to a position teach the same up to it.
LEMMA LearningAgrees ==
  ASSUME NEW L, NEW K, NEW n \in Nat, NEW m \in Nat, NEW f, NEW g,
         LearnsFrom(f, L, n), LearnsFrom(g, K, m), n <= m,
         \A i \in 1 .. n : L[i] = K[i]
  PROVE  f[1 .. n] = g[1 .. n]
<1> DEFINE F == {k \in 0 .. n : f[1 .. k] # g[1 .. k]}
<1>1. SUFFICES ASSUME F # {} PROVE FALSE
  OBVIOUS
<1>2. PICK k \in F : \A j \in F : k <= j
  <2>1. F \in SUBSET Nat
    OBVIOUS
  <2> HIDE DEF F
  <2> QED
    BY <1>1, <2>1, LeastNumber
<1>3. k \in 0 .. n /\ 1 .. k \in SUBSET (1 .. n) /\ 1 .. k \in SUBSET (1 .. m)
  OBVIOUS
<1>4. CASE k = 0
  <2>1. 1 .. k = {}
    BY <1>4
  <2> QED
    BY <1>2, <1>3, <2>1 DEF LearnsFrom
<1>5. CASE k # 0
  <2>1. k - 1 \in 0 .. n /\ k - 1 \notin F
    BY <1>2, <1>3, <1>5
  <2>2. f[1 .. (k - 1)] = g[1 .. (k - 1)]
    BY <2>1
  <2>3. k \in 1 .. n /\ k \in 1 .. m
    BY <1>3, <1>5
  <2>4. f[1 .. k] = Profited(f[1 .. (k - 1)], L[k])
    BY <2>3, LearnsLast
  <2>5. g[1 .. k] = Profited(g[1 .. (k - 1)], K[k])
    BY <2>3, LearnsLast
  <2> QED
    BY <1>2, <2>2, <2>3, <2>4, <2>5
<1> QED
  BY <1>4, <1>5

IsLog(s) == \E S : s \in Seq(S)

\* What is learned from a log, one audit at a time.
LEMMA ProfitMapUnfolds ==
  /\ ProfitMap(<<>>) = Start
  /\ \A L, a : IsLog(L) => ProfitMap(L \o <<a>>) = Profited(ProfitMap(L), a)
<1>1. ProfitMap(<<>>) = Start
  <2> DEFINE f == CHOOSE g : LearnsFrom(g, <<>>, 0)
  <2>1. LearnsFrom(f, <<>>, 0)
    BY LearningExists
  <2>2. 1 .. 0 = {} /\ DOMAIN <<>> = 1 .. 0
    OBVIOUS
  <2>3. f[1 .. 0] = Start
    <3> HIDE DEF f
    <3> QED
      BY <2>1, <2>2 DEF LearnsFrom
  <2> QED
    BY <2>2, <2>3, ProfitMapIsChoice
<1>2. ASSUME NEW L, NEW a, IsLog(L)
      PROVE  ProfitMap(L \o <<a>>) = Profited(ProfitMap(L), a)
  <2> DEFINE n == Len(L)
             K == L \o <<a>>
             f == CHOOSE h : LearnsFrom(h, L, n)
             g == CHOOSE h : LearnsFrom(h, K, n + 1)
  <2>1. PICK S : L \in Seq(S)
    BY <1>2 DEF IsLog
  <2>2. /\ n \in Nat /\ n + 1 \in Nat
        /\ DOMAIN L = 1 .. n /\ DOMAIN K = 1 .. (n + 1)
        /\ \A i \in 1 .. n : K[i] = L[i]
        /\ K[n + 1] = a
    <3>1. L \in Seq(S \cup {a}) /\ <<a>> \in Seq(S \cup {a})
      BY <2>1
    <3> QED
      BY <3>1
  <2> HIDE DEF n, K
  <2>3. LearnsFrom(f, L, n) /\ LearnsFrom(g, K, n + 1)
    BY <2>2, LearningExists
  <2>4. ProfitMap(L) = f[1 .. n] /\ ProfitMap(K) = g[1 .. (n + 1)]
    BY <2>2, ProfitMapIsChoice
  <2> HIDE DEF f, g
  <2>5. f[1 .. n] = g[1 .. n]
    BY <2>2, <2>3, LearningAgrees
  <2>6. n + 1 \in 1 .. (n + 1) /\ (n + 1) - 1 = n
    BY <2>2
  <2>7. g[1 .. (n + 1)] = Profited(g[1 .. n], K[n + 1])
    <3>1. g[1 .. (n + 1)] = Profited(g[1 .. ((n + 1) - 1)], K[n + 1])
      BY <2>2, <2>3, <2>6, LearnsLast
    <3> QED
      BY <2>6, <3>1
  <2> QED
    BY <2>2, <2>4, <2>5, <2>7 DEF K
<1> QED
  BY <1>1, <1>2

\* Logs in pieces.
LEMMA LogPieces ==
  /\ \A a : IsLog(<<a>>)
  /\ IsLog(<<>>)
  /\ \A L, A : IsLog(L) /\ IsLog(A) => IsLog(L \o A)
<1>1. ASSUME NEW L, NEW A, IsLog(L), IsLog(A)
      PROVE  IsLog(L \o A)
  <2>1. PICK S, T : L \in Seq(S) /\ A \in Seq(T)
    BY <1>1 DEF IsLog
  <2>2. L \in Seq(S \cup T) /\ A \in Seq(S \cup T)
    BY <2>1
  <2>3. L \o A \in Seq(S \cup T)
    BY <2>2
  <2> QED
    BY <2>3 DEF IsLog
<1>2. ASSUME NEW a
      PROVE  IsLog(<<a>>)
  <2>1. <<a>> \in Seq({a})
    OBVIOUS
  <2> QED
    BY <2>1 DEF IsLog
<1>3. IsLog(<<>>)
  <2>1. <<>> \in Seq({})
    OBVIOUS
  <2> QED
    BY <2>1 DEF IsLog
<1> QED
  BY <1>1, <1>2, <1>3

\* Any finite list of audits is a log.
LEMMA ListIsLog ==
  ASSUME NEW n \in Nat, NEW f, f = [i \in 1 .. n |-> f[i]]
  PROVE  IsLog(f) /\ Len(f) = n
<1> DEFINE S == {f[i] : i \in 1 .. n}
<1>1. f \in [1 .. n -> S]
  OBVIOUS
<1>2. f \in Seq(S) /\ Len(f) = n
  BY <1>1
<1> QED
  BY <1>2 DEF IsLog

\* The positions of a log.
LEMMA LogDomain ==
  ASSUME NEW L, IsLog(L)
  PROVE  Len(L) \in Nat /\ DOMAIN L = 1 .. Len(L)
<1>1. PICK S : L \in Seq(S)
  BY DEF IsLog
<1> QED
  BY <1>1

\* The log L with the first k of the audits of A.
WithFirst(L, A, k) == L \o SubSeq(A, 1, k)

\* The audits of a log are added one by one.
LEMMA AddedNext ==
  ASSUME NEW L, NEW A, IsLog(L), IsLog(A), NEW k \in Nat, k < Len(A)
  PROVE  /\ IsLog(WithFirst(L, A, k))
         /\ WithFirst(L, A, k + 1) = WithFirst(L, A, k) \o <<A[k + 1]>>
<1>1. PICK S, T : L \in Seq(S) /\ A \in Seq(T)
  BY DEF IsLog
<1> DEFINE U == S \cup T
           P == SubSeq(A, 1, k)
           Q == SubSeq(A, 1, k + 1)
<1>2. L \in Seq(U) /\ A \in Seq(U)
  BY <1>1
<1> HIDE DEF U
<1>3. P \in Seq(U) /\ Len(P) = k /\ \A i \in 1 .. k : P[i] = A[i]
  BY <1>2
<1>4. Q \in Seq(U) /\ Len(Q) = k + 1 /\ \A i \in 1 .. (k + 1) : Q[i] = A[i]
  BY <1>2
<1>5. A[k + 1] \in U /\ <<A[k + 1]>> \in Seq(U)
  BY <1>2
<1> HIDE DEF P, Q
<1>6. Q = P \o <<A[k + 1]>>
  BY <1>3, <1>4, <1>5
<1>7. L \o (P \o <<A[k + 1]>>) = (L \o P) \o <<A[k + 1]>>
  BY <1>2, <1>3, <1>5
<1>8. L \o P \in Seq(U)
  BY <1>2, <1>3
<1> QED
  BY <1>6, <1>7, <1>8 DEF P, Q, IsLog, WithFirst

\* None and all of the audits of A.
LEMMA AddedAll ==
  ASSUME NEW L, NEW A, IsLog(L), IsLog(A)
  PROVE  WithFirst(L, A, 0) = L /\ WithFirst(L, A, Len(A)) = L \o A
<1>1. PICK S, T : L \in Seq(S) /\ A \in Seq(T)
  BY DEF IsLog
<1>2. L \in Seq(S \cup T) /\ A \in Seq(S \cup T)
  BY <1>1
<1> QED
  BY <1>2 DEF WithFirst

Learned(L) == ProfitMap(L).versions

OfTrade(a) == a.entity = "HOLDING_TRANSACTION"

\* What is known of the trades after one more audit.
Updated(V, a) ==
  LET others == {u \in V : u.id # a.trade.id}
  IN IF ~OfTrade(a) THEN V
     ELSE IF a.operation = "DELETE" THEN others ELSE others \cup {a.trade}

\* A profit map has its three fields.
LEMMA ProfitMapShape ==
  ASSUME NEW L, IsLog(L)
  PROVE  "versions" \in DOMAIN ProfitMap(L)
<1> DEFINE P(k) == ProfitMap(WithFirst(<<>>, L, k))
           F == {k \in 0 .. Len(L) : "versions" \notin DOMAIN P(k)}
<1>1. IsLog(<<>>) /\ <<>> \o L = L
  <2>1. PICK S : L \in Seq(S)
    BY DEF IsLog
  <2> QED
    BY <2>1, LogPieces
<1>2. Len(L) \in Nat
  BY LogDomain
<1>3. P(0) = Start /\ P(Len(L)) = ProfitMap(L)
  <2>1. WithFirst(<<>>, L, 0) = <<>> /\ WithFirst(<<>>, L, Len(L)) = L
    BY <1>1, AddedAll
  <2> QED
    BY <2>1, ProfitMapUnfolds
<1>4. ASSUME NEW k \in Nat, k < Len(L)
      PROVE  P(k + 1) = Profited(P(k), L[k + 1])
  <2>1. /\ IsLog(WithFirst(<<>>, L, k))
        /\ WithFirst(<<>>, L, k + 1) = WithFirst(<<>>, L, k) \o <<L[k + 1]>>
    BY <1>1, <1>4, AddedNext
  <2> QED
    BY <2>1, ProfitMapUnfolds
<1>5. \A acc, a : "versions" \in DOMAIN acc => "versions" \in DOMAIN Profited(acc, a)
  BY DEF Profited
<1> HIDE DEF P
<1>6. F = {}
  <2> SUFFICES ASSUME F # {} PROVE FALSE
    OBVIOUS
  <2>1. PICK k \in F : \A j \in F : k <= j
    <3>1. F \in SUBSET Nat
      BY <1>2
    <3> HIDE DEF F
    <3> QED
      BY <3>1, LeastNumber
  <2>2. k # 0
    BY <1>3, <2>1 DEF Start
  <2>3. k - 1 \in Nat /\ k - 1 < Len(L) /\ k - 1 \notin F /\ (k - 1) + 1 = k
    BY <1>2, <2>1, <2>2
  <2>4. "versions" \in DOMAIN P(k - 1)
    BY <1>2, <2>3
  <2>5. P(k) = Profited(P(k - 1), L[k])
    BY <1>4, <2>3
  <2> QED
    BY <1>5, <2>1, <2>4, <2>5
<1> QED
  BY <1>2, <1>3, <1>6

\* What is known of the trades changes with one audit as Updated says.
LEMMA LearnedUnfolds ==
  ASSUME NEW L, NEW a, IsLog(L)
  PROVE  Learned(L \o <<a>>) = Updated(Learned(L), a)
<1> DEFINE M == ProfitMap(L)
<1>1. "versions" \in DOMAIN M /\ ProfitMap(L \o <<a>>) = Profited(M, a)
  BY ProfitMapShape, ProfitMapUnfolds
<1> HIDE DEF M
<1>2. Profited(M, a).versions = Updated(M.versions, a)
  <2>1. CASE OfTrade(a)
    BY <2>1 DEF Profited, Updated, OfTrade
  <2>2. CASE ~OfTrade(a)
    BY <1>1, <2>2 DEF Profited, Updated, OfTrade
  <2> QED
    BY <2>1, <2>2
<1> QED
  BY <1>1, <1>2 DEF Learned, M

\* Audits of deletions, whatever is between them, take those trades away.
LEMMA DeletionsLearned ==
  ASSUME NEW L, NEW A, IsLog(L), IsLog(A),
         \A i \in DOMAIN A : OfTrade(A[i]) => A[i].operation = "DELETE"
  PROVE  Learned(L \o A) =
           {v \in Learned(L) : \A i \in DOMAIN A : OfTrade(A[i]) => v.id # A[i].trade.id}
<1> DEFINE P(k) == Learned(WithFirst(L, A, k))
           Left(k) == {v \in Learned(L) : \A i \in 1 .. k : OfTrade(A[i]) => v.id # A[i].trade.id}
           F == {k \in 0 .. Len(A) : P(k) # Left(k)}
<1>6. Len(A) \in Nat /\ DOMAIN A = 1 .. Len(A)
  BY LogDomain
<1>2. P(0) = Learned(L) /\ P(Len(A)) = Learned(L \o A)
  BY AddedAll
<1>3. ASSUME NEW k \in Nat, k < Len(A)
      PROVE  P(k + 1) = Updated(P(k), A[k + 1])
  <2>1. /\ IsLog(WithFirst(L, A, k))
        /\ WithFirst(L, A, k + 1) = WithFirst(L, A, k) \o <<A[k + 1]>>
    BY <1>3, AddedNext
  <2> QED
    BY <2>1, LearnedUnfolds
<1> HIDE DEF P
<1>4. F = {}
  <2> SUFFICES ASSUME F # {} PROVE FALSE
    OBVIOUS
  <2>1. PICK k \in F : \A j \in F : k <= j
    <3>1. F \in SUBSET Nat
      BY <1>6
    <3> HIDE DEF F
    <3> QED
      BY <3>1, LeastNumber
  <2>2. k # 0
    BY <1>2, <2>1
  <2>3. k - 1 \in 0 .. Len(A) /\ k - 1 < Len(A) /\ (k - 1) + 1 = k /\ k \in 1 .. Len(A)
    BY <1>6, <2>1, <2>2
  <2>10. k - 1 \notin F
    <3> HIDE DEF F
    <3> QED
      BY <1>6, <2>1, <2>2, <2>3
  <2>4. P(k - 1) = Left(k - 1)
    BY <2>3, <2>10
  <2> HIDE DEF F
  <2>11. P((k - 1) + 1) = Updated(P(k - 1), A[(k - 1) + 1])
    BY <1>3, <2>3
  <2> HIDE DEF Left
  <2>5. P(k) = Updated(Left(k - 1), A[k])
    BY <2>3, <2>4, <2>11
  <2> USE DEF Left
  <2>6. 1 .. k = (1 .. (k - 1)) \cup {k}
    BY <1>6, <2>3
  <2>7. Left(k) = {v \in Left(k - 1) : OfTrade(A[k]) => v.id # A[k].trade.id}
    BY <2>6
  <2>8. OfTrade(A[k]) => A[k].operation = "DELETE"
    BY <1>6, <2>3
  <2> DEFINE R == {v \in Left(k - 1) : OfTrade(A[k]) => v.id # A[k].trade.id}
  <2> HIDE DEF Left
  <2>9. Updated(Left(k - 1), A[k]) = R
    BY <2>8 DEF Updated
  <2> HIDE DEF R
  <2>12. P(k) = Left(k)
    BY <2>5, <2>7, <2>9 DEF R
  <2> QED
    BY <2>1, <2>12 DEF F
<1>5. P(Len(A)) = Left(Len(A))
  <2> HIDE DEF Left
  <2> QED
    BY <1>6, <1>4
<1> QED
  BY <1>6, <1>2, <1>5

-----------------------------------------------------------------------------
(***************************************************************************)
(* What the handlers write: an audit for each trade, newest first, or      *)
(* audits of something else, which are aside.                              *)
(***************************************************************************)
\* Trades that can be put in the order of their age.
Datable(T) ==
  /\ IsFiniteSet(T)
  /\ \A t \in T : t.id \in Int /\ t.day \in Int
  /\ \A t, u \in T : t.id = u.id => t = u

\* Going through trades from the newest to the oldest meets each of them.
LEMMA NewestFirstMeetsAll ==
  ASSUME NEW T, Datable(T)
  PROVE  /\ Cardinality(T) \in Nat
         /\ \A i \in 1 .. Cardinality(T) : NewestFirst(T)[i] \in T
         /\ \A t \in T : \E i \in 1 .. Cardinality(T) : NewestFirst(T)[i] = t
<1> DEFINE n == Cardinality(T)
           newer(t) == {u \in T : Older(t, u)}
           rank == [t \in T |-> Cardinality(newer(t))]
<1>1. n \in Nat
  BY FS_CardinalityType DEF Datable
<1>2. ASSUME NEW t \in T
      PROVE  /\ IsFiniteSet(newer(t)) /\ Cardinality(newer(t)) \in Nat
             /\ Cardinality(newer(t)) < n
  <2>1. newer(t) \subseteq T /\ t \notin newer(t)
    BY DEF Older, Datable
  <2> HIDE DEF newer
  <2>2. IsFiniteSet(T) /\ newer(t) \in SUBSET T
    BY <2>1 DEF Datable
  <2>3. IsFiniteSet(newer(t)) /\ Cardinality(newer(t)) <= Cardinality(T)
        /\ (Cardinality(T) = Cardinality(newer(t)) => T = newer(t))
    BY <2>2, FS_Subset
  <2>4. Cardinality(newer(t)) \in Nat
    BY <2>3, FS_CardinalityType
  <2> QED
    BY <1>1, <2>1, <2>3, <2>4
<1>3. ASSUME NEW t \in T, NEW u \in T, Older(t, u)
      PROVE  Cardinality(newer(u)) < Cardinality(newer(t))
  <2>1. newer(u) \in SUBSET newer(t) /\ u \in newer(t) /\ u \notin newer(u)
    BY <1>3 DEF Older, Datable
  <2> HIDE DEF newer
  <2>2. /\ Cardinality(newer(u)) <= Cardinality(newer(t))
        /\ Cardinality(newer(t)) = Cardinality(newer(u)) => newer(t) = newer(u)
    BY <1>2, <2>1, FS_Subset
  <2> QED
    BY <1>2, <2>1, <2>2
<1>4. ASSUME NEW t \in T, NEW u \in T, t # u
      PROVE  Older(t, u) \/ Older(u, t)
  BY <1>4 DEF Older, Datable
<1> HIDE DEF newer
<1>5. \A t, u \in T : rank[t] = rank[u] => t = u
  BY <1>2, <1>3, <1>4
<1>6. rank \in Injection(T, 0 .. (n - 1))
  <2>1. rank \in [T -> 0 .. (n - 1)]
    BY <1>1, <1>2
  <2> HIDE DEF rank
  <2> QED
    BY <1>5, <2>1 DEF Injection, IsInjective
<1>7. rank \in Surjection(T, 0 .. (n - 1))
  <2>1. /\ IsFiniteSet(0 .. (n - 1))
        /\ Cardinality(0 .. (n - 1)) = n
    BY <1>1, FS_Interval
  <2> HIDE DEF rank
  <2> QED
    BY <1>6, <2>1, FS_Injection
<1>8. \A i \in 0 .. (n - 1) : \E t \in T : rank[t] = i
  <2> HIDE DEF rank
  <2> QED
    BY <1>7 DEF Surjection
<1>9. \A i \in 1 .. n : NewestFirst(T)[i] = CHOOSE t \in T : rank[t] = i - 1
  BY DEF NewestFirst, newer
<1> HIDE DEF rank
<1>10. ASSUME NEW i \in 1 .. n
       PROVE  NewestFirst(T)[i] \in T /\ rank[NewestFirst(T)[i]] = i - 1
  <2>1. i - 1 \in 0 .. (n - 1)
    BY <1>1
  <2>2. \E t \in T : rank[t] = i - 1
    BY <1>8, <2>1
  <2> QED
    BY <1>9, <2>2
<1>11. ASSUME NEW t \in T
       PROVE  \E i \in 1 .. n : NewestFirst(T)[i] = t
  <2>1. rank[t] \in 0 .. (n - 1)
    BY <1>6 DEF Injection
  <2>2. rank[t] + 1 \in 1 .. n /\ (rank[t] + 1) - 1 = rank[t]
    BY <1>1, <2>1
  <2>3. NewestFirst(T)[rank[t] + 1] = t
    BY <1>5, <1>10, <2>2
  <2> QED
    BY <2>2, <2>3
<1> QED
  BY <1>1, <1>10, <1>11

\* Audits that are not of trades teach nothing about them.
Aside(A) == IsLog(A) /\ \A i \in DOMAIN A : ~OfTrade(A[i])

\* Written at the end of a log, they leave what it tells.
LEMMA AsideTeachesNothing ==
  ASSUME NEW L, NEW A, IsLog(L), Aside(A)
  PROVE  IsLog(L \o A) /\ Learned(L \o A) = Learned(L)
<1>1. IsLog(A) /\ \A i \in DOMAIN A : ~OfTrade(A[i])
  BY DEF Aside
<1>2. Learned(L \o A) =
        {v \in Learned(L) : \A i \in DOMAIN A : OfTrade(A[i]) => v.id # A[i].trade.id}
  BY <1>1, DeletionsLearned
<1> QED
  BY <1>1, <1>2, LogPieces

\* An audit of anything else is aside.
LEMMA AsideOne ==
  ASSUME NEW entity, NEW operation, NEW reason, entity # "HOLDING_TRANSACTION"
  PROVE  Aside(<<Audit(entity, operation, reason)>>)
<1> DEFINE a == Audit(entity, operation, reason)
<1>1. a.entity = entity
  BY DEF Audit
<1> HIDE DEF a
<1>2. IsLog(<<a>>) /\ \A i \in DOMAIN <<a>> : ~OfTrade(<<a>>[i])
  BY <1>1, LogPieces DEF OfTrade
<1> QED
  BY <1>2 DEF Aside, a

\* Two lists that are aside make one.
LEMMA AsideBoth ==
  ASSUME NEW A, NEW B, Aside(A), Aside(B)
  PROVE  Aside(A \o B)
<1>1. PICK S, T : A \in Seq(S) /\ B \in Seq(T)
  BY DEF Aside, IsLog
<1> DEFINE U == S \cup T
<1>2. A \in Seq(U) /\ B \in Seq(U)
  BY <1>1
<1> HIDE DEF U
<1>3. A \o B \in Seq(U) /\ \A i \in DOMAIN (A \o B) :
        \/ \E j \in DOMAIN A : (A \o B)[i] = A[j]
        \/ \E j \in DOMAIN B : (A \o B)[i] = B[j]
  BY <1>2
<1> QED
  BY <1>3 DEF Aside, IsLog

\* A list without audits of trades is aside.
LEMMA AsideList ==
  ASSUME NEW n \in Nat, NEW f, f = [i \in 1 .. n |-> f[i]],
         \A i \in 1 .. n : ~OfTrade(f[i])
  PROVE  Aside(f)
BY ListIsLog DEF Aside

\* The audits of the accounts that a request touches are aside.
LEMMA AsideAccounts ==
  ASSUME NEW n \in Nat, NEW reason
  PROVE  Aside(AccountAudits(n, reason))
<1> DEFINE A == AccountAudits(n, reason)
<1>1. A = [i \in 1 .. n |-> A[i]] /\ \A i \in 1 .. n : ~OfTrade(A[i])
  BY DEF AccountAudits, Audit, OfTrade
<1> HIDE DEF A
<1> QED
  BY <1>1, AsideList DEF A

\* A request that touches no account writes nothing of it.
LEMMA AsideNone == Aside(<<>>)
BY LogPieces DEF Aside

\* Reversals touch accounts.
LEMMA AsideReversals ==
  ASSUME NEW T, IsFiniteSet(T)
  PROVE  Aside(Reversals(T))
<1> DEFINE A == Reversals(T)
<1>1. Cardinality(T) \in Nat
  BY FS_CardinalityType
<1>2. A = [i \in 1 .. Cardinality(T) |-> A[i]] /\ \A i \in 1 .. Cardinality(T) : ~OfTrade(A[i])
  BY DEF Reversals, Audit, OfTrade
<1> HIDE DEF A
<1> QED
  BY <1>1, <1>2, AsideList DEF A

\* The audit of a settlement is of an account.
LEMMA AsideSettlement ==
  ASSUME NEW t
  PROVE  Aside(SettlementAudit(t))
BY AsideNone, AsideOne, AsideAccounts DEF SettlementAudit

\* What a handler of anything but trades and holdings adds to the log.
WrittenAside == \E A : Aside(A) /\ Written(A)

\* What a function takes from a finite set is finite.
LEMMA FiniteImage ==
  ASSUME NEW S, IsFiniteSet(S), NEW f, f = [x \in S |-> f[x]]
  PROVE  IsFiniteSet({f[x] : x \in S})
<1> DEFINE T == {f[x] : x \in S}
<1>1. f \in Surjection(S, T)
  BY DEF Surjection
<1> HIDE DEF T
<1>2. IsFiniteSet(T)
  BY <1>1, FS_Surjection
<1> QED
  BY <1>2 DEF T

\* Each transfer has its pair of rows, of which there are finitely many.
LEMMA FinitelyManyTransfers ==
  ASSUME Linked, Amounts(entries)
  PROVE  IsFiniteSet(DOMAIN transfers)
<1> DEFINE named == {e.transfer : e \in entries}
<1>1. IsFiniteSet(entries)
  BY DEF Amounts
<1>2. IsFiniteSet(named)
  <2> DEFINE f == [e \in entries |-> e.transfer]
  <2>1. f = [e \in entries |-> f[e]] /\ named = {f[e] : e \in entries}
    OBVIOUS
  <2> HIDE DEF f, named
  <2>2. IsFiniteSet({f[e] : e \in entries})
    BY <1>1, <2>1, FiniteImage
  <2> QED
    BY <2>1, <2>2
<1>3. DOMAIN transfers \in SUBSET named
  <2> SUFFICES ASSUME NEW x \in DOMAIN transfers PROVE x \in named
    OBVIOUS
  <2>1. \E e \in entries : e.transfer = x
    BY BookFields DEF Linked, Sound, Paired, IsPair
  <2> QED
    BY <2>1
<1> HIDE DEF named
<1> QED
  BY <1>2, <1>3, FS_Subset

\* Accounts
LEMMA AccountsAside ==
  AccountRequest => WrittenAside
BY AsideOne, AsideAccounts DEF AccountRequest, WrittenAside

\* delete_account tells the account, the accounts and the transfers it touches.
LEMMA DeletedAccountAside ==
  ASSUME Linked, Amounts(entries), NEW a, DeleteAccountRequest(a)
  PROVE  WrittenAside
<1> DEFINE X == {x \in DOMAIN transfers : a \in {transfers[x].from, transfers[x].to}}
           others == (UNION {{transfers[x].from, transfers[x].to} : x \in X}) \ {a}
           gone == [i \in 1 .. Cardinality(X) |->
                      Audit("CASH_TRANSFER", "DELETE", "CASH_ACCOUNT_DELETE")]
           A == <<Audit("CASH_ACCOUNT", "DELETE", "")>>
                  \o AccountAudits(Cardinality(others), "CASH_ACCOUNT_DELETE") \o gone
<1>1. Written(A)
  BY DEF DeleteAccountRequest
<1>2. IsFiniteSet(X)
  <2>1. X \in SUBSET (DOMAIN transfers)
    OBVIOUS
  <2> HIDE DEF X
  <2> QED
    BY <2>1, FinitelyManyTransfers, FS_Subset
<1>3. IsFiniteSet(others)
  <2> DEFINE from == {transfers[x].from : x \in X}
             to == {transfers[x].to : x \in X}
             source == [x \in X |-> transfers[x].from]
             target == [x \in X |-> transfers[x].to]
  <2> HIDE DEF X
  <2>4. /\ source = [x \in X |-> source[x]] /\ from = {source[x] : x \in X}
        /\ target = [x \in X |-> target[x]] /\ to = {target[x] : x \in X}
    OBVIOUS
  <2> HIDE DEF source, target
  <2>1. IsFiniteSet(from) /\ IsFiniteSet(to)
    BY <1>2, <2>4, FiniteImage
  <2>2. others \in SUBSET (from \cup to)
    OBVIOUS
  <2> HIDE DEF from, to, others
  <2>3. IsFiniteSet(from \cup to)
    BY <2>1, FS_Union
  <2> QED
    BY <2>2, <2>3, FS_Subset
<1> HIDE DEF X, others
<1>4. Cardinality(X) \in Nat /\ Cardinality(others) \in Nat
  BY <1>2, <1>3, FS_CardinalityType
<1>5. Aside(gone)
  <2>1. gone = [i \in 1 .. Cardinality(X) |-> gone[i]]
        /\ \A i \in 1 .. Cardinality(X) : ~OfTrade(gone[i])
    BY DEF Audit, OfTrade
  <2> HIDE DEF gone
  <2> QED
    BY <1>4, <2>1, AsideList
<1> DEFINE first == <<Audit("CASH_ACCOUNT", "DELETE", "")>>
           second == AccountAudits(Cardinality(others), "CASH_ACCOUNT_DELETE")
<1>6. Aside(first) /\ Aside(second)
  BY <1>4, AsideOne, AsideAccounts
<1> HIDE DEF first, second, gone
<1>7. Aside((first \o second) \o gone)
  BY <1>5, <1>6, AsideBoth
<1>8. A = (first \o second) \o gone
  BY DEF first, second
<1> QED
  BY <1>1, <1>7, <1>8 DEF WrittenAside

\* Adjustments
LEMMA AdjustmentsAside ==
  AdjustmentRequest => WrittenAside
<1>1. \A operation : Aside(AdjustmentAudits(operation))
  BY AsideOne, AsideAccounts, AsideBoth DEF AdjustmentAudits
<1> QED
  BY <1>1 DEF AdjustmentRequest, WrittenAside

\* Transfers
LEMMA TransfersAside ==
  TransferRequest => WrittenAside
<1>1. \A operation, n : n \in Nat => Aside(TransferAudits(operation, n))
  BY AsideOne, AsideAccounts, AsideBoth DEF TransferAudits
<1>2. \A f, t, g, u : Cardinality({f, t, g, u}) \in Nat
  <2> SUFFICES ASSUME NEW f, NEW t, NEW g, NEW u
               PROVE  Cardinality({f, t, g, u}) \in Nat
    OBVIOUS
  <2>1. {f, t, g, u} = (({f} \cup {t}) \cup {g}) \cup {u}
    OBVIOUS
  <2>2. IsFiniteSet((({f} \cup {t}) \cup {g}) \cup {u})
    BY FS_Singleton, FS_Union
  <2> QED
    BY <2>1, <2>2, FS_CardinalityType
<1>3. CASE \E x \in TransferIds, f, t \in AccountIds,
             amount \in TransferAmounts, rate \in FxRates, skew \in TargetSkews :
             /\ UpdateTransfer(x, f, t, amount, rate, skew)
             /\ Written(TransferAudits("UPDATE",
                          Cardinality({f, t, transfers[x].from, transfers[x].to})))
  BY <1>1, <1>2, <1>3 DEF WrittenAside
<1>4. CASE Written(TransferAudits("CREATE", 2)) \/ Written(TransferAudits("DELETE", 2))
  BY <1>1, <1>4 DEF WrittenAside
<1> QED
  BY <1>3, <1>4 DEF TransferRequest

\* The other assets
LEMMA AssetsAside ==
  AssetRequest => WrittenAside
BY AsideOne DEF AssetRequest, WrittenAside, CreateAsset, UpdateAsset, DeleteAsset,
  CreateFixedAsset, UpdateFixedAsset, DeleteFixedAsset, CreateLiability, UpdateLiability,
  DeleteLiability, CreateOtherAsset, UpdateOtherAsset, DeleteOtherAsset

\* A request of the records is one of the portfolio, or none.
THEOREM RecordsFollowPortfolio == RecordSpec => PortfolioSpec
<1>1. RecordInit => PortfolioInit
  BY DEF RecordInit
<1>2. [RecordNext]_recordVars => [PortfolioNext]_vars
  <2> SUFFICES ASSUME RecordNext PROVE PortfolioNext \/ UNCHANGED vars
    BY DEF recordVars
  <2>1. CASE (AccountRequest \/ AdjustmentRequest \/ TransferRequest
              \/ \E a \in AccountIds : DeleteAccountRequest(a)) /\ CashOnly
    <3>1. AccountRequest => AccountStep
      BY DEF AccountRequest, AccountStep
    <3>2. AdjustmentRequest => AdjustmentStep
      BY DEF AdjustmentRequest, AdjustmentStep
    <3>3. TransferRequest => TransferStep
      BY DEF TransferRequest, TransferStep
    <3>4. (\E a \in AccountIds : DeleteAccountRequest(a)) => AccountStep
      BY DEF DeleteAccountRequest, AccountStep
    <3> QED
      BY <2>1, <3>1, <3>2, <3>3, <3>4 DEF CashOnly, PortfolioNext, CashStep, Next
  <2>2. CASE TradeRequest
    BY <2>2 DEF TradeRequest, PortfolioNext, TradeStep
  <2>3. CASE HoldingRequest
    BY <2>3 DEF HoldingRequest, AdjustHoldingRequest, EditHoldingNotes, DeleteHoldingRequest,
                PortfolioNext, HoldingStep
  <2> QED
    BY <2>1, <2>2, <2>3 DEF RecordNext, ReadRecords, recordVars
<1> QED
  BY <1>1, <1>2, PTL DEF RecordSpec, PortfolioSpec

-----------------------------------------------------------------------------
(***************************************************************************)
(* What the audits tell is what the table holds.  Told is inductive with   *)
(* Dated (an edit finds one earliest trade to turn into an adjustment, a   *)
(* deletion goes through each trade once) and with Linked (ids of trades   *)
(* never come back, so the audit of a row is about that row).              *)
(***************************************************************************)
\* Logs are joined in any grouping.
LEMMA LogsAssociate ==
  ASSUME NEW L, NEW A, NEW B, IsLog(L), IsLog(A), IsLog(B)
  PROVE  (L \o A) \o B = L \o (A \o B)
<1>1. PICK S, T, V : L \in Seq(S) /\ A \in Seq(T) /\ B \in Seq(V)
  BY DEF IsLog
<1> DEFINE U == S \cup T \cup V
<1>2. L \in Seq(U) /\ A \in Seq(U) /\ B \in Seq(U)
  BY <1>1
<1> HIDE DEF U
<1> QED
  BY <1>2

\* One audit of a trade among others that are aside teaches that trade.
LEMMA TradeFirst ==
  ASSUME NEW L, IsLog(L), NEW a, NEW Y, Aside(Y)
  PROVE  IsLog(L \o (<<a>> \o Y)) /\ Learned(L \o (<<a>> \o Y)) = Updated(Learned(L), a)
<1>1. IsLog(<<a>>) /\ IsLog(Y) /\ IsLog(L \o <<a>>)
  BY LogPieces DEF Aside
<1>2. L \o (<<a>> \o Y) = (L \o <<a>>) \o Y
  BY <1>1, LogsAssociate
<1>3. Learned(L \o <<a>>) = Updated(Learned(L), a)
  BY LearnedUnfolds
<1>4. IsLog((L \o <<a>>) \o Y) /\ Learned((L \o <<a>>) \o Y) = Learned(L \o <<a>>)
  BY <1>1, AsideTeachesNothing
<1> QED
  BY <1>2, <1>3, <1>4

\* The same with that trade last.
LEMMA TradeLast ==
  ASSUME NEW L, IsLog(L), NEW a, NEW X, Aside(X)
  PROVE  IsLog(L \o (X \o <<a>>)) /\ Learned(L \o (X \o <<a>>)) = Updated(Learned(L), a)
<1>1. IsLog(<<a>>) /\ IsLog(X)
  BY LogPieces DEF Aside
<1>2. L \o (X \o <<a>>) = (L \o X) \o <<a>>
  BY <1>1, LogsAssociate
<1>3. IsLog(L \o X) /\ Learned(L \o X) = Learned(L)
  BY AsideTeachesNothing
<1>4. Learned((L \o X) \o <<a>>) = Updated(Learned(L \o X), a)
  BY <1>3, LearnedUnfolds
<1>5. IsLog((L \o X) \o <<a>>)
  BY <1>1, <1>3, LogPieces
<1> QED
  BY <1>2, <1>3, <1>4, <1>5

\* The columns of the audit of a trade.
LEMMA TradeAuditFields ==
  ASSUME NEW operation, NEW t
  PROVE  LET a == TradeAudit(operation, t)
         IN OfTrade(a) /\ a.operation = operation /\ a.trade = t
BY DEF TradeAudit, OfTrade

\* The rows of the trades are finitely many, and dated.
Dated == IsFiniteSet(trades) /\ \A t \in trades : t.day \in Days

\* What the audits tell is what the table holds.
Told == IsLog(log) /\ Learned(log) = trades

LinkedRecords == Linked /\ Amounts(entries) /\ Dated /\ Told

\* A handler that leaves the trades alone and writes nothing of them.
LEMMA ToldAside ==
  ASSUME Dated, Told, WrittenAside, UNCHANGED trades
  PROVE  Dated' /\ Told'
<1>1. PICK A : Aside(A) /\ log' = log \o A
  BY DEF WrittenAside, Written
<1>2. IsLog(log') /\ Learned(log') = Learned(log)
  BY <1>1, AsideTeachesNothing DEF Told
<1>3. Told'
  BY <1>2 DEF Told
<1> QED
  BY <1>3 DEF Dated

\* Of the rows with an id there is one.
LEMMA TradeNowIs ==
  ASSUME NEW u \in trades', \A v \in trades' : v.id = u.id => v = u
  PROVE  TradeNow(u.id) = u
BY DEF TradeNow

\* Ids of rows are free.
LEMMA RowIds ==
  ASSUME Linked
  PROVE  /\ \A t \in trades : TradeRow(t) /\ t.id \in Int /\ t.id < nextTrade
         /\ \A t, u \in trades : t.id = u.id => t = u
         /\ nextTrade \in Int
         /\ \A t \in trades : t.id # nextTrade
BY TradeConstants DEF Linked, RowsLinked, TradeRow

\* A new row that the audit of a creation tells.
LEMMA ToldCreated ==
  ASSUME Linked, Dated, Told, NEW u, u.id = nextTrade, u.day \in Days, trades' = trades \cup {u},
         NEW Y, Aside(Y),
         Written(<<TradeAudit("CREATE", TradeNow(nextTrade))>> \o Y)
  PROVE  Dated' /\ Told'
<1>1. \A v \in trades' : v.id = u.id => v = u
  BY RowIds
<1>2. TradeNow(nextTrade) = u
  BY <1>1, TradeNowIs
<1> DEFINE a == TradeAudit("CREATE", u)
<1>3. OfTrade(a) /\ a.operation = "CREATE" /\ a.trade = u
  BY TradeAuditFields
<1>4. log' = log \o (<<a>> \o Y)
  BY <1>2 DEF Written
<1> HIDE DEF a
<1>5. IsLog(log') /\ Learned(log') = Updated(trades, a)
  BY <1>4, TradeFirst DEF Told
<1>6. Updated(trades, a) = {v \in trades : v.id # u.id} \cup {u}
  BY <1>3 DEF Updated
<1>7. {v \in trades : v.id # u.id} = trades
  BY RowIds
<1>8. Told'
  BY <1>5, <1>6, <1>7 DEF Told
<1>9. IsFiniteSet(trades \cup {u})
  BY FS_AddElement DEF Dated
<1>10. Dated'
  BY <1>9 DEF Dated
<1> QED
  BY <1>8, <1>10

\* A row rewritten, as the audit of an edit tells.
LEMMA ToldEdited ==
  ASSUME Linked, Dated, Told, NEW t \in trades, NEW u, u.id = t.id, u.day \in Days,
         trades' = (trades \ {t}) \cup {u}, NEW A, Written(A),
         \/ \E X : Aside(X) /\ A = X \o <<TradeAudit("UPDATE", TradeNow(t.id))>>
         \/ \E Y : Aside(Y) /\ A = <<TradeAudit("UPDATE", TradeNow(t.id))>> \o Y
  PROVE  Dated' /\ Told'
<1>1. \A v \in trades : v.id = t.id <=> v = t
  BY RowIds
<1>2. \A v \in trades' : v.id = u.id => v = u
  BY <1>1
<1>3. TradeNow(t.id) = u
  BY <1>2, TradeNowIs
<1> DEFINE a == TradeAudit("UPDATE", u)
<1>4. OfTrade(a) /\ a.operation = "UPDATE" /\ a.trade = u
  BY TradeAuditFields
<1>5. \/ \E X : Aside(X) /\ log' = log \o (X \o <<a>>)
      \/ \E Y : Aside(Y) /\ log' = log \o (<<a>> \o Y)
  BY <1>3 DEF Written
<1> HIDE DEF a
<1>6. IsLog(log') /\ Learned(log') = Updated(trades, a)
  <2>1. IsLog(log) /\ Learned(log) = trades
    BY DEF Told
  <2>2. CASE \E X : Aside(X) /\ log' = log \o (X \o <<a>>)
    <3>1. PICK X : Aside(X) /\ log' = log \o (X \o <<a>>)
      BY <2>2
    <3> QED
      BY <2>1, <3>1, TradeLast
  <2>3. CASE \E Y : Aside(Y) /\ log' = log \o (<<a>> \o Y)
    <3>1. PICK Y : Aside(Y) /\ log' = log \o (<<a>> \o Y)
      BY <2>3
    <3> QED
      BY <2>1, <3>1, TradeFirst
  <2> QED
    BY <1>5, <2>2, <2>3
<1>7. Updated(trades, a) = {v \in trades : v.id # u.id} \cup {u}
  BY <1>4 DEF Updated
<1>8. {v \in trades : v.id # u.id} = trades \ {t}
  BY <1>1
<1>9. Told'
  BY <1>6, <1>7, <1>8 DEF Told
<1>10. IsFiniteSet((trades \ {t}) \cup {u})
  BY FS_AddElement, FS_RemoveElement DEF Dated
<1>11. Dated'
  BY <1>10 DEF Dated
<1> QED
  BY <1>9, <1>11

\* Rows deleted, as the audits of their deletion tell.
LEMMA ToldDeleted ==
  ASSUME Linked, Dated, Told, NEW T \in SUBSET trades, trades' = trades \ T,
         NEW X, NEW A, NEW Y, Aside(X), IsLog(A), Aside(Y), Written((X \o A) \o Y),
         \A i \in DOMAIN A : \E t \in T : A[i] = TradeAudit("DELETE", t),
         \A t \in T : \E i \in DOMAIN A : A[i] = TradeAudit("DELETE", t)
  PROVE  Dated' /\ Told'
<1>1. IsLog(log \o X) /\ Learned(log \o X) = trades
  BY AsideTeachesNothing DEF Told
<1> DEFINE L == log \o X
           left == {v \in trades : \A i \in DOMAIN A : OfTrade(A[i]) => v.id # A[i].trade.id}
<1>2. \A i \in DOMAIN A : OfTrade(A[i]) /\ A[i].operation = "DELETE" /\ A[i].trade \in T
  BY TradeAuditFields
<1>3. \A t \in T : \E i \in DOMAIN A : A[i].trade = t
  BY TradeAuditFields
<1>4. left = trades \ T
  BY <1>2, <1>3, RowIds
<1> HIDE DEF L
<1>5. IsLog(L \o A) /\ Learned(L \o A) = left
  BY <1>1, <1>2, DeletionsLearned, LogPieces DEF L
<1> HIDE DEF left
<1>6. IsLog((L \o A) \o Y) /\ Learned((L \o A) \o Y) = left
  BY <1>5, AsideTeachesNothing
<1>7. log' = (L \o A) \o Y
  <2> DEFINE Z == X \o A
  <2>1. IsLog(log) /\ IsLog(X) /\ IsLog(A) /\ IsLog(Y)
    BY DEF Told, Aside
  <2>2. IsLog(Z)
    BY <2>1, LogPieces
  <2>3. (log \o X) \o A = log \o Z
    BY <2>1, LogsAssociate
  <2>4. log' = log \o (Z \o Y)
    BY DEF Written
  <2> HIDE DEF Z
  <2>5. (log \o Z) \o Y = log \o (Z \o Y)
    BY <2>1, <2>2, LogsAssociate
  <2> QED
    BY <2>3, <2>4, <2>5 DEF L
<1>8. Told'
  BY <1>4, <1>6, <1>7 DEF Told
<1>9. IsFiniteSet(trades \ T)
  BY FS_Subset DEF Dated
<1>10. Dated'
  BY <1>9 DEF Dated
<1> QED
  BY <1>8, <1>10

\* create_holding_transaction
LEMMA CreatedRow ==
  ASSUME CreateTrade
  PROVE  \E u : u.id = nextTrade /\ u.day \in Days /\ trades' = trades \cup {u}
<1>1. \A s, side, q, p, currency, d :
        LET u == NewTrade(s, side, q, p, currency, d) IN u.id = nextTrade /\ u.day = d
  BY DEF NewTrade
<1>2. ASSUME NEW s \in Symbols, NEW q \in Quantities, NEW p \in Prices, NEW currency \in Currencies,
             NEW d \in Days, NEW a \in AccountIds \cup {NoRef}, NEW rate \in FxRates,
             Buy(s, q, p, currency, d, a, rate)
      PROVE  \E u : u.id = nextTrade /\ u.day \in Days /\ trades' = trades \cup {u}
  <2>1. trades' = trades \cup {NewTrade(s, "BUY", q, p, currency, d)}
    BY <1>2 DEF Buy, Projected
  <2> QED
    BY <1>1, <2>1
<1>3. ASSUME NEW s \in Symbols, NEW q \in Quantities, NEW p \in Prices, NEW currency \in Currencies,
             NEW d \in Days, NEW handling \in Handlings, NEW a \in AccountIds \cup {NoRef},
             NEW rate \in FxRates, Sell(s, q, p, currency, d, handling, a, rate)
      PROVE  \E u : u.id = nextTrade /\ u.day \in Days /\ trades' = trades \cup {u}
  <2>1. trades' = trades \cup {NewTrade(s, "SELL", q, p, currency, d)}
    BY <1>3 DEF Sell, Projected
  <2> QED
    BY <1>1, <2>1
<1> QED
  BY <1>2, <1>3 DEF CreateTrade

\* update_holding_transaction
LEMMA EditedRow ==
  ASSUME Linked, NEW t \in trades, UpdateTrade(t)
  PROVE  \E u : u.id = t.id /\ u.day \in Days /\ trades' = (trades \ {t}) \cup {u}
<1>1. TradeRow(t)
  BY RowIds
<1>2. \E q, p, currency : \E d \in Days : Revised(t, Rewritten(t, q, p, currency, d))
  BY DEF UpdateTrade, UpdateBuy, UpdateSell, UpdateAdjust
<1>3. PICK q, p, currency, d : d \in Days /\ Revised(t, Rewritten(t, q, p, currency, d))
  BY <1>2
<1> DEFINE u == Rewritten(t, q, p, currency, d)
<1>4. u.id = t.id /\ u.day = d
  BY <1>1, RewrittenRow
<1>5. trades' = (trades \ {t}) \cup {u}
  BY <1>3 DEF Revised, Projected
<1> QED
  BY <1>3, <1>4, <1>5

\* Of finitely many trades finitely many are settled.
LEMMA FinitelyManySettled ==
  ASSUME NEW B, NEW T, IsFiniteSet(T)
  PROVE  IsFiniteSet(SettledAmong(B, T))
<1>1. SettledAmong(B, T) \in SUBSET T
  BY DEF SettledAmong
<1> QED
  BY <1>1, FS_Subset

\* Taking back the settlement of one trade is told of its account.
LEMMA ReversalOfOneAside ==
  ASSUME NEW t
  PROVE  Aside(Reversals(SettledAmong(Book, {t})))
<1>1. IsFiniteSet({t})
  BY FS_Singleton
<1>2. IsFiniteSet(SettledAmong(Book, {t}))
  BY <1>1, FinitelyManySettled
<1> QED
  BY <1>2, AsideReversals

\* The three trade handlers.
LEMMA ToldTrades ==
  ASSUME Linked, Dated, Told, TradeRequest
  PROVE  Dated' /\ Told'
<1>1. CASE /\ CreateTrade
           /\ Written(<<TradeAudit("CREATE", TradeNow(nextTrade))>>
                        \o SettlementAudit(TradeNow(nextTrade)))
  <2>1. PICK u : u.id = nextTrade /\ u.day \in Days /\ trades' = trades \cup {u}
    BY <1>1, CreatedRow
  <2>2. Aside(SettlementAudit(TradeNow(nextTrade)))
    BY AsideSettlement
  <2> QED
    BY <1>1, <2>1, <2>2, ToldCreated
<1>2. ASSUME NEW t \in trades, UpdateTrade(t),
             Written(Reversals(SettledAmong(Book, {t})) \o SettlementAudit(t)
                       \o <<TradeAudit("UPDATE", TradeNow(t.id))>>)
      PROVE  Dated' /\ Told'
  <2>1. PICK u : u.id = t.id /\ u.day \in Days /\ trades' = (trades \ {t}) \cup {u}
    BY <1>2, EditedRow
  <2> DEFINE X == Reversals(SettledAmong(Book, {t})) \o SettlementAudit(t)
  <2>2. Aside(X)
    BY AsideSettlement, ReversalOfOneAside, AsideBoth
  <2>3. Written(X \o <<TradeAudit("UPDATE", TradeNow(t.id))>>)
    BY <1>2
  <2> HIDE DEF X
  <2> QED
    BY <2>1, <2>2, <2>3, ToldEdited
<1>3. ASSUME NEW t \in trades, DeleteTrade(t),
             Written(Reversals(SettledAmong(Book, {t})) \o <<TradeAudit("DELETE", t)>>)
      PROVE  Dated' /\ Told'
  <2> DEFINE X == Reversals(SettledAmong(Book, {t}))
             A == <<TradeAudit("DELETE", t)>>
  <2>1. trades' = trades \ {t} /\ {t} \in SUBSET trades
    BY <1>3 DEF DeleteTrade, Projected
  <2>2. Aside(X) /\ IsLog(A) /\ Aside(<<>>)
    BY ReversalOfOneAside, LogPieces, AsideNone
  <2>3. Written(X \o A)
    BY <1>3
  <2>4. /\ \A i \in DOMAIN A : \E u \in {t} : A[i] = TradeAudit("DELETE", u)
        /\ \A u \in {t} : \E i \in DOMAIN A : A[i] = TradeAudit("DELETE", u)
    OBVIOUS
  <2> HIDE DEF X, A
  <2>5. (X \o A) \o <<>> = X \o A
    <3>1. PICK S : X \o A \in Seq(S)
      BY <2>2, LogPieces DEF Aside, IsLog
    <3> QED
      BY <3>1
  <2>6. Written((X \o A) \o <<>>)
    BY <2>3, <2>5
  <2> QED
    BY <2>1, <2>2, <2>4, <2>6, ToldDeleted
<1> QED
  BY <1>1, <1>2, <1>3 DEF TradeRequest

-----------------------------------------------------------------------------
\* The earliest trade of symbol s.
Earliest(s) ==
  CHOOSE t \in TradesOf(trades, s) : \A u \in TradesOf(trades, s) \ {t} : Older(t, u)

\* The positions of a concatenation.
LEMMA Joined ==
  ASSUME NEW U, NEW A \in Seq(U), NEW B \in Seq(U)
  PROVE  /\ A \o B \in Seq(U) /\ Len(A \o B) = Len(A) + Len(B)
         /\ \A i \in 1 .. Len(A) : (A \o B)[i] = A[i]
         /\ \A i \in 1 .. Len(B) : (A \o B)[Len(A) + i] = B[i]
OBVIOUS

\* Two audits are one and another.
LEMMA OneAndAnother ==
  ASSUME NEW U, NEW A \in Seq(U), NEW B \in Seq(U), NEW P \in Seq(U)
  PROVE  Len(A) = 1 /\ Len(B) = 1 /\ Len(P) = 2 /\ P[1] = A[1] /\ P[2] = B[1] => P = A \o B
<1> DEFINE Q == A \o B
<1>1. /\ Q \in Seq(U) /\ Len(Q) = Len(A) + Len(B)
      /\ \A i \in 1 .. Len(A) : Q[i] = A[i]
      /\ \A i \in 1 .. Len(B) : Q[Len(A) + i] = B[i]
  BY Joined
<1> HIDE DEF Q
<1> SUFFICES ASSUME Len(A) = 1, Len(B) = 1, Len(P) = 2, P[1] = A[1], P[2] = B[1]
             PROVE  P = Q
  BY DEF Q
<1>2. 1 \in 1 .. Len(A) /\ 1 \in 1 .. Len(B) /\ Len(A) + 1 = 2 /\ Len(Q) = 2
  BY <1>1
<1>3. Q[1] = A[1] /\ Q[2] = B[1]
  BY <1>1, <1>2
<1>4. \A i \in 1 .. 2 : P[i] = Q[i]
  <2>1. \A i \in 1 .. 2 : i = 1 \/ i = 2
    OBVIOUS
  <2> QED
    BY <1>3, <2>1
<1> QED
  BY <1>1, <1>2, <1>4

\* A list of two audits.
LEMMA TwoAudits == \A a, b : <<a, b>> = <<a>> \o <<b>>
<1> SUFFICES ASSUME NEW a, NEW b PROVE <<a, b>> = <<a>> \o <<b>>
  OBVIOUS
<1>1. <<a>> \in Seq({a, b}) /\ Len(<<a>>) = 1 /\ <<a>>[1] = a
  OBVIOUS
<1>2. <<b>> \in Seq({a, b}) /\ Len(<<b>>) = 1 /\ <<b>>[1] = b
  OBVIOUS
<1>3. <<a, b>> \in Seq({a, b}) /\ Len(<<a, b>>) = 2 /\ <<a, b>>[1] = a /\ <<a, b>>[2] = b
  OBVIOUS
<1> QED
  BY <1>1, <1>2, <1>3, OneAndAnother

\* The trade that update_holding turns into an adjustment is the one whose
\* audit it writes.
LEMMA AdjustedFirst ==
  ASSUME Linked, Dated, NEW s \in Symbols, NEW q, NEW p, NEW d
  PROVE  LET T == Adjusted(s, q, p, d)
             first == Earliest(s)
         IN \/ T = trades \cup {NewTrade(s, "ADJUST", q, p, CNY, d)}
            \/ first \in trades /\ T = (trades \ {first}) \cup {AsAdjustment(first, q, p, d)}
<1> DEFINE held == TradesOf(trades, s)
           earliest == {t \in held : \A u \in held \ {t} : Older(t, u)}
           changed == {t \in earliest : d <= t.day}
           first == Earliest(s)
           T == Adjusted(s, q, p, d)
<1>1. CASE changed = {}
  BY <1>1 DEF Adjusted
<1>2. CASE changed # {}
  <2>1. T = (trades \ changed) \cup {AsAdjustment(t, q, p, d) : t \in changed}
    BY <1>2 DEF Adjusted, AsAdjustment
  <2>2. \A t, u \in earliest : t = u
    <3>1. \A t \in held : t.id \in Int /\ t.day \in Int
      BY RowIds, TradeConstants DEF Dated, TradesOf
    <3> QED
      BY <3>1 DEF Older
  <2>3. first \in earliest
    <3>1. \E t \in held : \A u \in held \ {t} : Older(t, u)
      BY <1>2
    <3> QED
      BY <3>1 DEF Earliest
  <2>4. earliest \subseteq trades
    BY DEF TradesOf
  <2> HIDE DEF first, T, earliest
  <2>5. changed = {first}
    BY <1>2, <2>2, <2>3
  <2> HIDE DEF changed
  <2>6. first \in trades /\ T = (trades \ {first}) \cup {AsAdjustment(first, q, p, d)}
    BY <2>1, <2>3, <2>4, <2>5
  <2> QED
    BY <2>6 DEF first, T
<1> QED
  BY <1>1, <1>2

\* update_holding
LEMMA ToldAdjusted ==
  ASSUME Linked, Dated, Told, NEW s \in Symbols, AdjustHoldingRequest(s)
  PROVE  Dated' /\ Told'
<1> DEFINE first == Earliest(s)
           H == <<Audit("HOLDING", "UPDATE", "")>>
           audit == IF nextTrade \in IdsOf(trades')
                    THEN TradeAudit("CREATE", TradeNow(nextTrade))
                    ELSE TradeAudit("UPDATE", TradeNow(first.id))
<1>1. PICK q, p, d : EditHolding(s, q, p, d)
  <2>1. AdjustHolding(s)
    BY DEF AdjustHoldingRequest
  <2> QED
    BY <2>1 DEF AdjustHolding, UpdateHolding, UpdateHoldingDate, UpdateHoldingQuantity,
                UpdateHoldingCost
<1>2. d \in Days /\ trades' = Adjusted(s, q, p, d)
  BY <1>1 DEF EditHolding
<1>3. Aside(H)
  BY AsideOne
<1>4. Written(<<audit>> \o H)
  <2>1. Written(<<audit, Audit("HOLDING", "UPDATE", "")>>)
    BY DEF AdjustHoldingRequest, Earliest
  <2> HIDE DEF audit
  <2>2. <<audit, Audit("HOLDING", "UPDATE", "")>> = <<audit>> \o H
    BY TwoAudits
  <2> QED
    BY <2>1, <2>2
<1> HIDE DEF H
<1>5. CASE trades' = trades \cup {NewTrade(s, "ADJUST", q, p, CNY, d)}
  <2> DEFINE u == NewTrade(s, "ADJUST", q, p, CNY, d)
  <2>1. u.id = nextTrade /\ u.day = d
    BY DEF NewTrade
  <2>2. trades' = trades \cup {u}
    BY <1>5
  <2> HIDE DEF u
  <2>3. nextTrade \in IdsOf(trades')
    BY <2>1, <2>2 DEF IdsOf
  <2>4. Written(<<TradeAudit("CREATE", TradeNow(nextTrade))>> \o H)
    BY <1>4, <2>3
  <2> QED
    BY <1>2, <1>3, <2>1, <2>2, <2>4, ToldCreated
<1>6. CASE first \in trades /\ trades' = (trades \ {first}) \cup {AsAdjustment(first, q, p, d)}
  <2> HIDE DEF first
  <2> DEFINE u == AsAdjustment(first, q, p, d)
  <2>1. u.id = first.id /\ u.day = d
    BY <1>6, RowIds, AdjustedRow
  <2>2. first \in trades /\ trades' = (trades \ {first}) \cup {u}
    BY <1>6
  <2> HIDE DEF u
  <2>3. nextTrade \notin IdsOf(trades')
    BY <2>1, <2>2, RowIds DEF IdsOf
  <2>4. Written(<<TradeAudit("UPDATE", TradeNow(first.id))>> \o H)
    BY <1>4, <2>3
  <2> QED
    BY <1>2, <1>3, <2>1, <2>2, <2>4, ToldEdited
<1>7. \/ trades' = trades \cup {NewTrade(s, "ADJUST", q, p, CNY, d)}
      \/ first \in trades /\ trades' = (trades \ {first}) \cup {AsAdjustment(first, q, p, d)}
  BY <1>2, AdjustedFirst
<1> QED
  BY <1>5, <1>6, <1>7

\* delete_holding
LEMMA ToldDropped ==
  ASSUME Linked, Dated, Told, NEW s \in Symbols, DeleteHoldingRequest(s)
  PROVE  Dated' /\ Told'
<1> DEFINE T == TradesOf(trades, s)
           gone == NewestFirst(T)
           settled == SettledAmong(Book, {t \in T : t.side = "SELL"})
           X == Reversals(settled)
           A == [i \in DOMAIN gone |-> TradeAudit("DELETE", gone[i])]
           Y == <<Audit("HOLDING", "DELETE", "")>>
           n == Cardinality(T)
<1>1. trades' = trades \ T /\ Written((X \o A) \o Y)
  BY DEF DeleteHoldingRequest, DeleteHolding
<1>2. T \in SUBSET trades
  BY DEF TradesOf
<1>3. DOMAIN gone = 1 .. n
  BY DEF NewestFirst
<1> HIDE DEF T, gone
<1>4. Datable(T)
  <2>1. IsFiniteSet(T)
    BY <1>2, FS_Subset DEF Dated
  <2>2. \A t \in T : t.id \in Int /\ t.day \in Int
    BY <1>2, RowIds, TradeConstants DEF Dated
  <2> QED
    BY <1>2, <2>1, <2>2, RowIds DEF Datable
<1>5. /\ n \in Nat
      /\ \A i \in 1 .. n : gone[i] \in T
      /\ \A t \in T : \E i \in 1 .. n : gone[i] = t
  BY <1>4, NewestFirstMeetsAll DEF gone
<1>6. IsFiniteSet(settled)
  <2>1. {t \in T : t.side = "SELL"} \in SUBSET T
    OBVIOUS
  <2>2. IsFiniteSet({t \in T : t.side = "SELL"})
    BY <1>4, <2>1, FS_Subset DEF Datable
  <2> QED
    BY <2>2, FinitelyManySettled
<1> HIDE DEF settled
<1>7. Aside(X)
  BY <1>6, AsideReversals
<1>8. Aside(Y)
  BY AsideOne
<1>9. DOMAIN A = 1 .. n /\ \A i \in 1 .. n : A[i] = TradeAudit("DELETE", gone[i])
  BY <1>3
<1>10. A = [i \in 1 .. n |-> A[i]]
  BY <1>3
<1> HIDE DEF A, X, Y, n
<1>11. IsLog(A)
  BY <1>5, <1>10, ListIsLog
<1>12. /\ \A i \in DOMAIN A : \E t \in T : A[i] = TradeAudit("DELETE", t)
       /\ \A t \in T : \E i \in DOMAIN A : A[i] = TradeAudit("DELETE", t)
  BY <1>5, <1>9
<1> QED
  BY <1>1, <1>2, <1>7, <1>8, <1>11, <1>12, ToldDeleted

\* update_holding of the broker or the note
LEMMA ToldNotes ==
  ASSUME Dated, Told, NEW s, EditHoldingNotes(s)
  PROVE  Dated' /\ Told'
<1>1. WrittenAside /\ UNCHANGED trades
  BY AsideOne DEF EditHoldingNotes, WrittenAside, vars
<1> QED
  BY <1>1, ToldAside

\* Each request, whatever its kind, keeps what is told.
LEMMA RecordStepTold ==
  ASSUME Linked, Amounts(entries), Dated, Told, [RecordNext]_recordVars
  PROVE  Dated' /\ Told'
<1>1. CASE (AccountRequest \/ AdjustmentRequest \/ TransferRequest
            \/ \E a \in AccountIds : DeleteAccountRequest(a)) /\ CashOnly
  <2>1. WrittenAside
    BY <1>1, AccountsAside, AdjustmentsAside, TransfersAside, DeletedAccountAside
  <2>2. UNCHANGED trades
    BY <1>1 DEF CashOnly
  <2> QED
    BY <2>1, <2>2, ToldAside
<1>2. CASE TradeRequest
  BY <1>2, ToldTrades
<1>3. CASE HoldingRequest
  BY <1>3, ToldAdjusted, ToldNotes, ToldDropped DEF HoldingRequest
<1>4. CASE AssetRequest /\ UNCHANGED vars
  <2>1. UNCHANGED trades
    BY <1>4 DEF vars
  <2> QED
    BY <1>4, <2>1, AssetsAside, ToldAside
<1>5. CASE UNCHANGED recordVars
  BY <1>5 DEF recordVars, vars, Dated, Told
<1> QED
  BY <1>1, <1>2, <1>3, <1>4, <1>5 DEF RecordNext, ReadRecords

\* Nothing is told of no trades.
LEMMA InitTold == RecordInit => Dated /\ Told
<1> SUFFICES ASSUME RecordInit PROVE Dated /\ Told
  OBVIOUS
<1>1. trades = {} /\ log = <<>>
  BY DEF RecordInit, PortfolioInit
<1>2. Learned(<<>>) = {}
  BY ProfitMapUnfolds DEF Learned, Start
<1>3. IsLog(<<>>)
  BY LogPieces
<1>4. IsFiniteSet(trades)
  BY <1>1, FS_EmptySet
<1> QED
  BY <1>1, <1>2, <1>3, <1>4 DEF Dated, Told

\* A listing that reads all audits learns from them exactly the trades of the
\* database: no handler adds, edits, adjusts or drops a trade without an audit
\* that tells it.
THEOREM AuditsAlwaysTellTrades == RecordSpec => []AuditsTellTrades
<1>1. RecordInit => Dated /\ Told
  BY InitTold
<1>2. (Linked /\ Amounts(entries)) /\ (Dated /\ Told) /\ [RecordNext]_recordVars
        => Dated' /\ Told'
  BY RecordStepTold
<1>3. RecordSpec => [](Linked /\ Amounts(entries))
  BY RecordsFollowPortfolio, AmountsStay, PTL
<1>4. Dated /\ Told => AuditsTellTrades
  BY DEF Told, AuditsTellTrades, Learned
<1> QED
  BY <1>1, <1>2, <1>3, <1>4, PTL DEF RecordSpec

=============================================================================
