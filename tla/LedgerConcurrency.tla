------------------------- MODULE LedgerConcurrency -------------------------
(***************************************************************************)
(* The statements of concurrent requests that write balances and positions *)
(* (cash_account_service.py, holding_transaction_service.py and            *)
(* holding_projection_parts/), each in a PostgreSQL transaction at READ    *)
(* COMMITTED.                                                              *)
(*                                                                         *)
(* A row is a cash account or a holding.  Its stored value is written as   *)
(* the sum of its ledger entries (its trades), which a statement of its    *)
(* own reads before: the sum sees what is committed by then and what the   *)
(* request inserted itself.  UPDATE takes a row lock that lasts until the  *)
(* transaction ends.  The ORM leaves the value out of the UPDATE when the  *)
(* sum equals the value it loaded.                                         *)
(***************************************************************************)
EXTENDS Integers, Sequences, FiniteSets, Functions

CONSTANTS
  Requests,
  MaxThreads, \* bound: how many of the requests arrive
  Rows,      \* cash accounts and holdings
  Program,   \* request -> the statements it executes, in order
  Effect,    \* request -> row -> the amount its own entry adds
  Start,     \* row -> the value it is stored with, the sum of earlier entries
  Nobody

ASSUME ConcurrencyConstants ==
  /\ IsFiniteSet(Requests)
  /\ Nobody \notin Requests
  /\ MaxThreads \in Nat
  /\ Start \in [Rows -> Nat]
  /\ Effect \in [Requests -> [Rows -> Int]]

VARIABLES
  stored,     \* row -> committed balance or quantity
  committed,  \* requests whose entries are committed
  lock,       \* row -> request whose UPDATE holds the row lock
  pc,         \* request -> position in its program
  outcome,    \* request -> how it ended, "open", or "absent"
  loaded,     \* request -> row -> value in the session
  total,      \* request -> the sum it read last
  dirty,      \* request -> the values its UPDATEs set
  seen        \* request -> what was committed when it loaded its first row

session == <<loaded, total, dirty, seen>>
vars == <<stored, committed, lock, pc, outcome, session>>

Open(r) == outcome[r] = "open"

Empty == [x \in {} |-> 0]

TypeOK ==
  /\ stored \in [Rows -> Int]
  /\ outcome \in [Requests -> {"absent", "open", "committed", "rejected", "rolled back"}]
  /\ committed = {r \in Requests : outcome[r] = "committed"}
  /\ \A x \in Rows : lock[x] # Nobody => lock[x] \in Requests /\ Open(lock[x])
  /\ \A r \in Requests : pc[r] \in 1..(Len(Program[r]) + 1)
  /\ loaded \in [Requests -> [Rows -> Int]]
  /\ total \in [Requests -> Int]
  /\ \A r \in Requests : \A x \in DOMAIN dirty[r] : lock[x] = r
  /\ seen \in [Requests -> SUBSET committed]

Step(op, x) == [op |-> op, row |-> x]

\* create_cash_ledger_adjustment
AdjustSteps(a) == <<Step("load", a), Step("sum", a), Step("write", a)>>

\* create_cash_transfer
TransferSteps(from, to) ==
  << Step("load", from), Step("load", to), Step("cover", from),
     Step("sum", from), Step("write", from), Step("sum", to), Step("write", to) >>

\* Mutant: the note is set after the balance.
SettleStepsNoteLast(a) == <<Step("sum", a), Step("write", a), Step("lock", a)>>

\* What both sides of create_holding_transaction do to the account: the new
\* note is flushed with the entry, so the row is locked before the sum.
SettleSteps(a) == <<Step("lock", a), Step("sum", a), Step("write", a)>>

\* create_holding_transaction
BuySteps(h, a) ==
  <<Step("load", h), Step("replay", h), Step("write", h), Step("load", a), Step("cover", a)>>
    \o SettleSteps(a)
SellSteps(h, a) ==
  <<Step("load", h), Step("held", h), Step("replay", h), Step("write", h), Step("load", a)>>
    \o SettleSteps(a)

\* A request has entries only on the rows that its handler writes, and those
\* of a buy take money from its account.
ASSUME RequestsAreHandled ==
  \A r \in Requests :
    \/ \E x \in Rows : /\ Program[r] = AdjustSteps(x)
                       /\ \A z \in Rows \ {x} : Effect[r][z] = 0
    \/ \E x, y \in Rows : /\ x # y
                          /\ Program[r] \in {TransferSteps(x, y), BuySteps(x, y), SellSteps(x, y)}
                          /\ \A z \in Rows \ {x, y} : Effect[r][z] = 0
                          /\ Program[r] = BuySteps(x, y) => Effect[r][y] <= 0

Init ==
  /\ stored = Start
  /\ committed = {}
  /\ lock = [x \in Rows |-> Nobody]
  /\ pc = [r \in Requests |-> 1]
  /\ \E R \in SUBSET Requests :
       /\ Cardinality(R) <= MaxThreads
       /\ outcome = [r \in Requests |-> IF r \in R THEN "open" ELSE "absent"]
  /\ loaded = [r \in Requests |-> Start]
  /\ total = [r \in Requests |-> 0]
  /\ dirty = [r \in Requests |-> Empty]
  /\ seen = [r \in Requests |-> {}]

Running(r) == Open(r) /\ pc[r] <= Len(Program[r])
Op(r) == Program[r][pc[r]].op
Row(r) == Program[r][pc[r]].row

\* The sum of row x's entries that requests R inserted, and of those before.
Ledger(R, x) == Start[x] + FoldFunctionOnSet(+, 0, [r \in Requests |-> Effect[r][x]], R)

\* Mutant: the epsilon of the sufficiency checks is a whole unit.
EnoughWithinOne(n) == n >= -1

\* The sufficiency checks accept what leaves nothing, and not less.
Enough(n) == n >= 0

Proceed(r) ==
  /\ pc' = [pc EXCEPT ![r] = @ + 1]
  /\ UNCHANGED outcome

\* Mutant: a request that fails keeps its transaction open.
ReleaseNothing(r) == UNCHANGED lock

\* COMMIT and ROLLBACK free the row locks.
Release(r) == lock' = [x \in Rows |-> IF lock[x] = r THEN Nobody ELSE lock[x]]

\* The session is closed with its transaction.
End(r, how) ==
  /\ outcome' = [outcome EXCEPT ![r] = how]
  /\ pc' = [pc EXCEPT ![r] = 1]
  /\ Release(r)
  /\ loaded' = [loaded EXCEPT ![r] = Start]
  /\ total' = [total EXCEPT ![r] = 0]
  /\ dirty' = [dirty EXCEPT ![r] = Empty]
  /\ seen' = [seen EXCEPT ![r] = {}]

Reject(r) == End(r, "rejected")

\* session.get, or the first query that returns the row.
Load(r) ==
  /\ Running(r) /\ Op(r) = "load"
  /\ loaded' = [loaded EXCEPT ![r][Row(r)] = stored[Row(r)]]
  /\ seen' = [seen EXCEPT ![r] = IF pc[r] = 1 THEN committed ELSE @]
  /\ Proceed(r)
  /\ UNCHANGED <<stored, committed, lock, total, dirty>>

\* The loaded balance is enough for the deduction, or 422.
Cover(r) ==
  /\ Running(r) /\ Op(r) = "cover"
  /\ IF Enough(loaded[r][Row(r)] + Effect[r][Row(r)])
     THEN Proceed(r) /\ UNCHANGED <<lock, session>>
     ELSE Reject(r)
  /\ UNCHANGED <<stored, committed>>

\* The replayed trades hold the quantity to sell, or 422.
Held(r) ==
  /\ Running(r) /\ Op(r) = "held"
  /\ IF Enough(Ledger(committed, Row(r)) + Effect[r][Row(r)])
     THEN Proceed(r) /\ UNCHANGED <<lock, session>>
     ELSE Reject(r)
  /\ UNCHANGED <<stored, committed>>

\* The entries, the request's own included, are read; a replay of trades that
\* sell more than they bought is a 422.
Sum(r) ==
  /\ Running(r) /\ Op(r) \in {"sum", "replay"}
  /\ LET n == Ledger(committed \cup {r}, Row(r))
     IN IF Op(r) = "replay" => Enough(n)
        THEN /\ total' = [total EXCEPT ![r] = n]
             /\ Proceed(r)
             /\ UNCHANGED <<lock, loaded, dirty, seen>>
        ELSE Reject(r)
  /\ UNCHANGED <<stored, committed>>

Lockable(r) == lock[Row(r)] \in {Nobody, r}

\* UPDATE of another column of the row.
Lock(r) ==
  /\ Running(r) /\ Op(r) = "lock" /\ Lockable(r)
  /\ lock' = [lock EXCEPT ![Row(r)] = r]
  /\ Proceed(r)
  /\ UNCHANGED <<stored, committed, loaded, total, dirty, seen>>

\* UPDATE of the row with the sum, unless the session holds that value.
Write(r) ==
  /\ Running(r) /\ Op(r) = "write" /\ Lockable(r)
  /\ lock' = [lock EXCEPT ![Row(r)] = r]
  /\ dirty' = [dirty EXCEPT ![r] =
                 IF total[r] = loaded[r][Row(r)] THEN @
                 ELSE [x \in DOMAIN @ \cup {Row(r)} |-> IF x = Row(r) THEN total[r] ELSE @[x]]]
  /\ Proceed(r)
  /\ UNCHANGED <<stored, committed, loaded, total, seen>>

Commit(r) ==
  /\ Open(r) /\ pc[r] = Len(Program[r]) + 1
  /\ stored' = [x \in Rows |-> IF x \in DOMAIN dirty[r] THEN dirty[r][x] ELSE stored[x]]
  /\ committed' = committed \cup {r}
  /\ End(r, "committed")

\* A failure that ends the session before it commits.
Fail(r) ==
  /\ Open(r)
  /\ End(r, "rolled back")
  /\ UNCHANGED <<stored, committed>>

Waiting(r) == Running(r) /\ Op(r) \in {"lock", "write"} /\ ~Lockable(r)

\* PostgreSQL aborts one of the transactions that wait for each other.
AbortDeadlocked(r) ==
  /\ \E D \in SUBSET {q \in Requests : Waiting(q)} :
       /\ r \in D
       /\ {lock[Row(q)] : q \in D} = D
  /\ End(r, "rolled back")
  /\ UNCHANGED <<stored, committed>>

Advance(r) ==
  Load(r) \/ Cover(r) \/ Held(r) \/ Sum(r) \/ Lock(r) \/ Write(r) \/ Commit(r)

Next == \E r \in Requests : Advance(r) \/ Fail(r) \/ AbortDeadlocked(r)

Spec == Init /\ [][Next]_vars

\* A request's thread runs on, and PostgreSQL looks for deadlocks.
FairSpec ==
  /\ Spec
  /\ \A r \in Requests : WF_vars(Advance(r))
  /\ WF_vars(\E r \in Requests : AbortDeadlocked(r))

-----------------------------------------------------------------------------
\* What is stored is the sum of the committed entries.  Adjustments that
\* overlap break this; the properties say what holds in spite of that.
BalanceIsLedger(x) == stored[x] = Ledger(committed, x)

\* The rows a request sets when nothing stops it.
Written ==
  [r \in Requests |-> {step.row : step \in {st \in Range(Program[r]) : st.op = "write"}}]

Arrived == {r \in Requests : outcome[r] # "absent"}
BuysOn == [x \in Rows |-> {r \in Requests : \E h \in Rows : Program[r] = BuySteps(h, x)}]
Writers(x) == {r \in Arrived : x \in Written[r]}

\* Buys that draw on one account, of one stock or several, keep its balance
\* right however they interleave: the note they flush first locks the account.
BuysKeepBalance ==
  \A x \in Rows : Writers(x) \subseteq BuysOn[x] => BalanceIsLedger(x)

\* r commits and no other request has committed since r loaded its first row.
CommitsAlone(r) == Open(r) /\ outcome'[r] = "committed" /\ seen[r] = committed

\* Earlier overlaps may have left a wrong balance or position; a request that
\* overlaps with no other commit leaves the rows it writes right, whatever it
\* found in them, and its own checks suffice: a sale leaves a position even
\* when the stored one had been wrong, a buy or a transfer a balance unless the
\* stored one was.
LoneCommitsSound ==
  [][\A r \in Requests : CommitsAlone(r) =>
       /\ \A x \in Written[r] : stored'[x] = Ledger(committed', x)
       /\ \A i \in DOMAIN Program[r] :
            LET x == Program[r][i].row
            IN \/ Program[r][i].op = "held"
               \/ Program[r][i].op = "cover" /\ BalanceIsLedger(x)
               => Ledger(committed', x) >= 0]_vars

\* Requests that wait for each other's rows all end.
RequestsEnd == <>(\A r \in Requests : ~Open(r))
=============================================================================
