------------------------- MODULE AgentAccess_proofs -------------------------
(***************************************************************************)
(* The limits on keys, the request counts and the registrations' keys, for *)
(* every set of names, agents and request threads, every limit, and        *)
(* however many locks lapse.                                               *)
(***************************************************************************)
EXTENDS AgentAccess, FiniteSetTheorems, SequenceTheorems, TLAPS

Token == [name : Names, revoked : BOOLEAN]
Registration == [count : Nat, active : BOOLEAN, key : Names \cup {NoName}]
CreateCall(dead) == [op : {"create", "check", "insert"}, name : Names, dead : SUBSET dead]

(***************************************************************************)
(* What the handlers hold between two steps.                               *)
(***************************************************************************)
LinkColumns(changed) ==
  \A a \in DOMAIN changed :
    /\ DOMAIN changed[a] \subseteq {"active", "key"}
    /\ "active" \in DOMAIN changed[a] => changed[a]["active"] \in BOOLEAN
    /\ "key" \in DOMAIN changed[a] => changed[a]["key"] \in Names \cup {NoName}

CountColumns(changed) ==
  /\ DOMAIN changed \subseteq {"count", "active", "key"} /\ "count" \in DOMAIN changed
  /\ changed["count"] \in Nat
  /\ "active" \in DOMAIN changed => changed["active"] \in BOOLEAN
  /\ "key" \in DOMAIN changed => changed["key"] \in Names \cup {NoName}

\* c, where ids are the keys there are and dead those that have expired
CallOf(c, ids, dead) ==
  /\ c = NoCall \/ c.op \in {"create", "sync", "check", "insert", "unlink", "revoke", "wait", "count"}
  /\ c.op \in {"create", "check", "insert"} => c \in CreateCall(dead)
  /\ c.op = "sync" => c.create \in CreateCall(dead)
  /\ c.op \in {"sync", "revoke"} => LinkColumns(c.changed)
  /\ c.op \in {"wait", "count"} => c.agent \in Agents /\ c.token \in ids
  /\ c.op = "count" => CountColumns(c.changed)

Typed ==
  /\ tokens \in Seq(Token) /\ expired \subseteq DOMAIN tokens
  /\ registration \in [Agents -> Registration]
  /\ call = [r \in Requests |-> call[r]]
  /\ \A r \in Requests : CallOf(call[r], DOMAIN tokens, expired)
  /\ lock \in [Locks -> Requests \cup {Nobody}]
  /\ lapses \in Nat
  /\ served \in [Agents -> Seq(DOMAIN tokens)]
  /\ overlapped \in BOOLEAN

-----------------------------------------------------------------------------
(***************************************************************************)
(* What an UPDATE makes of a registration.                                 *)
(***************************************************************************)
\* A column that is named is written; the others stay.
LEMMA WrittenRow ==
  ASSUME NEW row \in Registration, NEW changed,
         DOMAIN changed \subseteq {"count", "active", "key"},
         "count" \in DOMAIN changed => changed["count"] \in Nat,
         "active" \in DOMAIN changed => changed["active"] \in BOOLEAN,
         "key" \in DOMAIN changed => changed["key"] \in Names \cup {NoName}
  PROVE  /\ Written(row, changed) \in Registration
         /\ Written(row, changed).count
              = IF "count" \in DOMAIN changed THEN changed["count"] ELSE row.count
         /\ Written(row, changed).key
              = IF "key" \in DOMAIN changed THEN changed["key"] ELSE row.key
<1> DEFINE w == Written(row, changed)
<1>1. w = [count |-> IF "count" \in DOMAIN changed THEN changed["count"] ELSE row.count,
           active |-> IF "active" \in DOMAIN changed THEN changed["active"] ELSE row.active,
           key |-> IF "key" \in DOMAIN changed THEN changed["key"] ELSE row.key]
  <2>1. row = [count |-> row.count, active |-> row.active, key |-> row.key]
    BY DEF Registration
  <2>2. DOMAIN row = {"count", "active", "key"}
    BY <2>1
  <2> QED BY <2>1, <2>2 DEF Written
<1>2. row.count \in Nat /\ row.active \in BOOLEAN /\ row.key \in Names \cup {NoName}
  BY DEF Registration
<1> HIDE DEF w
<1>3. w \in Registration /\ w.count = (IF "count" \in DOMAIN changed THEN changed["count"] ELSE row.count)
      /\ w.key = (IF "key" \in DOMAIN changed THEN changed["key"] ELSE row.key)
  BY <1>1, <1>2 DEF Registration
<1> QED BY <1>3 DEF w

\* The columns that change, of two rows
LEMMA ChangedRow ==
  ASSUME NEW row \in Registration, NEW new \in Registration
  PROVE  /\ DOMAIN Changed(row, new) \subseteq {"count", "active", "key"}
         /\ "count" \in DOMAIN Changed(row, new) <=> row.count # new.count
         /\ "active" \in DOMAIN Changed(row, new) <=> row.active # new.active
         /\ "key" \in DOMAIN Changed(row, new) <=> row.key # new.key
         /\ \A k \in DOMAIN Changed(row, new) : Changed(row, new)[k] = new[k]
<1>1. row = [count |-> row.count, active |-> row.active, key |-> row.key]
  BY DEF Registration
<1>2. DOMAIN row = {"count", "active", "key"}
  BY <1>1
<1> QED BY <1>2 DEF Changed

\* A request unlinks nothing but the key and the status.
LEMMA UnlinkedColumns ==
  ASSUME Typed, NEW ts
  PROVE  /\ LinkColumns(Unlinked(ts))
         /\ DOMAIN Unlinked(ts) = {a \in Agents : registration[a].key \in NamesOf(ts)}
         /\ \A a \in DOMAIN Unlinked(ts) :
              /\ "key" \in DOMAIN Unlinked(ts)[a] <=> registration[a].key # NoName
              /\ "key" \in DOMAIN Unlinked(ts)[a] => Unlinked(ts)[a]["key"] = NoName
<1>1. DOMAIN Unlinked(ts) = {a \in Agents : registration[a].key \in NamesOf(ts)}
  BY DEF Unlinked
<1>2. SUFFICES ASSUME NEW a \in DOMAIN Unlinked(ts)
               PROVE  /\ DOMAIN Unlinked(ts)[a] \subseteq {"active", "key"}
                      /\ "active" \in DOMAIN Unlinked(ts)[a] => Unlinked(ts)[a]["active"] \in BOOLEAN
                      /\ "key" \in DOMAIN Unlinked(ts)[a] <=> registration[a].key # NoName
                      /\ "key" \in DOMAIN Unlinked(ts)[a] => Unlinked(ts)[a]["key"] = NoName
  BY <1>1 DEF LinkColumns
<1> DEFINE row == registration[a]
           new == [row EXCEPT !.active = FALSE, !.key = NoName]
<1>3. Unlinked(ts)[a] = Changed(row, new) /\ row \in Registration
  BY <1>1 DEF Unlinked, Typed
<1>4. new \in Registration /\ new.count = row.count /\ new.active = FALSE /\ new.key = NoName
  BY <1>3 DEF Registration
<1>5. new["count"] = row.count /\ new["active"] = FALSE /\ new["key"] = NoName
  BY <1>4
<1> HIDE DEF row, new
<1> DEFINE c == Changed(row, new)
<1>6. /\ DOMAIN c \subseteq {"count", "active", "key"}
      /\ "count" \in DOMAIN c <=> row.count # new.count
      /\ "key" \in DOMAIN c <=> row.key # new.key
      /\ \A k \in DOMAIN c : c[k] = new[k]
  BY <1>3, <1>4, ChangedRow
<1>7. Unlinked(ts)[a] = c /\ row.key = registration[a].key
  BY <1>3 DEF row
<1> HIDE DEF c
<1>8. /\ DOMAIN c \subseteq {"active", "key"}
      /\ "active" \in DOMAIN c => c["active"] \in BOOLEAN
      /\ "key" \in DOMAIN c => c["key"] = NoName
  BY <1>4, <1>5, <1>6
<1>9. "key" \in DOMAIN c <=> registration[a].key # NoName
  BY <1>4, <1>6, <1>7
<1> QED BY <1>7, <1>8, <1>9

\* The columns that a request that is counted changes, the count among them
LEMMA CountedColumns ==
  ASSUME Typed, NEW a \in Agents, NEW t \in DOMAIN tokens
  PROVE  LET changed == Changed(registration[a], Counted(a, t))
         IN /\ CountColumns(changed) /\ changed["count"] = registration[a].count + 1
            /\ changed.count = registration[a].count + 1
            /\ "key" \in DOMAIN changed <=> registration[a].key # tokens[t].name
            /\ "key" \in DOMAIN changed => changed["key"] = tokens[t].name
<1> DEFINE row == registration[a]
           new == Counted(a, t)
<1>1. row \in Registration /\ tokens[t].name \in Names
  <2>1. tokens \in Seq(Token) /\ row \in Registration
    BY DEF Typed
  <2> HIDE DEF row
  <2>2. tokens[t] \in Token
    BY <2>1
  <2> QED BY <2>1, <2>2 DEF Token
<1>2. row.count \in Nat
  BY <1>1 DEF Registration
<1>3. /\ new \in Registration /\ new.count = row.count + 1 /\ new.active = TRUE
      /\ new.key = tokens[t].name
      /\ new["count"] = row.count + 1 /\ new["active"] \in BOOLEAN /\ new["key"] = tokens[t].name
  BY <1>1, <1>2 DEF Counted, Registration
<1> HIDE DEF row, new
<1> DEFINE changed == Changed(row, new)
<1>4. /\ DOMAIN changed \subseteq {"count", "active", "key"} /\ "count" \in DOMAIN changed
      /\ "key" \in DOMAIN changed <=> row.key # tokens[t].name
      /\ \A k \in DOMAIN changed : changed[k] = new[k]
  BY <1>1, <1>2, <1>3, ChangedRow
<1> HIDE DEF changed
<1>5. /\ changed["count"] = row.count + 1
      /\ "active" \in DOMAIN changed => changed["active"] \in BOOLEAN
      /\ "key" \in DOMAIN changed => changed["key"] = tokens[t].name
      /\ changed["count"] \in Nat
      /\ "key" \in DOMAIN changed => changed["key"] \in Names \cup {NoName}
  BY <1>1, <1>2, <1>3, <1>4
<1>6. CountColumns(changed)
  BY <1>4, <1>5 DEF CountColumns
<1>7. changed.count = changed["count"]
  OBVIOUS
<1> QED BY <1>4, <1>5, <1>6, <1>7 DEF changed, row, new

\* Revoking keeps the rows of the keys and their names, and takes registrations
\* nothing but their key and status.
LEMMA RevokedRows ==
  ASSUME Typed, NEW r, NEW ts, NEW changed, LinkColumns(changed), CommitRevoked(r, ts, changed)
  PROVE  /\ tokens' \in Seq(Token) /\ Len(tokens') = Len(tokens) /\ DOMAIN tokens' = DOMAIN tokens
         /\ \A t \in DOMAIN tokens : /\ tokens'[t].name = tokens[t].name
                                     /\ tokens'[t].revoked = (tokens[t].revoked \/ t \in ts)
         /\ registration' \in [Agents -> Registration]
         /\ \A a \in Agents :
              /\ registration'[a].count = registration[a].count
              /\ registration'[a].key = IF a \in DOMAIN changed /\ "key" \in DOMAIN changed[a]
                                        THEN changed[a]["key"] ELSE registration[a].key
<1> DEFINE n == Len(tokens)
<1>1. tokens \in Seq(Token) /\ n \in Nat /\ DOMAIN tokens = 1 .. n
  BY DEF Typed
<1>2. \A t \in 1 .. n : tokens[t] \in Token
  BY <1>1
<1>3. tokens' = [t \in 1 .. n |-> IF t \in ts THEN [tokens[t] EXCEPT !.revoked = TRUE] ELSE tokens[t]]
  BY <1>1 DEF CommitRevoked
<1>4. \A t \in 1 .. n : /\ tokens'[t] \in Token /\ tokens'[t].name = tokens[t].name
                        /\ tokens'[t].revoked = (tokens[t].revoked \/ t \in ts)
  BY <1>2, <1>3 DEF Token
<1>5. tokens' \in [1 .. n -> Token]
  BY <1>3, <1>4
<1>6. tokens' \in Seq(Token) /\ Len(tokens') = n /\ DOMAIN tokens' = 1 .. n
  BY <1>1, <1>5
<1>7. ASSUME NEW a \in Agents
      PROVE  /\ registration'[a] \in Registration
             /\ registration'[a].count = registration[a].count
             /\ registration'[a].key = IF a \in DOMAIN changed /\ "key" \in DOMAIN changed[a]
                                       THEN changed[a]["key"] ELSE registration[a].key
  <2>1. registration[a] \in Registration
    BY DEF Typed
  <2>2. CASE a \in DOMAIN changed
    <3>1. registration'[a] = Written(registration[a], changed[a])
      BY <2>2 DEF CommitRevoked
    <3>2. /\ DOMAIN changed[a] \subseteq {"count", "active", "key"} /\ "count" \notin DOMAIN changed[a]
          /\ "active" \in DOMAIN changed[a] => changed[a]["active"] \in BOOLEAN
          /\ "key" \in DOMAIN changed[a] => changed[a]["key"] \in Names \cup {NoName}
      BY <2>2 DEF LinkColumns
    <3> QED BY <2>1, <2>2, <3>1, <3>2, WrittenRow
  <2>3. CASE a \notin DOMAIN changed
    BY <2>1, <2>3 DEF CommitRevoked
  <2> QED BY <2>2, <2>3
<1>8. registration' \in [Agents -> Registration]
  <2>1. registration' = [a \in Agents |-> registration'[a]]
    BY DEF CommitRevoked
  <2> QED BY <1>7, <2>1
<1> QED BY <1>1, <1>4, <1>6, <1>7, <1>8

-----------------------------------------------------------------------------
(***************************************************************************)
(* The types, step by step.                                                *)
(***************************************************************************)
\* What a handler holds stays right when keys are added or expire.
LEMMA CallStays ==
  ASSUME NEW c, NEW ids, NEW dead, CallOf(c, ids, dead),
         NEW moreIds, ids \subseteq moreIds, NEW moreDead, dead \subseteq moreDead
  PROVE  CallOf(c, moreIds, moreDead)
<1>1. CreateCall(dead) \subseteq CreateCall(moreDead)
  BY DEF CreateCall
<1> QED BY <1>1 DEF CallOf

\* Lists of keys are lists of keys also when there are more keys.
LEMMA ServedStays ==
  ASSUME NEW S, NEW T, S \subseteq T, NEW s \in Seq(S)
  PROVE  s \in Seq(T)
<1>1. s \in [1 .. Len(s) -> S] /\ Len(s) \in Nat
  OBVIOUS
<1>2. s \in [1 .. Len(s) -> T]
  BY <1>1
<1> QED BY <1>1, <1>2

\* One request goes on with c, the others hold what they held.
LEMMA CallsStep ==
  ASSUME Typed, NEW r \in Requests, NEW c, Go(r, c),
         DOMAIN tokens \subseteq DOMAIN tokens', expired \subseteq expired',
         CallOf(c, DOMAIN tokens', expired')
  PROVE  /\ call' = [q \in Requests |-> call'[q]]
         /\ call'[r] = c /\ \A q \in Requests \ {r} : call'[q] = call[q]
         /\ \A q \in Requests : CallOf(call'[q], DOMAIN tokens', expired')
<1>1. /\ call' = [q \in Requests |-> call'[q]]
      /\ call'[r] = c /\ \A q \in Requests \ {r} : call'[q] = call[q]
  BY DEF Go, Typed
<1>2. ASSUME NEW q \in Requests \ {r} PROVE CallOf(call'[q], DOMAIN tokens', expired')
  <2>1. CallOf(call[q], DOMAIN tokens, expired) /\ call'[q] = call[q]
    BY <1>1 DEF Typed
  <2>2. CallOf(call[q], DOMAIN tokens', expired')
    BY <2>1, CallStays
  <2> QED BY <2>1, <2>2
<1> QED BY <1>1, <1>2

\* A request that holds nothing is well typed.
LEMMA NoCallOf == ASSUME NEW ids, NEW dead PROVE CallOf(NoCall, ids, dead)
BY DEF CallOf, NoCall

\* The fields of what a request holds
LEMMA CallFields ==
  ASSUME Typed, NEW r \in Requests
  PROVE  /\ CallOf(call[r], DOMAIN tokens, expired)
         /\ call[r].op \in {"create", "check", "insert"} =>
              /\ call[r] \in CreateCall(expired)
              /\ call[r].name \in Names /\ call[r].dead \subseteq expired
         /\ Doing(r, "sync") => /\ call[r].create \in CreateCall(expired)
                                /\ LinkColumns(call[r].changed)
         /\ Doing(r, "revoke") => LinkColumns(call[r].changed)
         /\ call[r].op \in {"wait", "count"} =>
              /\ call[r].agent \in Agents /\ call[r].agent \in Locks
              /\ call[r].token \in DOMAIN tokens
         /\ Doing(r, "count") => CountColumns(call[r].changed)
<1>1. CallOf(call[r], DOMAIN tokens, expired)
  BY DEF Typed
<1>2. call[r].op \in {"create", "check", "insert"} =>
        /\ call[r] \in CreateCall(expired)
        /\ call[r].name \in Names /\ call[r].dead \subseteq expired
  BY <1>1 DEF CallOf, CreateCall
<1> QED BY <1>1, <1>2 DEF CallOf, Doing, Locks

\* Locks are taken and given back by requests.
LEMMA LockTyped ==
  ASSUME Typed, NEW r \in Requests, NEW l \in Locks
  PROVE  /\ Acquire(r, l) => /\ lock' \in [Locks -> Requests \cup {Nobody}]
                             /\ lock'[l] = r /\ lock[l] = Nobody
                             /\ \A k \in Locks \ {l} : lock'[k] = lock[k]
         /\ Release(r, l) => /\ lock' \in [Locks -> Requests \cup {Nobody}]
                             /\ lock'[l] = IF lock[l] = r THEN Nobody ELSE lock[l]
                             /\ \A k \in Locks \ {l} : lock'[k] = lock[k]
<1>1. lock \in [Locks -> Requests \cup {Nobody}]
  BY DEF Typed
<1> QED BY <1>1 DEF Acquire, Release

\* A step that only takes a request further, and perhaps a lock
LEMMA QuietTyped ==
  ASSUME Typed, NEW r \in Requests, NEW c, Go(r, c), UNCHANGED dataVars,
         CallOf(c, DOMAIN tokens, expired), lock' \in [Locks -> Requests \cup {Nobody}],
         lapses' = lapses, overlapped' \in BOOLEAN
  PROVE  Typed'
<1>1. tokens' = tokens /\ expired' = expired /\ registration' = registration /\ served' = served
  BY DEF dataVars
<1>2. /\ call' = [q \in Requests |-> call'[q]]
      /\ \A q \in Requests : CallOf(call'[q], DOMAIN tokens', expired')
  BY <1>1, CallsStep
<1> QED BY <1>1, <1>2 DEF Typed

\* What a request begins with
LEMMA BeginsWith ==
  ASSUME Typed, NEW r \in Requests,
         \/ \E n \in Names : StartCreate(r, n)
         \/ \E t \in DOMAIN tokens : StartRevoke(r, t) \/ \E a \in Agents : StartRequest(r, t, a)
         \/ ListTokens(r)
  PROVE  /\ lock' = lock /\ lapses' = lapses /\ UNCHANGED dataVars
         /\ \E c : /\ Begin(r, c) /\ CallOf(c, DOMAIN tokens, expired)
                   /\ c.op \in {"create", "unlink", "wait"}
                   /\ c.op = "unlink" => c.keys \subseteq Active({})
                   /\ c.op = "wait" => c.token \in Active({})
<1> DEFINE Goal == \E c : /\ Begin(r, c) /\ CallOf(c, DOMAIN tokens, expired)
                          /\ c.op \in {"create", "unlink", "wait"}
                          /\ c.op = "unlink" => c.keys \subseteq Active({})
                          /\ c.op = "wait" => c.token \in Active({})
<1>1. lock' = lock /\ lapses' = lapses /\ UNCHANGED dataVars
  BY DEF StartCreate, StartRevoke, StartRequest, ListTokens
<1>2. CASE \E n \in Names : StartCreate(r, n)
  <2>1. PICK n \in Names : StartCreate(r, n)
    BY <1>2
  <2> DEFINE c == [op |-> "create", name |-> n, dead |-> expired]
  <2>2. Begin(r, c)
    BY <2>1 DEF StartCreate
  <2>3. CallOf(c, DOMAIN tokens, expired) /\ c.op = "create"
    BY DEF CallOf, CreateCall
  <2>4. Goal
    BY <2>2, <2>3
  <2> QED BY <1>1, <2>4
<1>3. ASSUME NEW ts \in SUBSET Active({}), Begin(r, [op |-> "unlink", keys |-> ts])
      PROVE  Goal
  <2> DEFINE c == [op |-> "unlink", keys |-> ts]
  <2>1. CallOf(c, DOMAIN tokens, expired) /\ c.op = "unlink" /\ c.keys = ts
    BY DEF CallOf
  <2> QED BY <1>3, <2>1
<1>4. CASE \E t \in DOMAIN tokens : StartRevoke(r, t) \/ \E a \in Agents : StartRequest(r, t, a)
  <2>1. PICK t \in DOMAIN tokens : StartRevoke(r, t) \/ \E a \in Agents : StartRequest(r, t, a)
    BY <1>4
  <2>2. ~tokens[t].revoked
    BY <2>1 DEF StartRevoke, StartRequest
  <2>3. t \in Active({})
    BY <2>2 DEF Active
  <2>4. CASE Begin(r, [op |-> "unlink", keys |-> {t}])
    BY <1>1, <1>3, <2>3, <2>4
  <2>5. CASE ~Begin(r, [op |-> "unlink", keys |-> {t}])
    <3>1. PICK a \in Agents : StartRequest(r, t, a)
      BY <2>1, <2>5 DEF StartRevoke
    <3> DEFINE c == [op |-> "wait", token |-> t, agent |-> a]
    <3>2. Begin(r, c)
      BY <2>5, <3>1 DEF StartRequest
    <3>3. CallOf(c, DOMAIN tokens, expired) /\ c.op = "wait" /\ c.token = t
      BY <2>1, <3>1 DEF CallOf
    <3>4. Goal
      BY <2>3, <3>2, <3>3
    <3> QED BY <1>1, <3>4
  <2> QED BY <2>4, <2>5
<1>5. CASE ListTokens(r)
  <2>1. Goal
    BY <1>3, <1>5 DEF ListTokens
  <2> QED BY <1>1, <2>1
<1> QED BY <1>2, <1>4, <1>5

\* A request begins: what it holds is well typed.
LEMMA BeginTyped ==
  ASSUME Typed, NEW r \in Requests,
         \/ \E n \in Names : StartCreate(r, n)
         \/ \E t \in DOMAIN tokens : StartRevoke(r, t) \/ \E a \in Agents : StartRequest(r, t, a)
         \/ ListTokens(r)
  PROVE  Typed'
<1>1. PICK c : Begin(r, c) /\ CallOf(c, DOMAIN tokens, expired)
  BY BeginsWith
<1>2. lock' = lock /\ lapses' = lapses /\ UNCHANGED dataVars
  BY BeginsWith
<1>3. Go(r, c) /\ overlapped' \in BOOLEAN /\ lock' \in [Locks -> Requests \cup {Nobody}]
  BY <1>1, <1>2 DEF Begin, Typed
<1> QED BY <1>1, <1>2, <1>3, QuietTyped

\* The steps of a revocation
LEMMA RevokeTyped ==
  ASSUME Typed, NEW r \in Requests, LoadLinks(r) \/ CommitRevoke(r)
  PROVE  Typed'
<1>1. CASE LoadLinks(r)
  <2> DEFINE c == [op |-> "revoke", keys |-> call[r].keys, changed |-> Unlinked(call[r].keys)]
  <2>1. /\ Go(r, c) /\ UNCHANGED dataVars /\ lapses' = lapses /\ overlapped' \in BOOLEAN
        /\ lock' \in [Locks -> Requests \cup {Nobody}]
    BY <1>1 DEF LoadLinks, Typed
  <2>2. CallOf(c, DOMAIN tokens, expired)
    BY UnlinkedColumns DEF CallOf
  <2> QED BY <2>1, <2>2, QuietTyped
<1>2. CASE CommitRevoke(r)
  <2>1. /\ tokens' \in Seq(Token) /\ DOMAIN tokens' = DOMAIN tokens
        /\ registration' \in [Agents -> Registration]
    BY <1>2, CallFields, RevokedRows DEF CommitRevoke
  <2>2. /\ Go(r, NoCall) /\ expired' = expired /\ served' = served /\ lock' = lock
        /\ lapses' = lapses /\ overlapped' = overlapped
    BY <1>2 DEF CommitRevoke, Return
  <2>3. /\ call' = [q \in Requests |-> call'[q]]
        /\ \A q \in Requests : CallOf(call'[q], DOMAIN tokens', expired')
    BY <2>1, <2>2, CallsStep, NoCallOf
  <2> QED BY <2>1, <2>2, <2>3 DEF Typed
<1> QED BY <1>1, <1>2

\* The steps of a creation
LEMMA CreateTyped ==
  ASSUME Typed, NEW r \in Requests,
         EnterCreate(r) \/ CommitSync(r) \/ CheckCreate(r) \/ InsertKey(r)
  PROVE  Typed'
<1>k. "keys" \in Locks
  BY DEF Locks
<1>1. CASE EnterCreate(r)
  <2> DEFINE old == call[r].dead \cap Active({})
             c == [op |-> "sync", create |-> call[r], keys |-> old, changed |-> Unlinked(old)]
  <2>1. /\ Go(r, c) /\ UNCHANGED dataVars /\ lapses' = lapses /\ overlapped' \in BOOLEAN
        /\ lock' \in [Locks -> Requests \cup {Nobody}]
    BY <1>1, <1>k, LockTyped DEF EnterCreate, Typed
  <2>2. call[r] \in CreateCall(expired)
    BY <1>1, CallFields DEF EnterCreate, Doing
  <2>3. LinkColumns(Unlinked(old))
    BY UnlinkedColumns
  <2>4. CallOf(c, DOMAIN tokens, expired)
    BY <2>2, <2>3 DEF CallOf
  <2> QED BY <2>1, <2>4, QuietTyped
<1>2. CASE CommitSync(r)
  <2>1. Doing(r, "sync")
    BY <1>2 DEF CommitSync
  <2>2. call[r].create \in CreateCall(expired) /\ LinkColumns(call[r].changed)
    BY <2>1, CallFields
  <2>3. /\ tokens' \in Seq(Token) /\ DOMAIN tokens' = DOMAIN tokens
        /\ registration' \in [Agents -> Registration]
    BY <1>2, <2>2, RevokedRows DEF CommitSync
  <2> DEFINE c == [call[r].create EXCEPT !.op = "check"]
  <2>4. /\ Go(r, c) /\ expired' = expired /\ served' = served /\ lock' = lock
        /\ lapses' = lapses /\ overlapped' = overlapped
    BY <1>2 DEF CommitSync
  <2>5. c \in CreateCall(expired) /\ c.op = "check"
    BY <2>2 DEF CreateCall
  <2>6. CallOf(c, DOMAIN tokens, expired)
    BY <2>5 DEF CallOf
  <2> HIDE DEF c
  <2>7. /\ call' = [q \in Requests |-> call'[q]]
        /\ \A q \in Requests : CallOf(call'[q], DOMAIN tokens', expired')
    BY <2>3, <2>4, <2>6, CallsStep
  <2> QED BY <2>3, <2>4, <2>7 DEF Typed
<1>3. CASE CheckCreate(r)
  <2>1. UNCHANGED dataVars /\ lapses' = lapses /\ overlapped' \in BOOLEAN
    BY <1>3 DEF CheckCreate, Typed
  <2>2. CASE Return(r) /\ Release(r, "keys")
    BY <1>k, <2>1, <2>2, LockTyped, NoCallOf, QuietTyped DEF Return
  <2>3. CASE Go(r, [call[r] EXCEPT !.op = "insert"]) /\ lock' = lock
    <3> DEFINE c == [call[r] EXCEPT !.op = "insert"]
    <3>1. call[r] \in CreateCall(expired)
      BY <1>3, CallFields DEF CheckCreate, Doing
    <3>2. c \in CreateCall(expired) /\ c.op = "insert"
      BY <3>1 DEF CreateCall
    <3>3. CallOf(c, DOMAIN tokens, expired)
      BY <3>2 DEF CallOf
    <3>4. lock' \in [Locks -> Requests \cup {Nobody}]
      BY <2>3 DEF Typed
    <3> QED BY <2>1, <2>3, <3>3, <3>4, QuietTyped
  <2> QED BY <1>3, <2>2, <2>3 DEF CheckCreate
<1>4. CASE InsertKey(r)
  <2> DEFINE key == [name |-> call[r].name, revoked |-> FALSE]
  <2>1. key \in Token
    BY <1>4, CallFields DEF InsertKey, Doing, Token
  <2>2. tokens' = Append(tokens, key) /\ tokens \in Seq(Token)
    BY <1>4 DEF InsertKey, Typed
  <2> HIDE DEF key
  <2>3. tokens' \in Seq(Token) /\ DOMAIN tokens \subseteq DOMAIN tokens'
    BY <2>1, <2>2
  <2>4. /\ Go(r, NoCall) /\ expired' = expired /\ served' = served /\ registration' = registration
        /\ lock' \in [Locks -> Requests \cup {Nobody}] /\ lapses' = lapses /\ overlapped' = overlapped
    BY <1>4, <1>k, LockTyped DEF InsertKey, Return
  <2>5. /\ call' = [q \in Requests |-> call'[q]]
        /\ \A q \in Requests : CallOf(call'[q], DOMAIN tokens', expired')
    BY <2>3, <2>4, CallsStep, NoCallOf
  <2>6. \A a \in Agents : served[a] \in Seq(DOMAIN tokens')
    BY <2>3, ServedStays DEF Typed
  <2>7. served' \in [Agents -> Seq(DOMAIN tokens')]
    BY <2>4, <2>6 DEF Typed
  <2> QED BY <2>3, <2>4, <2>5, <2>7 DEF Typed
<1> QED BY <1>1, <1>2, <1>3, <1>4

\* The steps of a request that names an agent
LEMMA CountTyped ==
  ASSUME Typed, NEW r \in Requests, LoadRegistration(r) \/ CommitRegistration(r)
  PROVE  Typed'
<1>1. CASE LoadRegistration(r)
  <2> DEFINE a == call[r].agent
             changed == Changed(registration[a], Counted(a, call[r].token))
             new == registration[a].count = 0
             c == [op |-> "count", agent |-> a, token |-> call[r].token,
                   new |-> new, changed |-> changed]
  <2>1. a \in Agents /\ a \in Locks /\ call[r].token \in DOMAIN tokens
    BY <1>1, CallFields DEF LoadRegistration, Doing
  <2>2. CountColumns(changed)
    BY <2>1, CountedColumns
  <2>3. /\ Go(r, c) /\ UNCHANGED dataVars /\ lapses' = lapses /\ overlapped' \in BOOLEAN
        /\ lock' \in [Locks -> Requests \cup {Nobody}]
    BY <1>1, <2>1, LockTyped DEF LoadRegistration, Typed
  <2> HIDE DEF changed, new
  <2>4. CallOf(c, DOMAIN tokens, expired)
    BY <2>1, <2>2 DEF CallOf
  <2> QED BY <2>3, <2>4, QuietTyped
<1>2. CASE CommitRegistration(r)
  <2> DEFINE a == call[r].agent
  <2>1. /\ a \in Agents /\ a \in Locks /\ call[r].token \in DOMAIN tokens
        /\ CountColumns(call[r].changed)
    BY <1>2, CallFields DEF CommitRegistration, Doing
  <2>2. /\ tokens' = tokens /\ expired' = expired /\ lapses' = lapses /\ overlapped' = overlapped
        /\ Go(r, NoCall) /\ lock' \in [Locks -> Requests \cup {Nobody}]
    BY <1>2, <2>1, LockTyped DEF CommitRegistration, Return
  <2>3. Written(registration[a], call[r].changed) \in Registration
    BY <2>1, WrittenRow DEF CountColumns, Typed
  <2>4. registration' \in [Agents -> Registration]
    BY <1>2, <2>3 DEF CommitRegistration, Typed
  <2>5. served' \in [Agents -> Seq(DOMAIN tokens)]
    <3>1. served[a] \in Seq(DOMAIN tokens) /\ served \in [Agents -> Seq(DOMAIN tokens)]
      BY <2>1 DEF Typed
    <3>2. Append(served[a], call[r].token) \in Seq(DOMAIN tokens)
      BY <2>1, <3>1
    <3> QED BY <1>2, <3>1, <3>2 DEF CommitRegistration
  <2>6. /\ call' = [q \in Requests |-> call'[q]]
        /\ \A q \in Requests : CallOf(call'[q], DOMAIN tokens', expired')
    BY <2>2, CallsStep, NoCallOf
  <2> QED BY <2>2, <2>4, <2>5, <2>6 DEF Typed
<1> QED BY <1>1, <1>2

\* Every step keeps the types.
LEMMA TypedStep == Typed /\ [Next]_vars => Typed'
<1> SUFFICES ASSUME Typed, [Next]_vars PROVE Typed'
  OBVIOUS
<1>1. ASSUME NEW t \in DOMAIN tokens, Expire(t) PROVE Typed'
  <2>1. /\ expired' = expired \cup {t} /\ tokens' = tokens /\ call' = call
        /\ registration' = registration /\ served' = served /\ lock' = lock
        /\ lapses' = lapses /\ overlapped' = overlapped
    BY <1>1 DEF Expire
  <2>2. \A q \in Requests : CallOf(call[q], DOMAIN tokens, expired)
    BY DEF Typed
  <2>3. expired \subseteq expired'
    BY <2>1
  <2>4. \A q \in Requests : CallOf(call[q], DOMAIN tokens, expired')
    BY <2>2, <2>3, CallStays
  <2> QED BY <2>1, <2>4 DEF Typed
<1>2. ASSUME NEW l \in Locks, Lapse(l) PROVE Typed'
  <2>1. /\ expired' = expired /\ tokens' = tokens /\ call' = call
        /\ registration' = registration /\ served' = served
        /\ overlapped' = overlapped
    BY <1>2 DEF Lapse, dataVars
  <2>2. lapses' \in Nat /\ lock' \in [Locks -> Requests \cup {Nobody}]
    BY <1>2 DEF Lapse, Typed
  <2> QED BY <2>1, <2>2 DEF Typed
<1>3. ASSUME NEW r \in Requests, Fail(r) PROVE Typed'
  <2>1. /\ Go(r, NoCall) /\ UNCHANGED dataVars /\ lapses' = lapses /\ overlapped' \in BOOLEAN
        /\ lock' \in [Locks -> Requests \cup {Nobody}]
    BY <1>3 DEF Fail, Return, Typed
  <2> QED BY <2>1, NoCallOf, QuietTyped
<1>4. CASE UNCHANGED vars
  BY <1>4 DEF Typed, vars
<1> QED BY <1>1, <1>2, <1>3, <1>4, BeginTyped, RevokeTyped, CreateTyped, CountTyped DEF Next

-----------------------------------------------------------------------------
(***************************************************************************)
(* The request counts.                                                     *)
(***************************************************************************)
\* Unless a lock lapsed: a request that will commit a count holds the agent's
\* lock, and nobody has changed the count that it read.
Counts ==
  lapses = 0 =>
    /\ \A a \in Agents : registration[a].count = Len(served[a])
    /\ \A r \in Requests : Doing(r, "count") =>
         /\ lock[call[r].agent] = r
         /\ call[r].changed["count"] = registration[call[r].agent].count + 1
         /\ call[r].new <=> registration[call[r].agent].count = 0

\* A step that does not touch counts, and takes no lock from who has one
LEMMA CountsStay ==
  ASSUME Typed, Counts, NEW r \in Requests, NEW c, Go(r, c), c.op # "count",
         DOMAIN tokens \subseteq DOMAIN tokens', expired \subseteq expired',
         \A a \in Agents : registration'[a].count = registration[a].count,
         served' = served, lapses' = lapses,
         \A l \in Locks : lock[l] \in Requests \ {r} => lock'[l] = lock[l]
  PROVE  Counts'
<1>1. call'[r] = c /\ \A q \in Requests \ {r} : call'[q] = call[q]
  BY DEF Typed, Go
<1>2. SUFFICES ASSUME lapses = 0, NEW q \in Requests, Doing(q, "count")'
               PROVE  /\ lock'[call'[q].agent] = q
                      /\ call'[q].changed["count"] = registration'[call'[q].agent].count + 1
                      /\ call'[q].new <=> registration'[call'[q].agent].count = 0
  BY DEF Counts
<1>3. q # r /\ call'[q] = call[q] /\ Doing(q, "count")
  BY <1>1, <1>2 DEF Doing
<1>4. call[q].agent \in Agents /\ call[q].agent \in Locks
  BY <1>3, CallFields DEF Doing
<1>5. lock[call[q].agent] = q
  BY <1>2, <1>3 DEF Counts
<1> QED BY <1>2, <1>3, <1>4, <1>5 DEF Counts

\* The lock makes the read and the commit of a count one.
LEMMA CountsCommit ==
  ASSUME Typed, Counts, NEW r \in Requests, LoadRegistration(r) \/ CommitRegistration(r)
  PROVE  Counts'
<1> DEFINE a == call[r].agent
<1>1. a \in Agents /\ a \in Locks /\ call[r].token \in DOMAIN tokens
  BY CallFields DEF LoadRegistration, CommitRegistration, Doing
<1>2. CASE LoadRegistration(r)
  <2> DEFINE changed == Changed(registration[a], Counted(a, call[r].token))
             new == registration[a].count = 0
             c == [op |-> "count", agent |-> a, token |-> call[r].token,
                   new |-> new, changed |-> changed]
  <2>1. /\ Go(r, c) /\ registration' = registration /\ served' = served /\ lapses' = lapses
        /\ Acquire(r, a)
    BY <1>2 DEF LoadRegistration, dataVars
  <2>2. changed["count"] = registration[a].count + 1
    BY <1>1, CountedColumns
  <2>3. lock'[a] = r /\ lock[a] = Nobody /\ \A k \in Locks \ {a} : lock'[k] = lock[k]
    BY <1>1, <2>1, LockTyped
  <2>4. call'[r] = c /\ \A q \in Requests \ {r} : call'[q] = call[q]
    BY <2>1 DEF Go, Typed
  <2>5. SUFFICES ASSUME lapses = 0, NEW q \in Requests, Doing(q, "count")'
                 PROVE  /\ lock'[call'[q].agent] = q
                        /\ call'[q].changed["count"] = registration'[call'[q].agent].count + 1
                        /\ call'[q].new <=> registration'[call'[q].agent].count = 0
    BY <2>1 DEF Counts
  <2>6. CASE q = r
    <3>1. /\ call'[r].agent = a /\ call'[r].changed = changed
          /\ call'[r].new = new
      BY <2>4
    <3> QED BY <2>1, <2>2, <2>3, <2>6, <3>1
  <2>7. CASE q # r
    <3>1. call'[q] = call[q] /\ Doing(q, "count")
      BY <2>4, <2>5, <2>7 DEF Doing
    <3>2. call[q].agent \in Locks /\ lock[call[q].agent] = q
      BY <2>5, <3>1, CallFields DEF Counts, Doing
    <3>3. call[q].agent # a
      BY <2>3, <3>2, AccessConstants
    <3> QED BY <2>1, <2>3, <2>5, <3>1, <3>2, <3>3 DEF Counts
  <2> QED BY <2>6, <2>7
<1>3. CASE CommitRegistration(r)
  <2>1. /\ Doing(r, "count") /\ Go(r, NoCall) /\ Release(r, a) /\ lapses' = lapses
        /\ CountColumns(call[r].changed)
    BY <1>3, CallFields DEF CommitRegistration, Return
  <2>2. SUFFICES ASSUME lapses = 0 PROVE Counts'
    BY <2>1 DEF Counts
  <2>3. /\ lock[a] = r /\ call[r].changed["count"] = registration[a].count + 1
        /\ call[r].new <=> registration[a].count = 0
    BY <2>1, <2>2 DEF Counts
  <2>4. registration[a] \in Registration /\ registration[a].count \in Nat
    BY <1>1 DEF Typed, Registration
  <2>5. /\ registration' = [registration EXCEPT ![a] = Written(@, call[r].changed)]
        /\ served' = [served EXCEPT ![a] = Append(@, call[r].token)]
    BY <1>3, <2>3, <2>4 DEF CommitRegistration
  <2>6. Written(registration[a], call[r].changed).count = registration[a].count + 1
    BY <2>1, <2>3, <2>4, WrittenRow DEF CountColumns
  <2>7. /\ registration'[a].count = registration[a].count + 1
        /\ \A b \in Agents \ {a} : registration'[b] = registration[b]
    BY <1>1, <2>5, <2>6 DEF Typed
  <2>8. /\ Len(served'[a]) = Len(served[a]) + 1
        /\ \A b \in Agents \ {a} : served'[b] = served[b]
    <3>1. served[a] \in Seq(DOMAIN tokens) /\ served \in [Agents -> Seq(DOMAIN tokens)]
      BY <1>1 DEF Typed
    <3>2. Len(Append(served[a], call[r].token)) = Len(served[a]) + 1
      BY <1>1, <3>1
    <3> QED BY <1>1, <2>5, <3>1, <3>2
  <2>9. \A b \in Agents : registration'[b].count = Len(served'[b])
    BY <1>1, <2>2, <2>7, <2>8 DEF Counts
  <2>10. call'[r] = NoCall /\ \A q \in Requests \ {r} : call'[q] = call[q]
    BY <2>1 DEF Go, Typed
  <2>11. ASSUME NEW q \in Requests, Doing(q, "count")'
         PROVE  /\ lock'[call'[q].agent] = q
                /\ call'[q].changed["count"] = registration'[call'[q].agent].count + 1
                /\ call'[q].new <=> registration'[call'[q].agent].count = 0
    <3>1. q # r /\ call'[q] = call[q] /\ Doing(q, "count")
      BY <2>10, <2>11 DEF Doing, NoCall
    <3>2. call[q].agent \in Locks /\ call[q].agent \in Agents /\ lock[call[q].agent] = q
      BY <2>2, <3>1, CallFields DEF Counts, Doing
    <3>3. call[q].agent # a
      BY <2>3, <3>1, <3>2
    <3>4. lock'[call[q].agent] = q
      BY <1>1, <2>1, <3>2, <3>3, LockTyped
    <3> QED BY <2>2, <2>7, <3>1, <3>2, <3>3, <3>4 DEF Counts
  <2> QED BY <2>9, <2>11 DEF Counts
<1> QED BY <1>2, <1>3

\* No other step of any request or clock disturbs a count under way.
LEMMA CountsStep == Typed /\ Counts /\ [Next]_vars => Counts'
<1> SUFFICES ASSUME Typed, Counts, [Next]_vars PROVE Counts'
  OBVIOUS
<1> DEFINE Untouched(r) ==
      /\ DOMAIN tokens \subseteq DOMAIN tokens' /\ expired \subseteq expired'
      /\ \A a \in Agents : registration'[a].count = registration[a].count
      /\ served' = served /\ lapses' = lapses
      /\ \A l \in Locks : lock[l] \in Requests \ {r} => lock'[l] = lock[l]
<1>1. ASSUME NEW r \in Requests,
             \/ \E n \in Names : StartCreate(r, n)
             \/ \E t \in DOMAIN tokens : StartRevoke(r, t) \/ \E a \in Agents : StartRequest(r, t, a)
             \/ ListTokens(r)
      PROVE  Counts'
  <2>1. Untouched(r)
    BY <1>1, BeginsWith DEF dataVars
  <2>2. PICK c : Begin(r, c) /\ c.op \in {"create", "unlink", "wait"}
    BY <1>1, BeginsWith
  <2>3. Go(r, c) /\ c.op # "count"
    BY <2>2 DEF Begin
  <2> QED BY <2>1, <2>3, CountsStay
<1>2. ASSUME NEW r \in Requests, LoadLinks(r) PROVE Counts'
  <2>1. Untouched(r) /\ \E c : Go(r, c) /\ c.op # "count"
    BY <1>2 DEF LoadLinks, dataVars
  <2> QED BY <2>1, CountsStay
<1>3. ASSUME NEW r \in Requests, CommitRevoke(r) PROVE Counts'
  <2>1. /\ DOMAIN tokens' = DOMAIN tokens
        /\ \A a \in Agents : registration'[a].count = registration[a].count
    BY <1>3, CallFields, RevokedRows DEF CommitRevoke
  <2>2. Go(r, NoCall) /\ NoCall.op # "count"
    BY <1>3 DEF CommitRevoke, Return, NoCall
  <2>3. Untouched(r)
    BY <1>3, <2>1 DEF CommitRevoke
  <2> QED BY <2>2, <2>3, CountsStay
<1>4. ASSUME NEW r \in Requests, EnterCreate(r) PROVE Counts'
  <2>1. lock[ "keys"] = Nobody /\ lock' = [lock EXCEPT !["keys"] = r]
    BY <1>4 DEF EnterCreate, Acquire
  <2>2. Untouched(r) /\ \E c : Go(r, c) /\ c.op # "count"
    BY <1>4, <2>1, AccessConstants DEF EnterCreate, dataVars, Typed
  <2> QED BY <2>2, CountsStay
<1>5. ASSUME NEW r \in Requests, CommitSync(r) PROVE Counts'
  <2>1. /\ DOMAIN tokens' = DOMAIN tokens
        /\ \A a \in Agents : registration'[a].count = registration[a].count
    BY <1>5, CallFields, RevokedRows DEF CommitSync
  <2>2. call[r].create \in CreateCall(expired)
    BY <1>5, CallFields DEF CommitSync
  <2>3. [call[r].create EXCEPT !.op = "check"].op # "count"
    BY <2>2 DEF CreateCall
  <2>4. Untouched(r) /\ \E c : Go(r, c) /\ c.op # "count"
    BY <1>5, <2>1, <2>3 DEF CommitSync
  <2> QED BY <2>4, CountsStay
<1>6. ASSUME NEW r \in Requests, CheckCreate(r) PROVE Counts'
  <2>1. call[r] \in CreateCall(expired)
    BY <1>6, CallFields DEF CheckCreate, Doing
  <2>2. [call[r] EXCEPT !.op = "insert"].op # "count"
    BY <2>1 DEF CreateCall
  <2>3. \E c : Go(r, c) /\ c.op # "count"
    BY <1>6, <2>2 DEF CheckCreate, Return, NoCall
  <2>4. \A l \in Locks : lock[l] \in Requests \ {r} => lock'[l] = lock[l]
    BY <1>6 DEF CheckCreate, Release, Typed
  <2>5. Untouched(r)
    BY <1>6, <2>4 DEF CheckCreate, dataVars
  <2> QED BY <2>3, <2>5, CountsStay
<1>7. ASSUME NEW r \in Requests, InsertKey(r) PROVE Counts'
  <2>1. Go(r, NoCall) /\ NoCall.op # "count"
    BY <1>7 DEF InsertKey, Return, NoCall
  <2>2. \A l \in Locks : lock[l] \in Requests \ {r} => lock'[l] = lock[l]
    BY <1>7 DEF InsertKey, Release, Typed
  <2>3. DOMAIN tokens \subseteq DOMAIN tokens'
    <3> DEFINE key == [name |-> call[r].name, revoked |-> FALSE]
    <3>1. tokens' = Append(tokens, key) /\ tokens \in Seq(Token)
      BY <1>7 DEF InsertKey, Typed
    <3> HIDE DEF key
    <3> QED BY <3>1
  <2>4. Untouched(r)
    BY <1>7, <2>2, <2>3 DEF InsertKey
  <2> QED BY <2>1, <2>4, CountsStay
<1>8. ASSUME NEW r \in Requests, LoadRegistration(r) \/ CommitRegistration(r) PROVE Counts'
  BY <1>8, CountsCommit
<1>9. ASSUME NEW r \in Requests, Fail(r) PROVE Counts'
  <2>1. Go(r, NoCall) /\ NoCall.op # "count"
    BY <1>9 DEF Fail, Return, NoCall
  <2>2. Untouched(r)
    BY <1>9 DEF Fail, dataVars
  <2> QED BY <2>1, <2>2, CountsStay
<1>10. ASSUME NEW l \in Locks, Lapse(l) PROVE Counts'
  BY <1>10 DEF Lapse, Typed, Counts
<1>11. CASE UNCHANGED vars \/ \E t \in DOMAIN tokens : Expire(t)
  BY <1>11 DEF Counts, Expire, vars, Doing
<1> QED BY <1>1, <1>2, <1>3, <1>4, <1>5, <1>6, <1>7, <1>8, <1>9, <1>10, <1>11 DEF Next

-----------------------------------------------------------------------------
(***************************************************************************)
(* The limits.                                                             *)
(***************************************************************************)
Usable == Active(expired)
Creating == {r \in Requests : call[r].op \in {"sync", "check", "insert"}}
Inserting == {r \in Requests : Doing(r, "insert")}

\* Of the creations under way one holds the lock and each other one lost it
\* when it lapsed; whoever is about to insert has counted as if it were alone.
Limited ==
  /\ IsFiniteSet(Creating)
  /\ lock["keys"] # Nobody => lock["keys"] \in Creating
  /\ Cardinality(Creating \ {lock["keys"]}) <= lapses
  /\ Cardinality(Usable) + Cardinality(Inserting) <= MaxActive + lapses
  /\ Len(tokens) + Cardinality(Inserting) <= MaxDaily + lapses

\* Unless a lock lapsed, no two usable keys have, or will have, one name.
NamesDiffer ==
  lapses = 0 =>
    /\ \A s, t \in Usable : tokens[s].name = tokens[t].name => s = t
    /\ \A r \in Inserting : call[r].name \notin NamesOf(Usable)

\* The usable keys are finitely many.
LEMMA UsableFinite ==
  ASSUME Typed, NEW dead
  PROVE  IsFiniteSet(Active(dead)) /\ Cardinality(Active(dead)) \in Nat
<1>1. Active(dead) \subseteq 1 .. Len(tokens) /\ Len(tokens) \in Nat
  BY DEF Active, Typed
<1>2. IsFiniteSet(1 .. Len(tokens))
  BY <1>1, FS_Interval
<1> QED BY <1>1, <1>2, FS_Subset, FS_CardinalityType

\* The creations that are about to insert are finitely many as well, and at
\* most as many as there are creations under way.
LEMMA InsertingFinite ==
  ASSUME Limited
  PROVE  /\ IsFiniteSet(Inserting) /\ Cardinality(Inserting) \in Nat
         /\ Cardinality(Creating) \in Nat /\ Cardinality(Inserting) <= Cardinality(Creating)
<1>1. Inserting \subseteq Creating /\ IsFiniteSet(Creating)
  BY DEF Limited, Inserting, Creating, Doing
<1> QED BY <1>1, FS_Subset, FS_CardinalityType

\* What the limits need of a step that neither inserts nor allows to: the keys
\* and the usable ones are no more, nobody else is about to insert, and the
\* lock and the lapses account for who creates.
LEMMA LimitedStay ==
  ASSUME Typed, Typed', Limited,
         Len(tokens') = Len(tokens), Usable' \subseteq Usable, Inserting' \subseteq Inserting,
         lapses' = lapses, IsFiniteSet(Creating'),
         lock'["keys"] # Nobody => lock'["keys"] \in Creating',
         Creating' \ {lock'["keys"]} \subseteq Creating \ {lock["keys"]}
  PROVE  Limited'
<1>1. /\ IsFiniteSet(Usable) /\ Cardinality(Usable) \in Nat /\ IsFiniteSet(Inserting)
      /\ IsFiniteSet(Creating \ {lock["keys"]})
  BY UsableFinite, InsertingFinite, FS_Difference DEF Usable, Limited
<1>2. /\ Cardinality(Usable') <= Cardinality(Usable) /\ Cardinality(Usable') \in Nat
      /\ Cardinality(Inserting') <= Cardinality(Inserting) /\ Cardinality(Inserting') \in Nat
      /\ Cardinality(Inserting) \in Nat
      /\ Cardinality(Creating' \ {lock'["keys"]}) <= Cardinality(Creating \ {lock["keys"]})
      /\ Cardinality(Creating' \ {lock'["keys"]}) \in Nat
      /\ Cardinality(Creating \ {lock["keys"]}) \in Nat
  BY <1>1, FS_Subset, FS_CardinalityType
<1>3. lapses \in Nat /\ MaxActive \in Nat /\ MaxDaily \in Nat /\ Len(tokens) \in Nat
  BY AccessConstants DEF Typed
<1>4. /\ Cardinality(Usable') + Cardinality(Inserting') <= MaxActive + lapses'
      /\ Len(tokens') + Cardinality(Inserting') <= MaxDaily + lapses'
      /\ Cardinality(Creating' \ {lock'["keys"]}) <= lapses'
  <2>1. /\ Cardinality(Usable) + Cardinality(Inserting) <= MaxActive + lapses
        /\ Len(tokens) + Cardinality(Inserting) <= MaxDaily + lapses
        /\ Cardinality(Creating \ {lock["keys"]}) <= lapses
    BY DEF Limited
  <2>2. Cardinality(Creating' \ {lock'["keys"]}) <= lapses'
    BY <1>2, <1>3, <2>1
  <2>3. Cardinality(Usable') + Cardinality(Inserting') <= MaxActive + lapses'
    BY <1>1, <1>2, <1>3, <2>1
  <2>4. Len(tokens') + Cardinality(Inserting') <= MaxDaily + lapses'
    BY <1>2, <1>3, <2>1
  <2> QED BY <2>2, <2>3, <2>4
<1> QED BY <1>4 DEF Limited

\* Who creates, and who is about to insert, after request r goes on with c
LEMMA CreatingStep ==
  ASSUME Typed, NEW r \in Requests, NEW c, Go(r, c), Limited
  PROVE  /\ Creating' = IF c.op \in {"sync", "check", "insert"} THEN Creating \cup {r}
                                                              ELSE Creating \ {r}
         /\ Inserting' = IF c.op = "insert" THEN Inserting \cup {r} ELSE Inserting \ {r}
         /\ IsFiniteSet(Creating')
<1>1. call'[r] = c /\ \A q \in Requests \ {r} : call'[q] = call[q]
  BY DEF Typed, Go
<1>2. Creating' = IF c.op \in {"sync", "check", "insert"} THEN Creating \cup {r}
                                                          ELSE Creating \ {r}
  <2> DEFINE creates(d) == d.op \in {"sync", "check", "insert"}
  <2>1. Creating' = {q \in Requests : creates(call'[q])} /\ Creating = {q \in Requests : creates(call[q])}
    BY DEF Creating
  <2> HIDE DEF creates
  <2>2. Creating' = IF creates(c) THEN Creating \cup {r} ELSE Creating \ {r}
    BY <1>1, <2>1
  <2> QED BY <2>2 DEF creates
<1>3. Inserting' = IF c.op = "insert" THEN Inserting \cup {r} ELSE Inserting \ {r}
  <2> DEFINE inserts(d) == d.op = "insert"
  <2>1. Inserting' = {q \in Requests : inserts(call'[q])} /\ Inserting = {q \in Requests : inserts(call[q])}
    BY DEF Inserting, Doing
  <2> HIDE DEF inserts
  <2>2. Inserting' = IF inserts(c) THEN Inserting \cup {r} ELSE Inserting \ {r}
    BY <1>1, <2>1
  <2> QED BY <2>2 DEF inserts
<1>4. IsFiniteSet(Creating \cup {r}) /\ IsFiniteSet(Creating \ {r})
  BY FS_AddElement, FS_RemoveElement DEF Limited
<1> QED BY <1>2, <1>3, <1>4

\* The step of a request that is no part of a creation
LEMMA OutsideLimited ==
  ASSUME Typed, Typed', Limited, NEW r \in Requests, r \notin Creating, NEW c, Go(r, c),
         c.op \notin {"sync", "check", "insert"}, lapses' = lapses, lock'["keys"] = lock["keys"],
         Len(tokens') = Len(tokens), Usable' \subseteq Usable
  PROVE  Limited'
<1>1. Creating' = Creating \ {r} /\ Inserting' = Inserting \ {r} /\ IsFiniteSet(Creating')
  BY CreatingStep
<1>2. Creating' = Creating /\ Inserting' \subseteq Inserting
  BY <1>1
<1> QED BY <1>1, <1>2, LimitedStay DEF Limited

\* A creation ends without a key, or a revocation or a request does: the lock,
\* if it is still held, is given back.
LEMMA EndLimited ==
  ASSUME Typed, Typed', Limited, NEW r \in Requests, Return(r), lapses' = lapses,
         lock'["keys"] = IF lock["keys"] = r THEN Nobody ELSE lock["keys"],
         Len(tokens') = Len(tokens), Usable' \subseteq Usable
  PROVE  Limited'
<1>1. Go(r, NoCall) /\ NoCall.op \notin {"sync", "check", "insert"}
  BY DEF Return, NoCall
<1>2. Creating' = Creating \ {r} /\ Inserting' = Inserting \ {r} /\ IsFiniteSet(Creating')
  BY <1>1, CreatingStep
<1>3. Inserting' \subseteq Inserting
  BY <1>2
<1>4. lock'["keys"] # Nobody => lock'["keys"] \in Creating'
  BY <1>2 DEF Limited
<1>5. Creating' \ {lock'["keys"]} \subseteq Creating \ {lock["keys"]}
  BY <1>2
<1> QED BY <1>2, <1>3, <1>4, <1>5, LimitedStay

\* A key stays usable only if it was and keeps its name when keys are revoked.
LEMMA RevokedUsable ==
  ASSUME Typed, NEW r, NEW ts, NEW changed, LinkColumns(changed), CommitRevoked(r, ts, changed),
         expired' = expired
  PROVE  /\ Usable' \subseteq Usable /\ Active({})' = Active({}) \ ts
         /\ Len(tokens') = Len(tokens)
         /\ \A t \in DOMAIN tokens : tokens'[t].name = tokens[t].name
<1>1. /\ Len(tokens') = Len(tokens) /\ DOMAIN tokens' = DOMAIN tokens
      /\ \A t \in DOMAIN tokens : /\ tokens'[t].name = tokens[t].name
                                  /\ tokens'[t].revoked = (tokens[t].revoked \/ t \in ts)
  BY RevokedRows
<1>2. \A t \in DOMAIN tokens : ~tokens'[t].revoked <=> ~tokens[t].revoked /\ t \notin ts
  BY <1>1
<1> HIDE <1>1
<1>3. DOMAIN tokens' = DOMAIN tokens
  BY <1>1
<1>4. Usable' \subseteq Usable /\ Active({})' = Active({}) \ ts
  BY <1>2, <1>3 DEF Usable, Active
<1> QED BY <1>1, <1>4

\* A creation that found room has room, whoever else is about to insert.
LEMMA CheckLimited ==
  ASSUME Typed, Typed', Limited, NEW r \in Requests, CheckCreate(r)
  PROVE  Limited'
<1>1. /\ Doing(r, "check") /\ tokens' = tokens /\ expired' = expired /\ lapses' = lapses
      /\ r \in Creating
  BY DEF CheckCreate, dataVars, Creating, Doing
<1>2. Usable' = Usable
  BY <1>1 DEF Usable, Active
<1>3. CASE Return(r) /\ Release(r, "keys")
  <2>1. lock'["keys"] = IF lock["keys"] = r THEN Nobody ELSE lock["keys"]
    BY <1>3, LockTyped DEF Locks
  <2> QED BY <1>1, <1>2, <1>3, <2>1, EndLimited
<1>4. CASE ~(Return(r) /\ Release(r, "keys"))
  <2> DEFINE c == [call[r] EXCEPT !.op = "insert"]
             active == Active(call[r].dead)
  <2>1. /\ Go(r, c) /\ lock' = lock
        /\ Cardinality(active) < MaxActive /\ Len(tokens) < MaxDaily
    BY <1>4 DEF CheckCreate
  <2>2. call[r] \in CreateCall(expired) /\ call[r].dead \subseteq expired
    BY <1>1, CallFields DEF Doing
  <2>3. c.op = "insert"
    BY <2>2 DEF CreateCall
  <2> HIDE DEF c
  <2>4. Creating' = Creating /\ Inserting' = Inserting \cup {r}
    BY <1>1, <2>1, <2>3, CreatingStep
  <2>5. Usable \subseteq active
    BY <2>2 DEF Usable, Active
  <2>6. /\ Cardinality(Usable) <= Cardinality(active)
        /\ Cardinality(Usable) \in Nat /\ Cardinality(active) \in Nat
    BY <2>5, UsableFinite, FS_Subset DEF Usable
  <2>7. Cardinality(Inserting') <= Cardinality(Creating) /\ Cardinality(Inserting') \in Nat
    <3>1. Inserting' \subseteq Creating /\ IsFiniteSet(Creating)
      BY <1>1, <2>4 DEF Limited, Inserting, Creating, Doing
    <3> QED BY <3>1, FS_Subset, FS_CardinalityType
  <2>8. /\ Cardinality(Creating) <= Cardinality(Creating \ {lock["keys"]}) + 1
        /\ Cardinality(Creating \ {lock["keys"]}) \in Nat /\ Cardinality(Creating) \in Nat
    <3> DEFINE h == lock["keys"]
    <3> HIDE DEF h
    <3>1. IsFiniteSet(Creating) /\ IsFiniteSet(Creating \ {h})
      BY FS_Difference DEF Limited
    <3>2. Cardinality(Creating) \in Nat /\ Cardinality(Creating \ {h}) \in Nat
      BY <3>1, FS_CardinalityType
    <3>3. Cardinality(Creating \ {h}) = IF h \in Creating THEN Cardinality(Creating) - 1
                                                         ELSE Cardinality(Creating)
      BY <3>1, FS_RemoveElement
    <3>4. Cardinality(Creating) <= Cardinality(Creating \ {h}) + 1
      BY <3>2, <3>3
    <3> QED BY <3>2, <3>4 DEF h
  <2>9. /\ lapses \in Nat /\ MaxActive \in Nat /\ MaxDaily \in Nat /\ Len(tokens) \in Nat
        /\ Cardinality(Creating \ {lock["keys"]}) <= lapses
    BY AccessConstants DEF Typed, Limited
  <2>10. Cardinality(Inserting') <= lapses + 1
    BY <2>7, <2>8, <2>9
  <2>11. /\ Cardinality(Usable) + Cardinality(Inserting') <= MaxActive + lapses
         /\ Len(tokens) + Cardinality(Inserting') <= MaxDaily + lapses
    BY <2>1, <2>6, <2>7, <2>9, <2>10
  <2>12. /\ Cardinality(Usable') + Cardinality(Inserting') <= MaxActive + lapses'
         /\ Len(tokens') + Cardinality(Inserting') <= MaxDaily + lapses'
    BY <1>1, <1>2, <2>11
  <2> QED BY <1>1, <2>1, <2>4, <2>12 DEF Limited
<1> QED BY <1>3, <1>4

\* The key that is inserted takes the place that its creation was counted for.
LEMMA InsertLimited ==
  ASSUME Typed, Typed', Limited, NEW r \in Requests, InsertKey(r)
  PROVE  Limited' /\ Usable' = Usable \cup {Len(tokens) + 1}
<1> DEFINE key == [name |-> call[r].name, revoked |-> FALSE]
<1>1. /\ tokens' = Append(tokens, key) /\ expired' = expired /\ lapses' = lapses
      /\ Go(r, NoCall) /\ Release(r, "keys") /\ Doing(r, "insert")
  BY DEF InsertKey, Return
<1>2. tokens \in Seq(Token) /\ expired \subseteq DOMAIN tokens /\ Len(tokens) \in Nat
  BY DEF Typed
<1>3. key.revoked = FALSE
  OBVIOUS
<1>4. /\ DOMAIN tokens' = DOMAIN tokens \cup {Len(tokens) + 1} /\ Len(tokens') = Len(tokens) + 1
      /\ tokens'[Len(tokens) + 1] = key /\ \A t \in DOMAIN tokens : tokens'[t] = tokens[t]
      /\ Len(tokens) + 1 \notin DOMAIN tokens
  <2> HIDE DEF key
  <2> QED BY <1>1, <1>2
<1>5. Usable' = Usable \cup {Len(tokens) + 1}
  BY <1>1, <1>2, <1>3, <1>4 DEF Usable, Active
<1>6. Len(tokens) + 1 \notin Usable
  BY <1>4 DEF Usable, Active
<1>7. Cardinality(Usable') = Cardinality(Usable) + 1 /\ Cardinality(Usable) \in Nat
  BY <1>5, <1>6, UsableFinite, FS_AddElement DEF Usable
<1>8. Creating' = Creating \ {r} /\ Inserting' = Inserting \ {r} /\ IsFiniteSet(Creating')
  BY <1>1, CreatingStep DEF NoCall
<1>9. Cardinality(Inserting') = Cardinality(Inserting) - 1 /\ Cardinality(Inserting) \in Nat
  <2>1. r \in Inserting /\ IsFiniteSet(Inserting)
    BY <1>1, InsertingFinite DEF Inserting
  <2> QED BY <1>8, <2>1, FS_RemoveElement, InsertingFinite
<1>10. lock'["keys"] = IF lock["keys"] = r THEN Nobody ELSE lock["keys"]
  BY <1>1, LockTyped DEF Locks
<1>11. lock'["keys"] # Nobody => lock'["keys"] \in Creating'
  BY <1>8, <1>10 DEF Limited
<1>12. Cardinality(Creating' \ {lock'["keys"]}) <= lapses'
  <2>1. Creating' \ {lock'["keys"]} \subseteq Creating \ {lock["keys"]}
    BY <1>8, <1>10
  <2>2. IsFiniteSet(Creating \ {lock["keys"]}) /\ Cardinality(Creating \ {lock["keys"]}) <= lapses
    BY FS_Difference DEF Limited
  <2>3. Cardinality(Creating' \ {lock'["keys"]}) <= Cardinality(Creating \ {lock["keys"]})
    BY <2>1, <2>2, FS_Subset
  <2>4. /\ Cardinality(Creating' \ {lock'["keys"]}) \in Nat
        /\ Cardinality(Creating \ {lock["keys"]}) \in Nat /\ lapses \in Nat
    BY <2>1, <2>2, FS_Subset, FS_CardinalityType DEF Typed
  <2> QED BY <1>1, <2>2, <2>3, <2>4
<1>13. /\ Cardinality(Usable') + Cardinality(Inserting') <= MaxActive + lapses'
       /\ Len(tokens') + Cardinality(Inserting') <= MaxDaily + lapses'
  <2>1. /\ Cardinality(Usable) + Cardinality(Inserting) <= MaxActive + lapses
        /\ Len(tokens) + Cardinality(Inserting) <= MaxDaily + lapses
        /\ lapses \in Nat /\ MaxActive \in Nat /\ MaxDaily \in Nat
    BY AccessConstants DEF Limited, Typed
  <2> QED BY <1>1, <1>2, <1>4, <1>7, <1>9, <2>1
<1> QED BY <1>5, <1>8, <1>11, <1>12, <1>13 DEF Limited

\* Who does not create leaves the lock on keys alone.
LEMMA OtherLock ==
  ASSUME Typed, NEW r \in Requests, LoadRegistration(r) \/ CommitRegistration(r)
  PROVE  lock'["keys"] = lock["keys"]
<1>1. call[r].agent \in Agents /\ call[r].agent \in Locks /\ call[r].agent # "keys"
  BY CallFields, AccessConstants DEF LoadRegistration, CommitRegistration, Doing
<1> QED BY <1>1, LockTyped DEF LoadRegistration, CommitRegistration, Locks

\* A lapse takes the lock of one creation and is counted.
LEMMA LapseLimited ==
  ASSUME Typed, Limited, NEW l \in Locks, Lapse(l)
  PROVE  Limited'
<1>1. /\ tokens' = tokens /\ expired' = expired /\ call' = call /\ lapses' = lapses + 1
      /\ lock' = [lock EXCEPT ![l] = Nobody]
  BY DEF Lapse, dataVars
<1>2. Usable' = Usable /\ Creating' = Creating /\ Inserting' = Inserting
  BY <1>1 DEF Usable, Active, Creating, Inserting, Doing
<1>3. /\ IsFiniteSet(Creating) /\ lapses \in Nat /\ MaxActive \in Nat /\ MaxDaily \in Nat
      /\ Len(tokens) \in Nat /\ Cardinality(Usable) \in Nat /\ Cardinality(Inserting) \in Nat
  BY AccessConstants, UsableFinite, InsertingFinite DEF Typed, Limited, Usable
<1>4. lock'["keys"] \in {lock["keys"], Nobody}
  BY <1>1 DEF Typed, Locks
<1>5. Cardinality(Creating \ {lock'["keys"]}) <= lapses + 1
  <2> DEFINE h == lock["keys"]  g == lock'["keys"]
  <2>1. Cardinality(Creating \ {h}) <= lapses
    BY DEF Limited
  <2>2. g \in {h, Nobody}
    BY <1>4
  <2> HIDE DEF g, h
  <2>3. /\ Cardinality(Creating \ {h}) = IF h \in Creating THEN Cardinality(Creating) - 1
                                                           ELSE Cardinality(Creating)
        /\ Cardinality(Creating \ {g}) = IF g \in Creating THEN Cardinality(Creating) - 1
                                                           ELSE Cardinality(Creating)
        /\ Cardinality(Creating) \in Nat
    BY <1>3, FS_RemoveElement, FS_CardinalityType
  <2>4. Cardinality(Creating \ {g}) <= lapses + 1
    BY <1>3, <2>1, <2>2, <2>3
  <2> QED BY <2>4 DEF g
<1>6. lock'["keys"] # Nobody => lock'["keys"] \in Creating
  BY <1>4 DEF Limited
<1>7. /\ Cardinality(Usable) + Cardinality(Inserting) <= MaxActive + (lapses + 1)
      /\ Len(tokens) + Cardinality(Inserting) <= MaxDaily + (lapses + 1)
  <2>1. /\ Cardinality(Usable) + Cardinality(Inserting) <= MaxActive + lapses
        /\ Len(tokens) + Cardinality(Inserting) <= MaxDaily + lapses
    BY DEF Limited
  <2> QED BY <1>3, <2>1
<1>8. /\ Cardinality(Usable') + Cardinality(Inserting') <= MaxActive + lapses'
      /\ Len(tokens') + Cardinality(Inserting') <= MaxDaily + lapses'
      /\ Cardinality(Creating' \ {lock'["keys"]}) <= lapses'
  BY <1>1, <1>2, <1>5, <1>7
<1> QED BY <1>2, <1>3, <1>6, <1>8 DEF Limited

\* Every step keeps the account of the limits.
LEMMA LimitedStep == Typed /\ Limited /\ [Next]_vars => Limited'
<1> SUFFICES ASSUME Typed, Limited, [Next]_vars PROVE Limited'
  OBVIOUS
<1>t. Typed'
  BY TypedStep
<1>1. ASSUME NEW r \in Requests,
             \/ \E n \in Names : StartCreate(r, n)
             \/ \E t \in DOMAIN tokens : StartRevoke(r, t) \/ \E a \in Agents : StartRequest(r, t, a)
             \/ ListTokens(r)
      PROVE  Limited'
  <2>1. lock' = lock /\ lapses' = lapses /\ tokens' = tokens /\ expired' = expired
    BY <1>1, BeginsWith DEF dataVars
  <2>2. PICK c : Begin(r, c) /\ c.op \in {"create", "unlink", "wait"}
    BY <1>1, BeginsWith
  <2>3. Go(r, c) /\ r \notin Creating /\ Usable' = Usable
    BY <2>1, <2>2 DEF Begin, Creating, NoCall, Usable, Active
  <2> QED BY <1>t, <2>1, <2>2, <2>3, OutsideLimited
<1>2. ASSUME NEW r \in Requests, LoadLinks(r) PROVE Limited'
  <2>1. /\ lock' = lock /\ lapses' = lapses /\ tokens' = tokens /\ expired' = expired
        /\ r \notin Creating /\ \E c : Go(r, c) /\ c.op = "revoke"
    BY <1>2 DEF LoadLinks, dataVars, Creating, Doing
  <2>2. Usable' = Usable
    BY <2>1 DEF Usable, Active
  <2> QED BY <1>t, <2>1, <2>2, OutsideLimited
<1>3. ASSUME NEW r \in Requests, CommitRevoke(r) PROVE Limited'
  <2>1. Usable' \subseteq Usable /\ Len(tokens') = Len(tokens)
    BY <1>3, CallFields, RevokedUsable DEF CommitRevoke
  <2>2. lock' = lock /\ lapses' = lapses /\ r \notin Creating /\ Go(r, NoCall)
    BY <1>3 DEF CommitRevoke, Creating, Doing, Return
  <2>3. NoCall.op \notin {"sync", "check", "insert"}
    BY DEF NoCall
  <2> QED BY <1>t, <2>1, <2>2, <2>3, OutsideLimited
<1>4. ASSUME NEW r \in Requests, EnterCreate(r) PROVE Limited'
  <2>1. /\ lapses' = lapses /\ tokens' = tokens /\ expired' = expired /\ r \notin Creating
        /\ lock["keys"] = Nobody /\ lock'["keys"] = r
    BY <1>4, LockTyped DEF EnterCreate, dataVars, Creating, Doing, Locks
  <2>2. PICK c : Go(r, c) /\ c.op = "sync"
    BY <1>4 DEF EnterCreate
  <2>3. Creating' = Creating \cup {r} /\ Inserting' = Inserting \ {r} /\ IsFiniteSet(Creating')
    BY <2>2, CreatingStep
  <2>4. Usable' = Usable
    BY <2>1 DEF Usable, Active
  <2>5. Nobody \notin Creating
    BY AccessConstants DEF Creating
  <2>6. Creating' \ {lock'["keys"]} \subseteq Creating \ {lock["keys"]}
    BY <2>1, <2>3, <2>5
  <2>7. lock'["keys"] \in Creating' /\ Inserting' \subseteq Inserting
    BY <2>1, <2>3
  <2> QED BY <1>t, <2>1, <2>3, <2>4, <2>6, <2>7, LimitedStay
<1>5. ASSUME NEW r \in Requests, CommitSync(r) PROVE Limited'
  <2>1. Usable' \subseteq Usable /\ Len(tokens') = Len(tokens)
    BY <1>5, CallFields, RevokedUsable DEF CommitSync
  <2> DEFINE c == [call[r].create EXCEPT !.op = "check"]
  <2>2. Go(r, c) /\ lock' = lock /\ lapses' = lapses /\ r \in Creating
    BY <1>5 DEF CommitSync, Creating, Doing
  <2>3. c.op = "check"
    BY <1>5, CallFields DEF CommitSync, CreateCall
  <2> HIDE DEF c
  <2>4. Creating' = Creating \cup {r} /\ Inserting' = Inserting \ {r} /\ IsFiniteSet(Creating')
    BY <2>2, <2>3, CreatingStep
  <2>5. Creating' = Creating /\ Inserting' \subseteq Inserting
    BY <2>2, <2>4
  <2> QED BY <1>t, <2>1, <2>2, <2>4, <2>5, LimitedStay DEF Limited
<1>6. ASSUME NEW r \in Requests, CheckCreate(r) PROVE Limited'
  BY <1>6, <1>t, CheckLimited
<1>7. ASSUME NEW r \in Requests, InsertKey(r) PROVE Limited'
  BY <1>7, <1>t, InsertLimited
<1>8. ASSUME NEW r \in Requests, LoadRegistration(r) \/ CommitRegistration(r) PROVE Limited'
  <2>1. lapses' = lapses /\ tokens' = tokens /\ expired' = expired /\ r \notin Creating
    BY <1>8 DEF LoadRegistration, CommitRegistration, dataVars, Creating, Doing
  <2>2. \E c : Go(r, c) /\ c.op \in {"count", "none"}
    BY <1>8 DEF LoadRegistration, CommitRegistration, Return, NoCall
  <2>3. Usable' = Usable
    BY <2>1 DEF Usable, Active
  <2> QED BY <1>8, <1>t, <2>1, <2>2, <2>3, OtherLock, OutsideLimited
<1>9. ASSUME NEW r \in Requests, Fail(r) PROVE Limited'
  <2>1. /\ lapses' = lapses /\ tokens' = tokens /\ expired' = expired /\ Return(r)
        /\ lock'["keys"] = IF lock["keys"] = r THEN Nobody ELSE lock["keys"]
    BY <1>9 DEF Fail, dataVars, Locks
  <2>2. Usable' = Usable
    BY <2>1 DEF Usable, Active
  <2> QED BY <1>t, <2>1, <2>2, EndLimited
<1>10. ASSUME NEW t \in DOMAIN tokens, Expire(t) PROVE Limited'
  <2>1. /\ lapses' = lapses /\ tokens' = tokens /\ call' = call /\ lock' = lock
        /\ expired' = expired \cup {t}
    BY <1>10 DEF Expire
  <2>2. Usable' \subseteq Usable /\ Creating' = Creating /\ Inserting' = Inserting
    BY <2>1 DEF Usable, Active, Creating, Inserting, Doing
  <2> QED BY <1>t, <2>1, <2>2, LimitedStay DEF Limited
<1>11. CASE UNCHANGED vars
  <2>1. /\ lapses' = lapses /\ tokens' = tokens /\ call' = call /\ lock' = lock
        /\ expired' = expired
    BY <1>11 DEF vars
  <2>2. Usable' = Usable /\ Creating' = Creating /\ Inserting' = Inserting
    BY <2>1 DEF Usable, Active, Creating, Inserting, Doing
  <2> QED BY <1>t, <2>1, <2>2, LimitedStay DEF Limited
<1> QED BY <1>1, <1>2, <1>3, <1>4, <1>5, <1>6, <1>7, <1>8, <1>9, <1>10, <1>11, LapseLimited DEF Next

-----------------------------------------------------------------------------
(***************************************************************************)
(* The names of the usable keys.                                           *)
(***************************************************************************)
\* A step that neither inserts nor allows to, and that no key outlives
LEMMA NamesStay ==
  ASSUME Typed, NamesDiffer, NEW r \in Requests, NEW c, Go(r, c), c.op # "insert",
         lapses' = lapses, Usable' \subseteq Usable,
         \A t \in Usable : tokens'[t].name = tokens[t].name
  PROVE  NamesDiffer'
<1>1. call'[r] = c /\ \A q \in Requests \ {r} : call'[q] = call[q]
  BY DEF Typed, Go
<1>2. Inserting' \subseteq Inserting /\ \A q \in Inserting' : call'[q] = call[q]
  BY <1>1 DEF Inserting, Doing
<1>3. NamesOf(Usable)' \subseteq NamesOf(Usable)
  BY DEF NamesOf
<1> QED BY <1>2, <1>3 DEF NamesDiffer

\* The check under the lock sees every usable key, some expired since too.
LEMMA CheckNames ==
  ASSUME Typed, Limited, NamesDiffer, NEW r \in Requests, CheckCreate(r)
  PROVE  NamesDiffer'
<1>1. /\ Doing(r, "check") /\ tokens' = tokens /\ expired' = expired /\ lapses' = lapses
  BY DEF CheckCreate, dataVars
<1>2. Usable' = Usable /\ NamesOf(Usable)' = NamesOf(Usable)
  BY <1>1 DEF Usable, Active, NamesOf
<1>3. CASE Return(r)
  BY <1>1, <1>2, <1>3, NamesStay DEF Return, NoCall
<1>4. CASE ~Return(r)
  <2> DEFINE c == [call[r] EXCEPT !.op = "insert"]
             active == Active(call[r].dead)
  <2>1. Go(r, c) /\ call[r].name \notin NamesOf(active)
    BY <1>4 DEF CheckCreate
  <2>2. call[r] \in CreateCall(expired) /\ call[r].dead \subseteq expired
    BY <1>1, CallFields DEF Doing
  <2>3. c.op = "insert" /\ c.name = call[r].name
    BY <2>2 DEF CreateCall
  <2>4. NamesOf(Usable) \subseteq NamesOf(active)
    BY <2>2 DEF Usable, Active, NamesOf
  <2> HIDE DEF c, active
  <2>5. call'[r] = c /\ \A q \in Requests \ {r} : call'[q] = call[q]
    BY <2>1 DEF Typed, Go
  <2>6. Inserting' = Inserting \cup {r}
    BY <2>1, <2>3, CreatingStep
  <2>7. lapses = 0 => \A q \in Inserting' : call'[q].name \notin NamesOf(Usable)
    BY <2>1, <2>3, <2>4, <2>5, <2>6 DEF NamesDiffer, Inserting
  <2> QED BY <1>1, <1>2, <2>7 DEF NamesDiffer
<1> QED BY <1>3, <1>4

\* Unless a lock lapsed, no other creation is under way when a key is inserted.
LEMMA InsertNames ==
  ASSUME Typed, Limited, NamesDiffer, NEW r \in Requests, InsertKey(r),
         Usable' = Usable \cup {Len(tokens) + 1}
  PROVE  NamesDiffer'
<1> DEFINE key == [name |-> call[r].name, revoked |-> FALSE]
           new == Len(tokens) + 1
<1>1. /\ tokens' = Append(tokens, key) /\ lapses' = lapses /\ Go(r, NoCall) /\ Doing(r, "insert")
  BY DEF InsertKey, Return
<1>2. SUFFICES ASSUME lapses = 0 PROVE NamesDiffer'
  BY <1>1 DEF NamesDiffer
<1>3. tokens \in Seq(Token) /\ Usable \subseteq DOMAIN tokens /\ key.name = call[r].name
  BY DEF Typed, Usable, Active
<1> HIDE DEF key
<1>4. /\ tokens'[new] = key /\ \A t \in Usable : tokens'[t] = tokens[t]
      /\ new \notin Usable
  BY <1>1, <1>3
<1>5. Inserting' = {}
  <2>1. r \in Creating /\ r \in Inserting
    BY <1>1 DEF Creating, Inserting, Doing
  <2> DEFINE h == lock["keys"]
  <2>2. Cardinality(Creating \ {h}) <= 0 /\ IsFiniteSet(Creating)
    BY <1>2 DEF Limited
  <2> HIDE DEF h
  <2>3. Creating \ {h} = {}
    <3>1. IsFiniteSet(Creating \ {h})
      BY <2>2, FS_Difference
    <3>2. Cardinality(Creating \ {h}) \in Nat
      BY <3>1, FS_CardinalityType
    <3>3. Cardinality(Creating \ {h}) = 0
      BY <2>2, <3>2
    <3> QED BY <3>1, <3>3, FS_EmptySet
  <2>4. Inserting \subseteq Creating
    BY DEF Inserting, Creating, Doing
  <2>5. Inserting' = Inserting \ {r}
    <3>1. NoCall.op # "insert"
      BY DEF NoCall
    <3> QED BY <1>1, <3>1, CreatingStep
  <2> QED BY <2>1, <2>3, <2>4, <2>5
<1>6. call[r].name \notin NamesOf(Usable)
  BY <1>1, <1>2 DEF NamesDiffer, Inserting
<1>7. \A t \in Usable : tokens[t].name # key.name
  BY <1>3, <1>6 DEF NamesOf
<1>8. ASSUME NEW s \in Usable', NEW t \in Usable', tokens'[s].name = tokens'[t].name
      PROVE  s = t
  <2>1. CASE s = new \/ t = new
    BY <1>4, <1>7, <1>8, <2>1
  <2>2. CASE s # new /\ t # new
    BY <1>2, <1>4, <1>8, <2>2 DEF NamesDiffer
  <2> QED BY <2>1, <2>2
<1> QED BY <1>5, <1>8 DEF NamesDiffer

\* No step gives two usable keys one name.
LEMMA NamesStep == Typed /\ Limited /\ NamesDiffer /\ [Next]_vars => NamesDiffer'
<1> SUFFICES ASSUME Typed, Limited, NamesDiffer, [Next]_vars PROVE NamesDiffer'
  OBVIOUS
<1>t. Typed'
  BY TypedStep
<1>1. ASSUME NEW r \in Requests,
             \/ \E n \in Names : StartCreate(r, n)
             \/ \E t \in DOMAIN tokens : StartRevoke(r, t) \/ \E a \in Agents : StartRequest(r, t, a)
             \/ ListTokens(r)
      PROVE  NamesDiffer'
  <2>1. lapses' = lapses /\ tokens' = tokens /\ Usable' = Usable
    BY <1>1, BeginsWith DEF dataVars, Usable, Active
  <2>2. \E c : Go(r, c) /\ c.op # "insert"
    BY <1>1, BeginsWith DEF Begin
  <2> QED BY <2>1, <2>2, NamesStay
<1>2. ASSUME NEW r \in Requests,
             LoadLinks(r) \/ EnterCreate(r) \/ LoadRegistration(r) \/ CommitRegistration(r) \/ Fail(r)
      PROVE  NamesDiffer'
  <2>1. lapses' = lapses /\ tokens' = tokens /\ Usable' = Usable
    BY <1>2 DEF LoadLinks, EnterCreate, LoadRegistration, CommitRegistration, Fail, dataVars,
                Usable, Active
  <2>2. \E c : Go(r, c) /\ c.op # "insert"
    BY <1>2 DEF LoadLinks, EnterCreate, LoadRegistration, CommitRegistration, Fail, Return, NoCall
  <2> QED BY <2>1, <2>2, NamesStay
<1>3. ASSUME NEW r \in Requests, CommitRevoke(r) PROVE NamesDiffer'
  <2>1. Usable' \subseteq Usable /\ \A t \in Usable : tokens'[t].name = tokens[t].name
    BY <1>3, CallFields, RevokedUsable DEF CommitRevoke, Usable, Active
  <2>2. Go(r, NoCall) /\ NoCall.op # "insert" /\ lapses' = lapses
    BY <1>3 DEF CommitRevoke, Return, NoCall
  <2> QED BY <2>1, <2>2, NamesStay
<1>4. ASSUME NEW r \in Requests, CommitSync(r) PROVE NamesDiffer'
  <2>1. Usable' \subseteq Usable /\ \A t \in Usable : tokens'[t].name = tokens[t].name
    BY <1>4, CallFields, RevokedUsable DEF CommitSync, Usable, Active
  <2>2. [call[r].create EXCEPT !.op = "check"].op # "insert"
    BY <1>4, CallFields DEF CommitSync, CreateCall
  <2>3. lapses' = lapses /\ \E c : Go(r, c) /\ c.op # "insert"
    BY <1>4, <2>2 DEF CommitSync
  <2> QED BY <2>1, <2>3, NamesStay
<1>5. ASSUME NEW r \in Requests, CheckCreate(r) PROVE NamesDiffer'
  BY <1>5, CheckNames
<1>6. ASSUME NEW r \in Requests, InsertKey(r) PROVE NamesDiffer'
  BY <1>6, <1>t, InsertLimited, InsertNames
<1>7. ASSUME NEW t \in DOMAIN tokens, Expire(t) PROVE NamesDiffer'
  <2>1. lapses' = lapses /\ tokens' = tokens /\ call' = call /\ expired' = expired \cup {t}
    BY <1>7 DEF Expire
  <2>2. Usable' \subseteq Usable /\ Inserting' = Inserting /\ NamesOf(Usable)' \subseteq NamesOf(Usable)
    BY <2>1 DEF Usable, Active, Inserting, Doing, NamesOf
  <2> QED BY <2>1, <2>2 DEF NamesDiffer
<1>8. ASSUME NEW l \in Locks, Lapse(l) PROVE NamesDiffer'
  BY <1>8 DEF Lapse, NamesDiffer, Typed
<1>9. CASE UNCHANGED vars
  BY <1>9 DEF vars, NamesDiffer, Usable, Active, Inserting, Doing, NamesOf
<1> QED BY <1>1, <1>2, <1>3, <1>4, <1>5, <1>6, <1>7, <1>8, <1>9 DEF Next

-----------------------------------------------------------------------------
(***************************************************************************)
(* The registrations' keys, as long as requests do not overlap.            *)
(***************************************************************************)
Unrevoked == Active({})
LastKey(a) == served[a][Len(served[a])]
Followed(a) == IF served[a] # <<>> /\ LastKey(a) \in Unrevoked THEN tokens[LastKey(a)].name
                                                             ELSE NoName

KeysDiffer == \A s, t \in Unrevoked : tokens[s].name = tokens[t].name => s = t
KeysFollowed == \A a \in Agents : registration[a].key = Followed(a)

\* What a handler that is alone has read is still so when it writes.
StillSo(r) ==
  LET c == call[r]
  IN /\ c.op \in {"unlink", "revoke", "sync"} => c.keys \subseteq Unrevoked
     /\ c.op \in {"revoke", "sync"} => c.changed = Unlinked(c.keys)
     /\ c.op = "sync" => c.keys = c.create.dead \cap Unrevoked
     /\ c.op \in {"check", "insert"} => c.dead \cap Unrevoked = {}
     /\ c.op = "insert" => c.name \notin NamesOf(Unrevoked)
     /\ c.op \in {"wait", "count"} => c.token \in Unrevoked
     /\ c.op = "count" =>
          /\ c.changed = Changed(registration[c.agent], Counted(c.agent, c.token))
          /\ c.new <=> registration[c.agent].count = 0

Alone ==
  ~overlapped =>
    /\ \A q, r \in Requests : call[q] # NoCall /\ call[r] # NoCall => q = r
    /\ KeysDiffer /\ KeysFollowed
    /\ \A r \in Requests : StillSo(r)

\* What is to be shown of the step of the one request under way
LEMMA AloneGoes ==
  ASSUME Typed, NEW r \in Requests, NEW c, Go(r, c),
         \A q \in Requests \ {r} : call[q] = NoCall,
         KeysDiffer', KeysFollowed', StillSo(r)'
  PROVE  Alone'
<1>1. call'[r] = c /\ \A q \in Requests \ {r} : call'[q] = NoCall
  BY DEF Typed, Go
<1>2. ASSUME NEW q \in Requests PROVE StillSo(q)'
  <2>1. CASE q = r
    BY <2>1
  <2>2. CASE q # r
    BY <1>1, <2>2 DEF StillSo, NoCall
  <2> QED BY <2>1, <2>2
<1> QED BY <1>1, <1>2 DEF Alone

\* The same of a step that commits nothing
LEMMA AloneReads ==
  ASSUME Typed, KeysDiffer, KeysFollowed, NEW r \in Requests, NEW c, Go(r, c),
         \A q \in Requests \ {r} : call[q] = NoCall,
         UNCHANGED dataVars, StillSo(r)'
  PROVE  Alone'
<1>1. tokens' = tokens /\ registration' = registration /\ served' = served
  BY DEF dataVars
<1>2. Unrevoked' = Unrevoked /\ \A a \in Agents : LastKey(a)' = LastKey(a)
  BY <1>1 DEF Unrevoked, Active, LastKey
<1>3. KeysDiffer' /\ KeysFollowed'
  BY <1>1, <1>2 DEF KeysDiffer, KeysFollowed, Followed
<1> QED BY <1>3, AloneGoes

\* A request that ends without a change
LEMMA AloneEnds ==
  ASSUME Typed, KeysDiffer, KeysFollowed, NEW r \in Requests, Return(r),
         \A q \in Requests \ {r} : call[q] = NoCall, UNCHANGED dataVars
  PROVE  Alone'
<1>1. Go(r, NoCall) /\ call'[r] = NoCall
  BY DEF Return, Go, Typed
<1>2. StillSo(r)'
  BY <1>1 DEF StillSo, NoCall
<1> QED BY <1>1, <1>2, AloneReads

\* Keys that are revoked leave exactly the registrations that follow them.
LEMMA RevokedFollowed ==
  ASSUME Typed, KeysDiffer, KeysFollowed, NEW r, NEW ts \in SUBSET Unrevoked,
         CommitRevoked(r, ts, Unlinked(ts)), expired' = expired, served' = served
  PROVE  Unrevoked' = Unrevoked \ ts /\ KeysDiffer' /\ KeysFollowed'
<1> DEFINE changed == Unlinked(ts)
<1>1. /\ LinkColumns(changed)
      /\ DOMAIN changed = {a \in Agents : registration[a].key \in NamesOf(ts)}
      /\ \A a \in DOMAIN changed :
           /\ "key" \in DOMAIN changed[a] <=> registration[a].key # NoName
           /\ "key" \in DOMAIN changed[a] => changed[a]["key"] = NoName
  BY UnlinkedColumns
<1>2. CommitRevoked(r, ts, changed)
  OBVIOUS
<1> HIDE DEF changed
<1>3. \A a \in Agents : registration'[a].key = IF a \in DOMAIN changed /\ "key" \in DOMAIN changed[a]
                                               THEN changed[a]["key"] ELSE registration[a].key
  BY <1>1, <1>2, RevokedRows
<1>4. \A a \in Agents : registration'[a].key = IF registration[a].key \in NamesOf(ts)
                                               THEN NoName ELSE registration[a].key
  BY <1>1, <1>3
<1>5. /\ Unrevoked' = Unrevoked \ ts
      /\ \A t \in DOMAIN tokens : tokens'[t].name = tokens[t].name
  BY <1>1, <1>2, RevokedUsable DEF Unrevoked
<1>6. Unrevoked \subseteq DOMAIN tokens
  BY DEF Unrevoked, Active
<1>7. KeysDiffer'
  BY <1>5, <1>6 DEF KeysDiffer
<1>8. ASSUME NEW a \in Agents PROVE registration'[a].key = Followed(a)'
  <2>1. LastKey(a)' = LastKey(a)
    BY DEF LastKey
  <2>2. registration[a].key = Followed(a)
    BY DEF KeysFollowed
  <2>3. CASE served[a] # <<>> /\ LastKey(a) \in Unrevoked
    <3>1. registration[a].key = tokens[LastKey(a)].name
      BY <2>2, <2>3 DEF Followed
    <3>2. registration[a].key \in NamesOf(ts) <=> LastKey(a) \in ts
      BY <2>3, <3>1 DEF NamesOf, KeysDiffer
    <3> QED BY <1>4, <1>5, <1>6, <2>1, <2>3, <3>1, <3>2 DEF Followed
  <2>4. CASE ~(served[a] # <<>> /\ LastKey(a) \in Unrevoked)
    BY <1>4, <1>5, <2>1, <2>2, <2>4 DEF Followed
  <2> QED BY <2>3, <2>4
<1> QED BY <1>5, <1>7, <1>8 DEF KeysFollowed

\* The keys of a request are loaded, and nobody changes what was loaded.
LEMMA LinksAlone ==
  ASSUME Typed, KeysDiffer, KeysFollowed, NEW r \in Requests, StillSo(r),
         \A q \in Requests \ {r} : call[q] = NoCall, LoadLinks(r)
  PROVE  Alone'
<1>1. PICK ts : ts = call[r].keys
  OBVIOUS
<1>2. PICK changed : changed = Unlinked(ts)
  OBVIOUS
<1> DEFINE c == [op |-> "revoke", keys |-> ts, changed |-> changed]
<1>3. Go(r, c) /\ UNCHANGED dataVars /\ Doing(r, "unlink")
  BY <1>1, <1>2 DEF LoadLinks
<1>4. call'[r] = c /\ c.op = "revoke" /\ c.keys = ts /\ c.changed = changed
  BY <1>3 DEF Go, Typed
<1>5. ts \subseteq Unrevoked
  BY <1>1, <1>3 DEF StillSo, Doing
<1>6. Unrevoked' = Unrevoked /\ Unlinked(ts)' = Unlinked(ts)
  BY <1>3 DEF dataVars, Unrevoked, Active, Unlinked, NamesOf
<1> HIDE DEF c
<1>7. StillSo(r)'
  BY <1>2, <1>4, <1>5, <1>6 DEF StillSo
<1> QED BY <1>3, <1>7, AloneReads

\* A revocation of a request that is alone takes its keys and no others from
\* the registrations.
LEMMA RevokeAlone ==
  ASSUME Typed, KeysDiffer, KeysFollowed, NEW r \in Requests, StillSo(r),
         \A q \in Requests \ {r} : call[q] = NoCall, CommitRevoke(r)
  PROVE  Alone'
<1>1. PICK ts : ts = call[r].keys
  OBVIOUS
<1>2. /\ ts \in SUBSET Unrevoked /\ CommitRevoked(r, ts, Unlinked(ts))
      /\ expired' = expired /\ served' = served /\ Go(r, NoCall)
  BY <1>1 DEF CommitRevoke, StillSo, Doing, Return
<1>3. KeysDiffer' /\ KeysFollowed'
  BY <1>2, RevokedFollowed
<1>4. StillSo(r)'
  BY <1>2 DEF Go, Typed, StillSo, NoCall
<1> QED BY <1>2, <1>3, <1>4, AloneGoes

\* A creation of a request that is alone: what it checks is so when it inserts.
LEMMA CreateAlone ==
  ASSUME Typed, KeysDiffer, KeysFollowed, NEW r \in Requests, StillSo(r),
         \A q \in Requests \ {r} : call[q] = NoCall,
         EnterCreate(r) \/ CommitSync(r) \/ CheckCreate(r)
  PROVE  Alone'
<1>1. CASE EnterCreate(r)
  <2>1. PICK d : d = call[r]
    OBVIOUS
  <2>2. PICK ts : ts = d.dead \cap Unrevoked
    OBVIOUS
  <2>3. PICK changed : changed = Unlinked(ts)
    OBVIOUS
  <2> DEFINE c == [op |-> "sync", create |-> d, keys |-> ts, changed |-> changed]
  <2>4. Go(r, c) /\ UNCHANGED dataVars
    BY <1>1, <2>1, <2>2, <2>3 DEF EnterCreate, Unrevoked
  <2>5. /\ call'[r] = c /\ c.op = "sync" /\ c.keys = ts /\ c.changed = changed
        /\ c.create.dead = d.dead
    BY <2>4 DEF Go, Typed
  <2>6. Unrevoked' = Unrevoked /\ Unlinked(ts)' = Unlinked(ts)
    BY <2>4 DEF dataVars, Unrevoked, Active, Unlinked, NamesOf
  <2> HIDE DEF c
  <2>7. StillSo(r)'
    BY <2>2, <2>3, <2>5, <2>6 DEF StillSo
  <2> QED BY <2>4, <2>7, AloneReads
<1>2. CASE CommitSync(r)
  <2>1. PICK ts : ts = call[r].keys
    OBVIOUS
  <2>2. PICK d : d = call[r].create
    OBVIOUS
  <2> DEFINE c == [d EXCEPT !.op = "check"]
  <2>3. /\ ts \in SUBSET Unrevoked /\ CommitRevoked(r, ts, Unlinked(ts))
        /\ ts = d.dead \cap Unrevoked
        /\ expired' = expired /\ served' = served /\ Go(r, c)
    BY <1>2, <2>1, <2>2 DEF CommitSync, StillSo, Doing
  <2>4. Unrevoked' = Unrevoked \ ts /\ KeysDiffer' /\ KeysFollowed'
    BY <2>3, RevokedFollowed
  <2>5. d \in CreateCall(expired)
    BY <1>2, <2>2, CallFields DEF CommitSync
  <2>6. call'[r] = c /\ c.op = "check" /\ c.dead = d.dead
    BY <2>3, <2>5 DEF Go, Typed, CreateCall
  <2> HIDE DEF c
  <2>7. c.dead \cap Unrevoked' = {}
    BY <2>3, <2>4, <2>6
  <2>8. StillSo(r)'
    BY <2>6, <2>7 DEF StillSo
  <2> QED BY <2>3, <2>4, <2>8, AloneGoes
<1>3. CASE CheckCreate(r) /\ Return(r)
  BY <1>3, AloneEnds DEF CheckCreate
<1>4. CASE CheckCreate(r) /\ ~Return(r)
  <2>1. PICK d : d = call[r]
    OBVIOUS
  <2> DEFINE c == [d EXCEPT !.op = "insert"]
  <2>2. /\ Go(r, c) /\ UNCHANGED dataVars /\ Doing(r, "check")
        /\ d.name \notin NamesOf(Active(d.dead))
    BY <1>4, <2>1 DEF CheckCreate
  <2>3. d \in CreateCall(expired)
    BY <2>1, <2>2, CallFields DEF Doing
  <2>4. call'[r] = c /\ c.op = "insert" /\ c.dead = d.dead /\ c.name = d.name
    BY <2>2, <2>3 DEF Go, Typed, CreateCall
  <2>5. d.dead \cap Unrevoked = {}
    BY <2>1, <2>2 DEF StillSo, Doing
  <2>6. Active(d.dead) = Unrevoked
    BY <2>5 DEF Active, Unrevoked
  <2>7. Unrevoked' = Unrevoked /\ NamesOf(Unrevoked)' = NamesOf(Unrevoked)
    BY <2>2 DEF dataVars, Unrevoked, Active, NamesOf
  <2> HIDE DEF c
  <2>8. StillSo(r)'
    BY <2>2, <2>4, <2>5, <2>6, <2>7 DEF StillSo
  <2> QED BY <2>2, <2>8, AloneReads
<1> QED BY <1>1, <1>2, <1>3, <1>4

\* A new key has a name of its own, and no registration follows it yet.
LEMMA InsertAlone ==
  ASSUME Typed, KeysDiffer, KeysFollowed, NEW r \in Requests, StillSo(r),
         \A q \in Requests \ {r} : call[q] = NoCall, InsertKey(r)
  PROVE  Alone'
<1> DEFINE key == [name |-> call[r].name, revoked |-> FALSE]
           new == Len(tokens) + 1
<1>1. /\ tokens' = Append(tokens, key) /\ Go(r, NoCall) /\ Doing(r, "insert")
      /\ registration' = registration /\ served' = served
  BY DEF InsertKey, Return
<1>2. tokens \in Seq(Token) /\ key.name = call[r].name /\ ~key.revoked
  BY DEF Typed
<1> HIDE DEF key
<1>3. /\ DOMAIN tokens' = DOMAIN tokens \cup {new} /\ new \notin DOMAIN tokens
      /\ tokens'[new] = key /\ \A t \in DOMAIN tokens : tokens'[t] = tokens[t]
  BY <1>1, <1>2
<1> HIDE DEF new
<1>4. Unrevoked' = Unrevoked \cup {new} /\ Unrevoked \subseteq DOMAIN tokens
  BY <1>2, <1>3 DEF Unrevoked, Active
<1>5. \A t \in Unrevoked : tokens[t].name # key.name
  BY <1>1, <1>2 DEF StillSo, Doing, NamesOf
<1>6. KeysDiffer'
  <2>1. SUFFICES ASSUME NEW s \in Unrevoked', NEW t \in Unrevoked', tokens'[s].name = tokens'[t].name
                 PROVE  s = t
    BY DEF KeysDiffer
  <2>2. CASE s = new \/ t = new
    BY <1>3, <1>4, <1>5, <2>1, <2>2
  <2>3. CASE s # new /\ t # new
    BY <1>3, <1>4, <2>1, <2>3 DEF KeysDiffer
  <2> QED BY <2>2, <2>3
<1>7. ASSUME NEW a \in Agents PROVE registration'[a].key = Followed(a)'
  <2>1. LastKey(a)' = LastKey(a)
    BY <1>1 DEF LastKey
  <2>2. served[a] # <<>> => LastKey(a) \in DOMAIN tokens
    <3>1. served[a] \in Seq(DOMAIN tokens)
      BY DEF Typed
    <3> QED BY <3>1 DEF LastKey
  <2> QED BY <1>1, <1>3, <1>4, <2>1, <2>2 DEF KeysFollowed, Followed
<1>8. StillSo(r)'
  BY <1>1 DEF Go, Typed, StillSo, NoCall
<1> QED BY <1>1, <1>6, <1>7, <1>8, AloneGoes DEF KeysFollowed

\* The registration that a request which is alone commits has the request's key.
LEMMA CountAlone ==
  ASSUME Typed, KeysDiffer, KeysFollowed, NEW r \in Requests, StillSo(r),
         \A q \in Requests \ {r} : call[q] = NoCall,
         LoadRegistration(r) \/ CommitRegistration(r)
  PROVE  Alone'
<1>1. PICK a : a = call[r].agent
  OBVIOUS
<1>2. PICK t : t = call[r].token
  OBVIOUS
<1>3. a \in Agents /\ t \in DOMAIN tokens
  BY <1>1, <1>2, CallFields DEF LoadRegistration, CommitRegistration, Doing
<1>4. t \in Unrevoked
  BY <1>2 DEF LoadRegistration, CommitRegistration, Doing, StillSo
<1> DEFINE changed == Changed(registration[a], Counted(a, t))
<1>5. CASE LoadRegistration(r)
  <2>1. PICK d : d = changed
    OBVIOUS
  <2>2. PICK n \in BOOLEAN : n <=> registration[a].count = 0
    OBVIOUS
  <2> DEFINE c == [op |-> "count", agent |-> a, token |-> t, new |-> n, changed |-> d]
  <2>3. Go(r, c) /\ UNCHANGED dataVars
    <3>1. n = (registration[a].count = 0)
      BY <2>2
    <3> QED BY <1>1, <1>2, <1>5, <2>1, <3>1 DEF LoadRegistration
  <2>4. /\ call'[r] = c /\ c.op = "count" /\ c.agent = a /\ c.token = t /\ c.changed = d
        /\ c.new = n
    BY <2>3 DEF Go, Typed
  <2>5. registration' = registration /\ Unrevoked' = Unrevoked /\ Counted(a, t)' = Counted(a, t)
    BY <2>3 DEF dataVars, Unrevoked, Active, Counted
  <2> HIDE DEF c
  <2>6. StillSo(r)'
    BY <1>4, <2>1, <2>2, <2>4, <2>5 DEF StillSo, Counted, dataVars
  <2> QED BY <2>3, <2>6, AloneReads
<1>6. CASE CommitRegistration(r)
  <2>1. /\ Go(r, NoCall) /\ Doing(r, "count") /\ tokens' = tokens
        /\ call[r].changed = changed /\ (call[r].new <=> registration[a].count = 0)
    BY <1>1, <1>2, <1>6 DEF CommitRegistration, Return, StillSo, Doing
  <2>2. registration[a] \in Registration /\ registration[a].count \in Nat
    BY <1>3 DEF Typed, Registration
  <2>3. /\ registration' = [registration EXCEPT ![a] = Written(registration[a], changed)]
        /\ served' = [served EXCEPT ![a] = Append(served[a], t)]
    BY <1>1, <1>2, <1>6, <2>1, <2>2 DEF CommitRegistration
  <2>4. /\ CountColumns(changed)
        /\ "key" \in DOMAIN changed <=> registration[a].key # tokens[t].name
        /\ "key" \in DOMAIN changed => changed["key"] = tokens[t].name
    BY <1>3, CountedColumns
  <2> HIDE DEF changed
  <2>5. Written(registration[a], changed).key = tokens[t].name
    BY <2>2, <2>4, WrittenRow DEF CountColumns
  <2>6. /\ registration'[a].key = tokens[t].name
        /\ \A b \in Agents \ {a} : registration'[b] = registration[b]
    BY <1>3, <2>3, <2>5 DEF Typed
  <2>7. /\ served'[a] # <<>> /\ LastKey(a)' = t
        /\ \A b \in Agents \ {a} : served'[b] = served[b]
    <3>1. served[a] \in Seq(DOMAIN tokens) /\ served \in [Agents -> Seq(DOMAIN tokens)]
      BY <1>3 DEF Typed
    <3>2. LET q == Append(served[a], t) IN q # <<>> /\ q[Len(q)] = t
      BY <1>3, <3>1
    <3>3. served'[a] = Append(served[a], t) /\ \A b \in Agents \ {a} : served'[b] = served[b]
      BY <1>3, <2>3, <3>1
    <3> QED BY <3>2, <3>3 DEF LastKey
  <2>8. Unrevoked' = Unrevoked /\ KeysDiffer'
    BY <2>1 DEF Unrevoked, Active, KeysDiffer
  <2>9. ASSUME NEW b \in Agents PROVE registration'[b].key = Followed(b)'
    <3>1. CASE b = a
      BY <1>4, <2>1, <2>6, <2>7, <2>8, <3>1 DEF Followed
    <3>2. CASE b # a
      BY <2>1, <2>6, <2>7, <2>8, <3>2 DEF Followed, KeysFollowed, LastKey
    <3> QED BY <3>1, <3>2
  <2>10. StillSo(r)'
    BY <2>1 DEF Go, Typed, StillSo, NoCall
  <2> QED BY <2>1, <2>8, <2>9, <2>10, AloneGoes DEF KeysFollowed
<1> QED BY <1>5, <1>6

\* Every step of a run without overlap keeps the registrations with their keys.
LEMMA AloneStep == Typed /\ Alone /\ [Next]_vars => Alone'
<1> SUFFICES ASSUME Typed, Alone, [Next]_vars, ~overlapped' PROVE Alone'
  BY DEF Alone
<1>a. ASSUME ~overlapped, NEW r \in Requests, call[r] # NoCall
      PROVE  /\ KeysDiffer /\ KeysFollowed /\ StillSo(r)
             /\ \A q \in Requests \ {r} : call[q] = NoCall
  BY <1>a DEF Alone
<1>1. ASSUME NEW r \in Requests,
             \/ \E n \in Names : StartCreate(r, n)
             \/ \E t \in DOMAIN tokens : StartRevoke(r, t) \/ \E a \in Agents : StartRequest(r, t, a)
             \/ ListTokens(r)
      PROVE  Alone'
  <2>1. PICK c : /\ Begin(r, c) /\ c.op \in {"create", "unlink", "wait"}
                 /\ c.op = "unlink" => c.keys \subseteq Active({})
                 /\ c.op = "wait" => c.token \in Active({})
    BY <1>1, BeginsWith
  <2>2. UNCHANGED dataVars
    BY <1>1, BeginsWith
  <2>3. Go(r, c) /\ ~overlapped /\ \A q \in Requests \ {r} : call[q] = NoCall
    BY <2>1 DEF Begin
  <2>4. KeysDiffer /\ KeysFollowed
    BY <2>3 DEF Alone
  <2>5. Unrevoked' = Active({}) /\ call'[r] = c
    BY <2>2, <2>3 DEF dataVars, Unrevoked, Active, Go, Typed
  <2>6. StillSo(r)'
    BY <2>1, <2>5 DEF StillSo
  <2> QED BY <2>2, <2>3, <2>4, <2>6, AloneReads
<1>2. ASSUME NEW r \in Requests, LoadLinks(r) PROVE Alone'
  <2>1. ~overlapped /\ call[r] # NoCall
    BY <1>2 DEF LoadLinks, Doing, NoCall
  <2> QED BY <1>2, <1>a, <2>1, LinksAlone
<1>3. ASSUME NEW r \in Requests, CommitRevoke(r) PROVE Alone'
  <2>1. ~overlapped /\ call[r] # NoCall
    BY <1>3 DEF CommitRevoke, Doing, NoCall
  <2> QED BY <1>3, <1>a, <2>1, RevokeAlone
<1>4. ASSUME NEW r \in Requests, EnterCreate(r) \/ CommitSync(r) \/ CheckCreate(r) PROVE Alone'
  <2>1. ~overlapped /\ call[r] # NoCall
    BY <1>4 DEF EnterCreate, CommitSync, CheckCreate, Doing, NoCall
  <2> QED BY <1>4, <1>a, <2>1, CreateAlone
<1>5. ASSUME NEW r \in Requests, InsertKey(r) PROVE Alone'
  <2>1. ~overlapped /\ call[r] # NoCall
    BY <1>5 DEF InsertKey, Doing, NoCall
  <2> QED BY <1>5, <1>a, <2>1, InsertAlone
<1>6. ASSUME NEW r \in Requests, LoadRegistration(r) \/ CommitRegistration(r) PROVE Alone'
  <2>1. ~overlapped /\ call[r] # NoCall
    BY <1>6 DEF LoadRegistration, CommitRegistration, Doing, NoCall
  <2> QED BY <1>6, <1>a, <2>1, CountAlone
<1>7. ASSUME NEW r \in Requests, Fail(r) PROVE Alone'
  <2>1. ~overlapped /\ call[r] # NoCall /\ Return(r) /\ UNCHANGED dataVars
    BY <1>7 DEF Fail
  <2> QED BY <1>a, <2>1, AloneEnds
<1>8. CASE (\E t \in DOMAIN tokens : Expire(t)) \/ (\E l \in Locks : Lapse(l)) \/ UNCHANGED vars
  <2>1. /\ tokens' = tokens /\ registration' = registration /\ served' = served /\ call' = call
        /\ ~overlapped
    BY <1>8 DEF Expire, Lapse, vars, dataVars
  <2>2. Unrevoked' = Unrevoked /\ KeysDiffer' = KeysDiffer /\ KeysFollowed' = KeysFollowed
    BY <2>1 DEF Unrevoked, Active, KeysDiffer, KeysFollowed, Followed, LastKey
  <2>3. ASSUME NEW r \in Requests PROVE StillSo(r)' = StillSo(r)
    BY <2>1, <2>2 DEF StillSo, Unlinked, NamesOf, Counted
  <2> QED BY <2>1, <2>2, <2>3 DEF Alone
<1> QED BY <1>1, <1>2, <1>3, <1>4, <1>5, <1>6, <1>7, <1>8 DEF Next

-----------------------------------------------------------------------------
(***************************************************************************)
(* The theorems.                                                           *)
(***************************************************************************)
Sound == Typed /\ Counts /\ Limited /\ NamesDiffer /\ Alone

\* An account without keys is sound.
LEMMA InitSound == Init => Sound
<1> SUFFICES ASSUME Init PROVE Sound
  OBVIOUS
<1>1. /\ tokens = <<>> /\ expired = {} /\ DOMAIN tokens = {} /\ Len(tokens) = 0
      /\ \A a \in Agents : served[a] = <<>> /\ registration[a] \in Registration
                           /\ registration[a].count = 0 /\ registration[a].key = NoName
      /\ \A r \in Requests : call[r] = NoCall
  BY DEF Init, Registration
<1>2. Typed
  <2>1. \A r \in Requests : CallOf(call[r], DOMAIN tokens, expired)
    BY <1>1, NoCallOf
  <2>2. served \in [Agents -> Seq(DOMAIN tokens)] /\ tokens \in Seq(Token)
    BY <1>1 DEF Init
  <2> QED BY <1>1, <2>1, <2>2 DEF Init, Typed
<1>3. Active({}) = {} /\ Usable = {} /\ Creating = {} /\ Inserting = {}
  BY <1>1 DEF Usable, Active, Creating, Inserting, Doing, NoCall
<1>4. Counts
  BY <1>1 DEF Counts, Doing, NoCall
<1>5. Limited
  <2>1. Cardinality({}) = 0 /\ IsFiniteSet({})
    BY FS_EmptySet
  <2>2. lock["keys"] = Nobody /\ lapses = 0 /\ Creating \ {lock["keys"]} = {}
    BY <1>3 DEF Init, Locks
  <2> QED BY <1>1, <1>3, <2>1, <2>2, AccessConstants DEF Limited
<1>6. NamesDiffer
  BY <1>3 DEF NamesDiffer
<1>7. Alone
  <2>1. \A r \in Requests : StillSo(r)
    BY <1>1 DEF StillSo, NoCall
  <2> QED BY <1>1, <1>3, <2>1 DEF Alone, KeysDiffer, KeysFollowed, Followed, Unrevoked
<1> QED BY <1>2, <1>4, <1>5, <1>6, <1>7 DEF Sound

\* Types, counts, limits, names and registrations hold throughout: the inductive
\* invariant of creations, revocations, expiries and requests in any order.
THEOREM AccessSound == Spec => []Sound
<1>1. Sound /\ [Next]_vars => Sound'
  BY TypedStep, CountsStep, LimitedStep, NamesStep, AloneStep DEF Sound
<1> QED BY <1>1, InitSound, PTL DEF Spec

\* _sync and _create_agent_access_token: an account exceeds its limits on usable
\* keys and on keys per day by no more than the locks that lapsed, and usable
\* keys have different names unless one did.
THEOREM LimitsHold == Spec => []KeysLimited
<1>1. Sound => KeysLimited
  <2> SUFFICES ASSUME Sound PROVE KeysLimited
    OBVIOUS
  <2>1. /\ Cardinality(Usable) \in Nat /\ IsFiniteSet(Usable) /\ Cardinality(Inserting) \in Nat
        /\ lapses \in Nat /\ MaxActive \in Nat /\ MaxDaily \in Nat /\ Len(tokens) \in Nat
    BY UsableFinite, InsertingFinite, AccessConstants DEF Sound, Typed, Usable
  <2>2. Cardinality(Usable) <= MaxActive + lapses /\ Len(tokens) <= MaxDaily + lapses
    BY <2>1 DEF Sound, Limited
  <2>3. ASSUME lapses = 0 PROVE Cardinality(NamesOf(Usable)) = Cardinality(Usable)
    <3> DEFINE name == [t \in Usable |-> tokens[t].name]
    <3>1. name \in Bijection(Usable, NamesOf(Usable))
      <4>1. name \in [Usable -> NamesOf(Usable)]
        BY DEF NamesOf
      <4>2. \A s, t \in Usable : name[s] = name[t] => s = t
        BY <2>3 DEF Sound, NamesDiffer
      <4>3. \A n \in NamesOf(Usable) : \E t \in Usable : name[t] = n
        BY DEF NamesOf
      <4> HIDE DEF name
      <4> QED BY <4>1, <4>2, <4>3 DEF Bijection, Injection, Surjection, IsInjective
    <3>2. ExistsBijection(Usable, NamesOf(Usable))
      BY <3>1 DEF ExistsBijection
    <3> QED BY <2>1, <3>2, FS_Bijection
  <2> QED BY <2>2, <2>3 DEF KeysLimited, Usable
<1> QED BY <1>1, AccessSound, PTL

\* _ensure_agent_registration: a registration has counted every request that
\* was served, unless a lock lapsed.
THEOREM NoRequestIsMissed == Spec => []RequestsCounted
<1>1. Sound => RequestsCounted
  BY DEF Sound, Counts, RequestsCounted
<1> QED BY <1>1, AccessSound, PTL

\* list_agent_registrations: without overlapping requests an agent is shown as
\* active exactly as long as the key of its last request is usable.
THEOREM StatusFollowsKey == Spec => []RegistrationsFollowKeys
<1>1. Sound => RegistrationsFollowKeys
  <2> SUFFICES ASSUME Sound, ~overlapped, NEW a \in Agents
               PROVE  ReadsActive(a) <=> served[a] # <<>> /\ LastKey(a) \in Usable
    BY DEF RegistrationsFollowKeys, LastKey, Usable
  <2>1. KeysDiffer /\ registration[a].key = Followed(a)
    BY DEF Sound, Alone, KeysFollowed
  <2>2. Usable \subseteq Unrevoked /\ (ReadsActive(a) <=> registration[a].key \in NamesOf(Usable))
    BY DEF Usable, Unrevoked, Active, ReadsActive
  <2>3. \A t \in Unrevoked : tokens[t].name \in Names
    <3>1. \A t \in DOMAIN tokens : tokens[t] \in Token
      BY DEF Sound, Typed
    <3> QED BY <3>1 DEF Unrevoked, Active, Token
  <2>4. CASE served[a] # <<>> /\ LastKey(a) \in Unrevoked
    <3>1. registration[a].key = tokens[LastKey(a)].name
      BY <2>1, <2>4 DEF Followed
    <3>2. registration[a].key \in NamesOf(Usable) <=> LastKey(a) \in Usable
      BY <2>1, <2>2, <2>4, <3>1 DEF NamesOf, KeysDiffer
    <3> QED BY <2>2, <2>4, <3>2
  <2>5. CASE ~(served[a] # <<>> /\ LastKey(a) \in Unrevoked)
    <3>1. registration[a].key = NoName
      BY <2>1, <2>5 DEF Followed
    <3>2. registration[a].key \notin NamesOf(Usable)
      BY <2>2, <2>3, <3>1, AccessConstants DEF NamesOf
    <3> QED BY <2>2, <2>5, <3>2
  <2> QED BY <2>4, <2>5
<1> QED BY <1>1, AccessSound, PTL
=============================================================================
