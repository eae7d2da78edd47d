---------------------------- MODULE Inbox_proofs ----------------------------
(***************************************************************************)
(* The inbox: the daily limit, the badge and the resolution of feedback    *)
(* items, and the delivery of release notes, for every set of users, kinds,*)
(* versions and request threads and every limit.                           *)
(***************************************************************************)
EXTENDS Feedback, ReleaseNotes, FiniteSetTheorems, WellFoundedInduction, TLAPS

(***************************************************************************)
(* What a handler holds between its read and its commit: c, of n items.    *)
(* No handler changes the owner, and an edit does not reopen.              *)
(***************************************************************************)
ItemColumns(changed) ==
  /\ DOMAIN changed \subseteq {"kind", "status", "resolved", "replied", "seen"}
  /\ "kind" \in DOMAIN changed => changed["kind"] \in Kinds
  /\ "status" \in DOMAIN changed => changed["status"] \in Statuses
  /\ "resolved" \in DOMAIN changed => changed["resolved"] \in BOOLEAN
  /\ "replied" \in DOMAIN changed => changed["replied"] \in BOOLEAN
  /\ "seen" \in DOMAIN changed => changed["seen"] \in BOOLEAN

CallOf(c, n) ==
  /\ c = NoCall \/ c.op \in {"insert", "edit", "reopen", "mark"}
  /\ c.op = "insert" => c.new \in Item
  /\ c.op \in {"edit", "reopen"} => c.item \in 1 .. n /\ ItemColumns(c.changed)
  /\ c.op = "edit" => ("resolved" \in DOMAIN c.changed => c.changed["resolved"])

Typed ==
  /\ TypeOK
  /\ call = [r \in Requests |-> call[r]]
  /\ \A r \in Requests : CallOf(call[r], Len(items))

-----------------------------------------------------------------------------
(***************************************************************************)
(* What an UPDATE makes of an item.                                        *)
(***************************************************************************)
\* A column that is named is written; the others, the owner's among them, stay.
LEMMA WrittenItem ==
  ASSUME NEW row \in Item, NEW changed, ItemColumns(changed)
  PROVE  /\ Written(row, changed) \in Item
         /\ Written(row, changed).owner = row.owner
         /\ Written(row, changed).resolved
              = IF "resolved" \in DOMAIN changed THEN changed["resolved"] ELSE row.resolved
<1> DEFINE w == Written(row, changed)
           v(k) == IF k \in DOMAIN changed THEN changed[k] ELSE row[k]
<1>1. row = [owner |-> row.owner, kind |-> row.kind, status |-> row.status,
             resolved |-> row.resolved, replied |-> row.replied, seen |-> row.seen]
  BY DEF Item
<1>2. DOMAIN row = {"owner", "kind", "status", "resolved", "replied", "seen"}
  BY <1>1
<1>3. w = [owner |-> v("owner"), kind |-> v("kind"), status |-> v("status"),
           resolved |-> v("resolved"), replied |-> v("replied"), seen |-> v("seen")]
  BY <1>1, <1>2 DEF Written
<1>4. /\ row.owner \in Users /\ row.kind \in Kinds /\ row.status \in Statuses
      /\ row.resolved \in BOOLEAN /\ row.replied \in BOOLEAN /\ row.seen \in BOOLEAN
  BY DEF Item
<1>5. /\ v("owner") = row.owner /\ v("kind") \in Kinds /\ v("status") \in Statuses
      /\ v("resolved") \in BOOLEAN /\ v("replied") \in BOOLEAN /\ v("seen") \in BOOLEAN
      /\ v("resolved") = IF "resolved" \in DOMAIN changed THEN changed["resolved"] ELSE row.resolved
  BY <1>4 DEF ItemColumns
<1> HIDE DEF w, v
<1>6. w \in Item /\ w.owner = v("owner") /\ w.resolved = v("resolved")
  BY <1>3, <1>4, <1>5 DEF Item
<1> QED BY <1>5, <1>6 DEF w

\* The columns that change, of two rows of one owner
LEMMA ChangedItem ==
  ASSUME NEW row \in Item, NEW new \in Item, new.owner = row.owner
  PROVE  /\ ItemColumns(Changed(row, new))
         /\ "resolved" \in DOMAIN Changed(row, new) =>
              /\ Changed(row, new)["resolved"] = new.resolved
              /\ row.resolved # new.resolved
<1> DEFINE changed == Changed(row, new)
<1>1. row = [owner |-> row.owner, kind |-> row.kind, status |-> row.status,
             resolved |-> row.resolved, replied |-> row.replied, seen |-> row.seen]
  BY DEF Item
<1>2. DOMAIN row = {"owner", "kind", "status", "resolved", "replied", "seen"}
  BY <1>1
<1>3. /\ DOMAIN changed = {k \in DOMAIN row : new[k] # row[k]}
      /\ \A k \in DOMAIN changed : changed[k] = new[k]
  BY DEF Changed
<1>4. /\ new.kind \in Kinds /\ new.status \in Statuses
      /\ new.resolved \in BOOLEAN /\ new.replied \in BOOLEAN /\ new.seen \in BOOLEAN
  BY DEF Item
<1> HIDE DEF changed
<1>5. DOMAIN changed \subseteq {"kind", "status", "resolved", "replied", "seen"}
  BY <1>2, <1>3
<1>6. ItemColumns(changed)
  BY <1>3, <1>4, <1>5 DEF ItemColumns
<1>7. "resolved" \in DOMAIN changed => changed["resolved"] = new.resolved /\ row.resolved # new.resolved
  BY <1>3
<1> QED BY <1>6, <1>7 DEF changed

-----------------------------------------------------------------------------
(***************************************************************************)
(* The latest of the rows of a table.                                      *)
(***************************************************************************)
\* Of finitely many rows one is the latest: by a time, and by the id when the
\* times are equal.
LEMMA LatestExists ==
  ASSUME NEW S \in SUBSET Int, IsFiniteSet(S), S # {}, NEW at \in [S -> Int]
  PROVE  \E x \in S : \A y \in S : at[y] < at[x] \/ (at[y] = at[x] /\ y <= x)
<1> DEFINE Later(x) == {y \in S : at[x] < at[y] \/ (at[x] = at[y] /\ x < y)}
           F == {Later(x) : x \in S}
<1>1. F \subseteq SUBSET S /\ F # {}
  <2>1. \A x \in S : Later(x) \in SUBSET S
    OBVIOUS
  <2> HIDE DEF Later
  <2> QED BY <2>1
<1>2. IsWellFoundedOn(StrictSubsetOrdering(S), SUBSET S)
  BY FS_FiniteSubsetsOfFinite, FS_StrictSubsetOrderingWellFounded
<1>3. PICK L \in F : \A M \in F : <<M, L>> \notin StrictSubsetOrdering(S)
  BY <1>1, <1>2, WFMin
<1>4. PICK x \in S : L = Later(x)
  OBVIOUS
<1>5. \A y \in S : y \in Int /\ at[y] \in Int
  OBVIOUS
<1>6. Later(x) = {}
  <2>1. SUFFICES ASSUME NEW y \in Later(x) PROVE FALSE
    OBVIOUS
  <2>2. Later(y) \subseteq Later(x)
    <3>1. SUFFICES ASSUME NEW z \in Later(y) PROVE z \in Later(x)
      OBVIOUS
    <3>2. x \in S /\ y \in S /\ z \in S
      BY <2>1, <3>1
    <3>3. /\ at[x] < at[y] \/ (at[x] = at[y] /\ x < y)
          /\ at[y] < at[z] \/ (at[y] = at[z] /\ y < z)
      BY <2>1, <3>1
    <3>4. at[x] < at[z] \/ (at[x] = at[z] /\ x < z)
      BY <1>5, <3>2, <3>3
    <3> QED BY <3>2, <3>4
  <2>3. y \in S /\ y \notin Later(y)
    BY <1>5
  <2>4. Later(y) \in F /\ Later(y) \subseteq S /\ Later(x) \subseteq S
    BY <2>3
  <2> HIDE DEF Later, F
  <2> QED BY <1>3, <1>4, <2>1, <2>2, <2>3, <2>4 DEF StrictSubsetOrdering
<1>7. \A y \in S : at[y] < at[x] \/ (at[y] = at[x] /\ y <= x)
  BY <1>5, <1>6
<1> QED BY <1>7

\* The greatest of a bounded set of ids
LEMMA MaxIs ==
  ASSUME NEW S \in SUBSET Nat, S # {}, NEW n \in Nat, \A s \in S : s <= n
  PROVE  Max(S) \in S /\ \A s \in S : s <= Max(S)
<1> DEFINE at == [s \in S |-> 0]
<1>1. IsFiniteSet(S) /\ at \in [S -> Int] /\ S \in SUBSET Int
  BY FS_BoundedSetOfNaturals
<1>2. \A s \in S : at[s] = 0 /\ s \in Nat
  OBVIOUS
<1> HIDE DEF at
<1>3. PICK x \in S : \A y \in S : at[y] < at[x] \/ (at[y] = at[x] /\ y <= x)
  BY <1>1, LatestExists
<1>4. x \in S /\ \A y \in S : x >= y
  BY <1>2, <1>3
<1>5. Max(S) \in S /\ \A y \in S : Max(S) >= y
  BY <1>4 DEF Max
<1> QED BY <1>2, <1>5

-----------------------------------------------------------------------------
(***************************************************************************)
(* The types, step by step.                                                *)
(***************************************************************************)
\* One request goes on with c, the others hold what they held.
LEMMA CallsStep ==
  ASSUME Typed, NEW r \in Requests, NEW c, call' = [call EXCEPT ![r] = c],
         Len(items) \in Nat, Len(items') \in Nat, Len(items) <= Len(items'),
         CallOf(c, Len(items'))
  PROVE  /\ call' = [q \in Requests |-> call'[q]]
         /\ call'[r] = c /\ \A q \in Requests \ {r} : call'[q] = call[q]
         /\ \A q \in Requests : CallOf(call'[q], Len(items'))
<1>1. /\ call' = [q \in Requests |-> call'[q]]
      /\ call'[r] = c /\ \A q \in Requests \ {r} : call'[q] = call[q]
  BY DEF Typed
<1>2. ASSUME NEW q \in Requests \ {r} PROVE CallOf(call'[q], Len(items'))
  <2>1. CallOf(call[q], Len(items)) /\ call'[q] = call[q]
    BY <1>1 DEF Typed
  <2> QED BY <2>1 DEF CallOf
<1> QED BY <1>1, <1>2

\* A request that holds nothing is well typed.
LEMMA NoCallOf == ASSUME NEW n PROVE CallOf(NoCall, n)
BY DEF CallOf, NoCall

\* The rows there are
LEMMA ItemRows ==
  ASSUME Typed
  PROVE  /\ items \in Seq(Item) /\ Len(items) \in Nat /\ DOMAIN items = 1 .. Len(items)
         /\ \A i \in DOMAIN items : items[i] \in Item
<1>1. items \in Seq(Item)
  BY DEF Typed, TypeOK
<1> QED BY <1>1

\* A handler that has loaded item i and changes columns of it
LEMMA EditCall ==
  ASSUME Typed, NEW r \in Requests, NEW i \in DOMAIN items, NEW new \in Item, NEW op,
         new.owner = items[i].owner, Edit(r, i, op, new),
         op = "reopen" \/ (op = "edit" /\ new.resolved \in {items[i].resolved, TRUE})
  PROVE  \E c : Begin(r, c) /\ CallOf(c, Len(items)) /\ c.op \in {"edit", "reopen"}
<1>1. PICK changed : changed = Changed(items[i], new)
  OBVIOUS
<1>2. items[i] \in Item /\ i \in 1 .. Len(items)
  BY ItemRows
<1>3. /\ ItemColumns(changed)
      /\ "resolved" \in DOMAIN changed =>
           changed["resolved"] = new.resolved /\ items[i].resolved # new.resolved
  BY <1>1, <1>2, ChangedItem
<1> DEFINE c == [op |-> op, item |-> i, changed |-> changed]
<1>4. Begin(r, c)
  BY <1>1 DEF Edit
<1>5. c.op = op /\ c.item = i /\ c.changed = changed
  OBVIOUS
<1> HIDE DEF c
<1>6. op = "edit" => ("resolved" \in DOMAIN changed => changed["resolved"])
  BY <1>3
<1>7. CallOf(c, Len(items))
  BY <1>2, <1>3, <1>5, <1>6 DEF CallOf
<1> QED BY <1>4, <1>5, <1>7

\* What a submission begins with: an item within the limit, or the reopening
\* of an event's item
LEMMA SubmitCall ==
  ASSUME Typed, NEW r \in Requests,
         (\E u \in Users : Submit(r, u)) \/ (\E kind \in EventKinds : SubmitEvent(r, kind))
  PROVE  /\ UNCHANGED <<items, hidden>>
         /\ \E c : /\ Begin(r, c) /\ CallOf(c, Len(items))
                   /\ c.op \in {"insert", "edit", "reopen"}
                   /\ c.op = "insert" /\ c.new.owner # Admin =>
                        Cardinality(SubmittedToday(c.new.owner)) < MaxDaily
<1> DEFINE Goal == \E c : /\ Begin(r, c) /\ CallOf(c, Len(items))
                          /\ c.op \in {"insert", "edit", "reopen"}
                          /\ c.op = "insert" /\ c.new.owner # Admin =>
                               Cardinality(SubmittedToday(c.new.owner)) < MaxDaily
<1>1. UNCHANGED <<items, hidden>>
  BY DEF Submit, SubmitEvent, Edit
<1>2. ASSUME NEW u \in Users, NEW kind \in Kinds
      PROVE  NewItem(u, kind) \in Item /\ NewItem(u, kind).owner = u
  BY DEF NewItem, Item, Statuses
<1>3. ASSUME NEW u \in Users, NEW kind \in Kinds,
             Begin(r, [op |-> "insert", new |-> NewItem(u, kind)]),
             u # Admin => Cardinality(SubmittedToday(u)) < MaxDaily
      PROVE  Goal
  <2>1. PICK new : new = NewItem(u, kind)
    OBVIOUS
  <2> DEFINE c == [op |-> "insert", new |-> new]
  <2>2. Begin(r, c) /\ new \in Item /\ new.owner = u
    BY <1>2, <1>3, <2>1
  <2>3. CallOf(c, Len(items)) /\ c.op = "insert" /\ c.new.owner = u
    BY <2>2 DEF CallOf
  <2> QED BY <1>3, <2>2, <2>3
<1>4. ASSUME NEW u \in Users, Submit(r, u) PROVE Goal
  BY <1>3, <1>4 DEF Submit, Kinds
<1>5. ASSUME NEW kind \in EventKinds, SubmitEvent(r, kind) PROVE Goal
  <2> DEFINE same == {i \in SubmittedToday(Admin) : items[i].kind = kind}
             old == items[Max(same)]
             reopened == IF old.resolved THEN [old EXCEPT !.status = "OPEN", !.resolved = FALSE]
                                         ELSE old
  <2>1. CASE same = {}
    BY <1>3, <1>5, <2>1, InboxConstants DEF SubmitEvent, Kinds
  <2>2. CASE same # {}
    <3>1. Edit(r, Max(same), "reopen", reopened)
      BY <1>5, <2>2 DEF SubmitEvent
    <3>2. Max(same) \in DOMAIN items /\ Max(same) \in same
      <4>1. same \subseteq 1 .. Len(items) /\ Len(items) \in Nat /\ same \subseteq DOMAIN items
        BY ItemRows DEF SubmittedToday
      <4> HIDE DEF same
      <4>2. same \in SUBSET Nat /\ \A i \in same : i <= Len(items)
        BY <4>1
      <4> QED BY <2>2, <4>1, <4>2, MaxIs
    <3>3. old \in Item
      BY <3>2, ItemRows
    <3> HIDE DEF old, same
    <3>4. reopened \in Item /\ reopened.owner = old.owner
      BY <3>3 DEF Item, Statuses
    <3> HIDE DEF reopened
    <3> USE DEF old
    <3>5. \E c : Begin(r, c) /\ CallOf(c, Len(items)) /\ c.op \in {"edit", "reopen"}
      BY <3>1, <3>2, <3>4, EditCall
    <3> QED BY <3>5
  <2> QED BY <2>1, <2>2
<1> QED BY <1>1, <1>4, <1>5

\* What the administrator's handlers begin with
LEMMA AdminCall ==
  ASSUME Typed, NEW r \in Requests, NEW i \in DOMAIN items,
         \/ \E close \in BOOLEAN : Reply(r, i, close)
         \/ Close(r, i) \/ Acknowledge(r, i)
         \/ \E kind \in Kinds, target \in Targets : Classify(r, i, kind, target)
  PROVE  /\ UNCHANGED <<items, hidden>>
         /\ \E c : Begin(r, c) /\ CallOf(c, Len(items)) /\ c.op \in {"edit", "reopen"}
<1> DEFINE Goal == \E c : Begin(r, c) /\ CallOf(c, Len(items)) /\ c.op \in {"edit", "reopen"}
<1>1. UNCHANGED <<items, hidden>>
  BY DEF Reply, Close, Acknowledge, Classify, Edit
<1>2. items[i] \in Item
  BY ItemRows
<1>3. ASSUME NEW row \in Item
      PROVE  Resolved(row) \in Item /\ Resolved(row).owner = row.owner /\ Resolved(row).resolved = TRUE
  BY DEF Resolved, Item, Statuses
<1>4. ASSUME NEW close \in BOOLEAN, Reply(r, i, close) PROVE Goal
  <2> DEFINE replied == [items[i] EXCEPT !.replied = TRUE, !.seen = FALSE]
             progress == [replied EXCEPT !.status = "IN_PROGRESS"]
  <2>1. /\ replied \in Item /\ replied.owner = items[i].owner /\ replied.resolved = items[i].resolved
        /\ progress \in Item /\ progress.owner = items[i].owner /\ progress.resolved = items[i].resolved
    BY <1>2 DEF Item, Statuses
  <2>2. Edit(r, i, "edit", Resolved(replied)) \/ Edit(r, i, "edit", progress)
    BY <1>4 DEF Reply
  <2> HIDE DEF replied, progress
  <2>3. /\ Resolved(replied) \in Item /\ Resolved(replied).owner = items[i].owner
        /\ Resolved(replied).resolved = TRUE
    BY <1>3, <2>1
  <2>4. CASE Edit(r, i, "edit", Resolved(replied))
    BY <2>3, <2>4, EditCall
  <2>5. CASE Edit(r, i, "edit", progress)
    BY <2>1, <2>5, EditCall
  <2> QED BY <2>2, <2>4, <2>5
<1>5. CASE Close(r, i)
  BY <1>1, <1>2, <1>3, <1>5, EditCall DEF Close
<1>6. CASE Acknowledge(r, i)
  <2> DEFINE new == [items[i] EXCEPT !.status = "ACKED"]
  <2>1. new \in Item /\ new.owner = items[i].owner /\ new.resolved = items[i].resolved
    BY <1>2 DEF Item, Statuses
  <2>2. Edit(r, i, "edit", new)
    BY <1>6 DEF Acknowledge
  <2> HIDE DEF new
  <2> QED BY <1>1, <2>1, <2>2, EditCall
<1>7. ASSUME NEW kind \in Kinds, NEW target \in Targets, Classify(r, i, kind, target) PROVE Goal
  <2> DEFINE item == [items[i] EXCEPT !.kind = kind]
             other == [item EXCEPT !.resolved = FALSE, !.status = target]
  <2>1. item \in Item /\ item.owner = items[i].owner
    BY <1>2 DEF Item
  <2>2. target \notin {"KEEP", "RESOLVED"} => target \in Statuses
    BY FeedbackConstants DEF Statuses
  <2>3. /\ target = "KEEP" => Edit(r, i, "reopen", item)
        /\ target = "RESOLVED" => Edit(r, i, "reopen", Resolved(item))
        /\ target \notin {"KEEP", "RESOLVED"} => Edit(r, i, "reopen", other)
    BY <1>7 DEF Classify
  <2> HIDE DEF item
  <2>4. target \in Statuses => other \in Item /\ other.owner = items[i].owner
    BY <2>1 DEF Item
  <2>5. Resolved(item) \in Item /\ Resolved(item).owner = items[i].owner
    BY <1>3, <2>1
  <2> HIDE DEF other
  <2>6. CASE target = "KEEP"
    BY <2>1, <2>3, <2>6, EditCall
  <2>7. CASE target = "RESOLVED"
    BY <2>3, <2>5, <2>7, EditCall
  <2>8. CASE target \notin {"KEEP", "RESOLVED"}
    BY <2>2, <2>3, <2>4, <2>8, EditCall
  <2> QED BY <2>6, <2>7, <2>8
<1> QED BY <1>1, <1>4, <1>5, <1>6, <1>7

\* What a request holds when it commits
LEMMA CommitCall ==
  ASSUME Typed, NEW r \in Requests
  PROVE  /\ CallOf(call[r], Len(items))
         /\ Doing(r, "insert") => call[r].new \in Item
         /\ call[r].op \in {"edit", "reopen"} =>
              call[r].item \in DOMAIN items /\ ItemColumns(call[r].changed)
         /\ Doing(r, "edit") =>
              ("resolved" \in DOMAIN call[r].changed => call[r].changed["resolved"])
BY ItemRows DEF Typed, CallOf, Doing

\* An insert adds a row and leaves the others alone.
LEMMA InsertedRow ==
  ASSUME Typed, NEW r \in Requests, CommitInsert(r)
  PROVE  /\ items' \in Seq(Item) /\ Len(items') = Len(items) + 1 /\ Len(items') <= MaxItems
         /\ \A i \in DOMAIN items : items'[i] = items[i]
         /\ DOMAIN items' = DOMAIN items \cup {Len(items) + 1}
         /\ Len(items) + 1 \notin DOMAIN items
         /\ items'[Len(items) + 1] = call[r].new
<1>1. PICK new : new = call[r].new
  OBVIOUS
<1>2. /\ new \in Item /\ items' = Append(items, new) /\ Len(items) < MaxItems
      /\ items \in Seq(Item) /\ Len(items) \in Nat /\ MaxItems \in Nat
  BY <1>1, CommitCall, ItemRows, FeedbackConstants DEF CommitInsert
<1> QED BY <1>1, <1>2

\* An edit writes columns of one row, a mark marks rows: no row gets another
\* owner, and only a reopening undoes a resolution, of its item.
LEMMA EditedRows ==
  ASSUME Typed, NEW r \in Requests, CommitEdit(r) \/ CommitMark(r)
  PROVE  /\ items' \in Seq(Item) /\ Len(items') = Len(items) /\ DOMAIN items' = DOMAIN items
         /\ \A i \in DOMAIN items :
              /\ items'[i].owner = items[i].owner
              /\ items[i].resolved /\ ~items'[i].resolved =>
                   Doing(r, "reopen") /\ call[r].item = i
<1>1. /\ items \in Seq(Item) /\ Len(items) \in Nat /\ DOMAIN items = 1 .. Len(items)
      /\ \A i \in DOMAIN items : items[i] \in Item
  BY ItemRows
<1>2. CASE CommitEdit(r)
  <2>1. PICK j : j = call[r].item
    OBVIOUS
  <2>2. PICK changed : changed = call[r].changed
    OBVIOUS
  <2> DEFINE row == Written(items[j], changed)
  <2>3. /\ j \in DOMAIN items /\ ItemColumns(changed)
        /\ Doing(r, "edit") => ("resolved" \in DOMAIN changed => changed["resolved"])
        /\ Doing(r, "edit") \/ Doing(r, "reopen")
        /\ items' = [items EXCEPT ![j] = row]
    BY <1>2, <2>1, <2>2, CommitCall DEF CommitEdit, Doing
  <2>4. /\ row \in Item /\ row.owner = items[j].owner
        /\ row.resolved = IF "resolved" \in DOMAIN changed THEN changed["resolved"] ELSE items[j].resolved
    BY <1>1, <2>3, WrittenItem
  <2> HIDE DEF row
  <2>5. /\ items' \in Seq(Item) /\ Len(items') = Len(items) /\ DOMAIN items' = DOMAIN items
        /\ items'[j] = row /\ \A i \in DOMAIN items \ {j} : items'[i] = items[i]
    BY <1>1, <2>3, <2>4
  <2>6. items[j].resolved /\ ~row.resolved => Doing(r, "reopen")
    BY <2>3, <2>4
  <2>7. ASSUME NEW i \in DOMAIN items
        PROVE  /\ items'[i].owner = items[i].owner
               /\ items[i].resolved /\ ~items'[i].resolved =>
                    Doing(r, "reopen") /\ call[r].item = i
    <3>1. CASE i = j
      BY <2>1, <2>4, <2>5, <2>6, <3>1
    <3>2. CASE i # j
      BY <2>5, <3>2
    <3> QED BY <3>1, <3>2
  <2> QED BY <2>5, <2>7
<1>3. CASE CommitMark(r)
  <2>1. PICK ids : ids = call[r].ids
    OBVIOUS
  <2>2. items' = [i \in DOMAIN items |-> IF i \in ids THEN [items[i] EXCEPT !.seen = TRUE] ELSE items[i]]
    BY <1>3, <2>1 DEF CommitMark
  <2>3. ASSUME NEW i \in DOMAIN items
        PROVE  /\ items'[i] \in Item /\ items'[i].owner = items[i].owner
               /\ items'[i].resolved = items[i].resolved
    <3>1. items[i] \in Item
      BY <1>1
    <3> QED BY <2>2, <3>1 DEF Item
  <2>4. items' \in [1 .. Len(items) -> Item] /\ DOMAIN items' = DOMAIN items
    BY <1>1, <2>2, <2>3
  <2>5. items' \in Seq(Item) /\ Len(items') = Len(items)
    BY <1>1, <2>4
  <2> QED BY <2>3, <2>4, <2>5
<1> QED BY <1>2, <1>3

\* Every step keeps the types.
LEMMA TypedStep == Typed /\ [Next]_vars => Typed'
<1> SUFFICES ASSUME Typed, [Next]_vars PROVE Typed'
  OBVIOUS
<1> USE DEF TypeOK
<1>r. Len(items) \in Nat
  BY ItemRows
<1>1. ASSUME UNCHANGED <<items, hidden>>, NEW r \in Requests, NEW c, CallOf(c, Len(items)),
             call' = [call EXCEPT ![r] = c]
      PROVE  Typed'
  <2>1. items' = items /\ hidden' = hidden
    BY <1>1
  <2>2. /\ call' = [q \in Requests |-> call'[q]]
        /\ \A q \in Requests : CallOf(call'[q], Len(items'))
    <3>1. Len(items') = Len(items) /\ Len(items') \in Nat /\ Len(items) <= Len(items')
      BY <1>r, <2>1
    <3>2. CallOf(c, Len(items'))
      BY <1>1, <3>1
    <3> QED BY <1>1, <1>r, <3>1, <3>2, CallsStep
  <2> QED BY <2>1, <2>2 DEF Typed
<1>2. CASE SubmitStep
  <2>1. PICK r \in Requests : (\E u \in Users : Submit(r, u)) \/ (\E kind \in EventKinds : SubmitEvent(r, kind))
    BY <1>2 DEF SubmitStep
  <2>2. PICK c : Begin(r, c) /\ CallOf(c, Len(items))
    BY <2>1, SubmitCall
  <2>3. UNCHANGED <<items, hidden>>
    BY <2>1, SubmitCall
  <2> QED BY <1>1, <2>2, <2>3 DEF Begin
<1>3. CASE AdminStep
  <2>1. PICK r \in Requests, i \in DOMAIN items :
          \/ \E close \in BOOLEAN : Reply(r, i, close)
          \/ Close(r, i) \/ Acknowledge(r, i)
          \/ \E kind \in Kinds, target \in Targets : Classify(r, i, kind, target)
    BY <1>3 DEF AdminStep
  <2>2. PICK c : Begin(r, c) /\ CallOf(c, Len(items))
    BY <2>1, AdminCall
  <2>3. UNCHANGED <<items, hidden>>
    BY <2>1, AdminCall
  <2> QED BY <1>1, <2>2, <2>3 DEF Begin
<1>4. ASSUME NEW r \in Requests, CommitFeedback(r) PROVE Typed'
  <2>1. items' \in Seq(Item) /\ Len(items') \in Nat /\ Len(items) <= Len(items') /\ Len(items') <= MaxItems
    <3>1. CASE CommitInsert(r)
      BY <1>r, <3>1, InsertedRow
    <3>2. CASE CommitEdit(r) \/ CommitMark(r)
      BY <1>r, <3>2, EditedRows DEF Typed
    <3> QED BY <1>4, <3>1, <3>2 DEF CommitFeedback
  <2>2. hidden' = hidden /\ call' = [call EXCEPT ![r] = NoCall]
    BY <1>4 DEF CommitFeedback, CommitInsert, CommitEdit, CommitMark, Return
  <2>3. /\ call' = [q \in Requests |-> call'[q]]
        /\ \A q \in Requests : CallOf(call'[q], Len(items'))
    BY <1>r, <2>1, <2>2, CallsStep, NoCallOf
  <2> QED BY <2>1, <2>2, <2>3 DEF Typed
<1>5. ASSUME NEW r \in Requests, FailFeedback(r) PROVE Typed'
  BY <1>1, <1>5, NoCallOf DEF FailFeedback, Return
<1>6. ASSUME NEW r \in Requests, NEW u \in Users, MarkSeen(r, u) PROVE Typed'
  <2>1. PICK ids : ids = UnreadReplies(u)
    OBVIOUS
  <2> DEFINE c == [op |-> "mark", ids |-> ids]
  <2>2. Begin(r, c) /\ UNCHANGED <<items, hidden>>
    BY <1>6, <2>1 DEF MarkSeen
  <2>3. CallOf(c, Len(items))
    BY DEF CallOf
  <2> QED BY <1>1, <2>2, <2>3 DEF Begin
<1>7. ASSUME NEW r \in Requests, NEW u \in Users, NEW i \in DOMAIN items, HideFeedback(r, u, i)
      PROVE  Typed'
  <2>1. i \in 1 .. MaxItems
    BY <1>r, ItemRows, FeedbackConstants DEF Typed
  <2>2. hidden' = hidden \cup {<<u, "FEEDBACK", i>>} /\ items' = items /\ call' = call
    BY <1>7 DEF HideFeedback, HideMessage
  <2> QED BY <2>1, <2>2 DEF Typed
<1>8. CASE UNCHANGED vars
  BY <1>8 DEF Typed, vars
<1> QED BY <1>2, <1>3, <1>4, <1>5, <1>6, <1>7, <1>8 DEF Next

-----------------------------------------------------------------------------
(***************************************************************************)
(* The daily limit.                                                        *)
(***************************************************************************)
Pending(u) == {r \in Requests : Doing(r, "insert") /\ call[r].new.owner = u}

\* What users have submitted and what their requests are about to insert:
\* whoever begins was within the limit, and each thread holds one item.
WithinLimit ==
  \A u \in Users \ {Admin} :
    Cardinality(SubmittedToday(u)) + Cardinality(Pending(u)) < MaxDaily + Cardinality(Requests)

\* Submitted items and pending ones are finitely many, and of the pending
\* ones there is at most one per thread.
LEMMA CountsFinite ==
  ASSUME Typed, NEW u
  PROVE  /\ IsFiniteSet(SubmittedToday(u)) /\ Cardinality(SubmittedToday(u)) \in Nat
         /\ IsFiniteSet(Pending(u)) /\ Cardinality(Pending(u)) \in Nat
         /\ Cardinality(Pending(u)) <= Cardinality(Requests) /\ Cardinality(Requests) \in Nat
<1>1. SubmittedToday(u) \subseteq 1 .. Len(items) /\ IsFiniteSet(1 .. Len(items))
  BY ItemRows, FS_Interval DEF SubmittedToday
<1>2. Pending(u) \subseteq Requests /\ IsFiniteSet(Requests)
  BY InboxConstants DEF Pending
<1> QED BY <1>1, <1>2, FS_Subset, FS_CardinalityType

\* A step that adds neither items of u nor requests that are about to
LEMMA LimitStays ==
  ASSUME Typed, Typed', WithinLimit, NEW u \in Users \ {Admin},
         SubmittedToday(u)' \subseteq SubmittedToday(u), Pending(u)' \subseteq Pending(u)
  PROVE  Cardinality(SubmittedToday(u)') + Cardinality(Pending(u)') < MaxDaily + Cardinality(Requests)
<1>1. /\ Cardinality(SubmittedToday(u)') <= Cardinality(SubmittedToday(u))
      /\ Cardinality(Pending(u)') <= Cardinality(Pending(u))
      /\ Cardinality(SubmittedToday(u)') \in Nat /\ Cardinality(Pending(u)') \in Nat
  BY CountsFinite, FS_Subset, FS_CardinalityType
<1>2. /\ Cardinality(SubmittedToday(u)) \in Nat /\ Cardinality(Pending(u)) \in Nat
      /\ Cardinality(Requests) \in Nat /\ MaxDaily \in Nat
  BY CountsFinite, FeedbackConstants, InboxConstants
<1>3. Cardinality(SubmittedToday(u)) + Cardinality(Pending(u)) < MaxDaily + Cardinality(Requests)
  BY DEF WithinLimit
<1> QED BY <1>1, <1>2, <1>3

\* A request goes on with c, which is no insert, over unchanged rows.
LEMMA LimitReads ==
  ASSUME Typed, Typed', WithinLimit, NEW r \in Requests, NEW c, items' = items,
         call' = [call EXCEPT ![r] = c], c.op # "insert"
  PROVE  WithinLimit'
<1>1. call'[r] = c /\ \A q \in Requests \ {r} : call'[q] = call[q]
  BY DEF Typed
<1>2. ASSUME NEW u \in Users \ {Admin}
      PROVE  SubmittedToday(u)' \subseteq SubmittedToday(u) /\ Pending(u)' \subseteq Pending(u)
  BY <1>1 DEF SubmittedToday, Pending, Doing
<1> QED BY <1>2, LimitStays DEF WithinLimit

\* A request begins with an insert of a user who is within the limit.
LEMMA LimitBegins ==
  ASSUME Typed, Typed', WithinLimit, NEW r \in Requests, NEW c, items' = items, Begin(r, c),
         c.op = "insert",
         c.new.owner # Admin => Cardinality(SubmittedToday(c.new.owner)) < MaxDaily
  PROVE  WithinLimit'
<1>1. call'[r] = c /\ \A q \in Requests \ {r} : call'[q] = call[q]
  BY DEF Typed, Begin
<1>2. ASSUME NEW u \in Users \ {Admin}
      PROVE  Cardinality(SubmittedToday(u)') + Cardinality(Pending(u)') < MaxDaily + Cardinality(Requests)
  <2>1. SubmittedToday(u)' = SubmittedToday(u)
    BY DEF SubmittedToday
  <2>2. CASE u = c.new.owner
    <3>1. Cardinality(Pending(u)') <= Cardinality(Requests) /\ Cardinality(Pending(u)') \in Nat
      <4>1. Pending(u)' \subseteq Requests /\ IsFiniteSet(Requests)
        BY InboxConstants DEF Pending
      <4> QED BY <4>1, FS_Subset, FS_CardinalityType
    <3>2. Cardinality(SubmittedToday(u)) \in Nat /\ MaxDaily \in Nat /\ Cardinality(Requests) \in Nat
      BY CountsFinite, FeedbackConstants, InboxConstants
    <3> QED BY <2>1, <2>2, <3>1, <3>2
  <2>3. CASE u # c.new.owner
    <3>1. Pending(u)' \subseteq Pending(u)
      BY <1>1, <2>3 DEF Pending, Doing
    <3> QED BY <2>1, <3>1, LimitStays
  <2> QED BY <2>2, <2>3
<1> QED BY <1>2 DEF WithinLimit

\* The insert takes the place of the request that was about to insert.
LEMMA LimitInserts ==
  ASSUME Typed, Typed', WithinLimit, NEW r \in Requests, CommitInsert(r)
  PROVE  WithinLimit'
<1> DEFINE new == Len(items) + 1
<1>1. /\ \A i \in DOMAIN items : items'[i] = items[i]
      /\ DOMAIN items' = DOMAIN items \cup {new} /\ new \notin DOMAIN items
      /\ items'[new] = call[r].new
  BY InsertedRow
<1>2. /\ Doing(r, "insert") /\ call'[r] = NoCall
      /\ \A q \in Requests \ {r} : call'[q] = call[q]
  BY DEF CommitInsert, Return, Typed
<1> HIDE DEF new
<1>3. NoCall.op # "insert"
  BY DEF NoCall
<1>4. ASSUME NEW u \in Users \ {Admin}
      PROVE  Cardinality(SubmittedToday(u)') + Cardinality(Pending(u)') < MaxDaily + Cardinality(Requests)
  <2>1. Pending(u)' = Pending(u) \ {r}
    BY <1>2, <1>3 DEF Pending, Doing
  <2>2. CASE u = call[r].new.owner
    <3>1. SubmittedToday(u)' = SubmittedToday(u) \cup {new} /\ new \notin SubmittedToday(u)
      BY <1>1, <2>2 DEF SubmittedToday
    <3>2. r \in Pending(u)
      BY <1>2, <2>2 DEF Pending
    <3>3. /\ Cardinality(SubmittedToday(u)') = Cardinality(SubmittedToday(u)) + 1
          /\ Cardinality(Pending(u)') = Cardinality(Pending(u)) - 1
      <4> DEFINE S == SubmittedToday(u)
                 P == Pending(u)
      <4>1. IsFiniteSet(S) /\ IsFiniteSet(P)
        BY CountsFinite
      <4>2. SubmittedToday(u)' = S \cup {new} /\ new \notin S /\ Pending(u)' = P \ {r} /\ r \in P
        BY <2>1, <3>1, <3>2
      <4> HIDE DEF S, P
      <4>3. Cardinality(S \cup {new}) = Cardinality(S) + 1
        BY <4>1, <4>2, FS_AddElement
      <4>4. Cardinality(P \ {r}) = Cardinality(P) - 1
        BY <4>1, <4>2, FS_RemoveElement
      <4>5. /\ Cardinality(SubmittedToday(u)') = Cardinality(S) + 1
            /\ Cardinality(Pending(u)') = Cardinality(P) - 1
        BY <4>2, <4>3, <4>4
      <4> QED BY <4>5 DEF S, P
    <3>4. /\ Cardinality(SubmittedToday(u)) \in Nat /\ Cardinality(Pending(u)) \in Nat
          /\ Cardinality(SubmittedToday(u)) + Cardinality(Pending(u)) < MaxDaily + Cardinality(Requests)
      BY CountsFinite DEF WithinLimit
    <3> QED BY <3>3, <3>4
  <2>3. CASE u # call[r].new.owner
    <3>1. SubmittedToday(u)' = SubmittedToday(u)
      BY <1>1, <2>3 DEF SubmittedToday
    <3> QED BY <2>1, <3>1, LimitStays
  <2> QED BY <2>2, <2>3
<1> QED BY <1>4 DEF WithinLimit

\* Every step keeps users within the limit and what it may be exceeded by.
LEMMA LimitStep == Typed /\ WithinLimit /\ [Next]_vars => WithinLimit'
<1> SUFFICES ASSUME Typed, WithinLimit, [Next]_vars PROVE WithinLimit'
  OBVIOUS
<1>t. Typed'
  BY TypedStep
<1>1. CASE SubmitStep
  <2>1. PICK r \in Requests : (\E u \in Users : Submit(r, u)) \/ (\E kind \in EventKinds : SubmitEvent(r, kind))
    BY <1>1 DEF SubmitStep
  <2>2. PICK c : /\ Begin(r, c)
                 /\ c.op = "insert" /\ c.new.owner # Admin =>
                      Cardinality(SubmittedToday(c.new.owner)) < MaxDaily
    BY <2>1, SubmitCall
  <2>3. items' = items
    BY <2>1, SubmitCall
  <2>4. CASE c.op = "insert"
    BY <1>t, <2>2, <2>3, <2>4, LimitBegins
  <2>5. CASE c.op # "insert"
    BY <1>t, <2>2, <2>3, <2>5, LimitReads DEF Begin
  <2> QED BY <2>4, <2>5
<1>2. CASE AdminStep
  <2>1. PICK r \in Requests, i \in DOMAIN items :
          \/ \E close \in BOOLEAN : Reply(r, i, close)
          \/ Close(r, i) \/ Acknowledge(r, i)
          \/ \E kind \in Kinds, target \in Targets : Classify(r, i, kind, target)
    BY <1>2 DEF AdminStep
  <2>2. PICK c : Begin(r, c) /\ c.op \in {"edit", "reopen"}
    BY <2>1, AdminCall
  <2>3. items' = items
    BY <2>1, AdminCall
  <2> QED BY <1>t, <2>2, <2>3, LimitReads DEF Begin
<1>3. ASSUME NEW r \in Requests, CommitInsert(r) PROVE WithinLimit'
  BY <1>t, <1>3, LimitInserts
<1>4. ASSUME NEW r \in Requests, CommitEdit(r) \/ CommitMark(r) PROVE WithinLimit'
  <2>1. /\ call'[r] = NoCall /\ \A q \in Requests \ {r} : call'[q] = call[q]
        /\ NoCall.op # "insert"
    BY <1>4 DEF CommitEdit, CommitMark, Return, Typed, NoCall
  <2>2. DOMAIN items' = DOMAIN items /\ \A i \in DOMAIN items : items'[i].owner = items[i].owner
    BY <1>4, EditedRows
  <2>3. ASSUME NEW u \in Users \ {Admin}
        PROVE  SubmittedToday(u)' \subseteq SubmittedToday(u) /\ Pending(u)' \subseteq Pending(u)
    BY <2>1, <2>2 DEF SubmittedToday, Pending, Doing
  <2> QED BY <1>t, <2>3, LimitStays DEF WithinLimit
<1>5. ASSUME NEW r \in Requests, FailFeedback(r) PROVE WithinLimit'
  <2>1. items' = items /\ call' = [call EXCEPT ![r] = NoCall] /\ NoCall.op # "insert"
    BY <1>5 DEF FailFeedback, Return, NoCall
  <2> QED BY <1>t, <2>1, LimitReads
<1>6. ASSUME NEW r \in Requests, NEW u \in Users, MarkSeen(r, u) PROVE WithinLimit'
  <2>1. \E c : Begin(r, c) /\ c.op # "insert"
    BY <1>6 DEF MarkSeen
  <2> QED BY <1>t, <1>6, <2>1, LimitReads DEF MarkSeen, Begin
<1>7. CASE UNCHANGED <<items, call>>
  BY <1>7 DEF WithinLimit, SubmittedToday, Pending, Doing
<1>8. ASSUME NEW r \in Requests, NEW u \in Users, NEW i \in DOMAIN items, HideFeedback(r, u, i)
      PROVE  WithinLimit'
  BY <1>7, <1>8 DEF HideFeedback, HideMessage
<1> QED BY <1>1, <1>2, <1>3, <1>4, <1>5, <1>6, <1>7, <1>8 DEF Next, CommitFeedback, vars

-----------------------------------------------------------------------------
(***************************************************************************)
(* The theorems.                                                           *)
(***************************************************************************)
Sound == Typed /\ WithinLimit

\* A table without feedback is sound.
LEMMA InitSound == Init => Sound
<1> SUFFICES ASSUME Init PROVE Sound
  OBVIOUS
<1>1. items = <<>> /\ Len(items) = 0 /\ DOMAIN items = {} /\ items \in Seq(Item) /\ hidden = {}
  BY DEF Init
<1>2. \A r \in Requests : call[r] = NoCall
  BY DEF Init
<1>3. Typed
  BY <1>1, <1>2, NoCallOf, FeedbackConstants DEF Init, Typed, TypeOK
<1>4. ASSUME NEW u PROVE SubmittedToday(u) = {} /\ Pending(u) = {}
  BY <1>1, <1>2 DEF SubmittedToday, Pending, Doing, NoCall
<1>5. WithinLimit
  <2>1. Cardinality({}) = 0 /\ Cardinality(Requests) \in Nat /\ MaxDaily \in Nat \ {0}
    BY FS_EmptySet, FS_CardinalityType, FeedbackConstants, InboxConstants
  <2> QED BY <1>4, <2>1 DEF WithinLimit
<1> QED BY <1>3, <1>5 DEF Sound

\* Types and the account of the daily limit hold throughout: the inductive
\* invariant of every handler of feedback.
THEOREM FeedbackSound == Spec => []Sound
<1>1. Sound /\ [Next]_vars => Sound'
  BY TypedStep, LimitStep DEF Sound
<1> QED BY <1>1, InitSound, PTL DEF Spec

\* submit_feedback: however many requests of a user count before the others
\* insert, the daily limit is exceeded by less than the number of threads.
THEOREM LimitOvershootIsBounded == Spec => []DailyLimitOvershoot
<1>1. Sound => DailyLimitOvershoot
  <2> SUFFICES ASSUME Sound, NEW u \in Users \ {Admin}
               PROVE  Cardinality(SubmittedToday(u)) < MaxDaily + Cardinality(Requests)
    BY DEF DailyLimitOvershoot
  <2>1. /\ Cardinality(SubmittedToday(u)) \in Nat /\ Cardinality(Pending(u)) \in Nat
        /\ Cardinality(Requests) \in Nat /\ MaxDaily \in Nat
    BY CountsFinite, FeedbackConstants, InboxConstants DEF Sound
  <2> QED BY <2>1 DEF Sound, WithinLimit
<1> QED BY <1>1, FeedbackSound, PTL

\* _derive_feedback_status: an item reads as resolved exactly when it has a
\* time of resolution, whatever status the handlers left in the row.
LEMMA DerivedResolved ==
  ASSUME NEW item \in Item
  PROVE  /\ DerivedStatus(item) = "RESOLVED" <=> item.resolved
         /\ DerivedStatus(item) \in Statuses
<1>1. item.status \in Statuses /\ item.resolved \in BOOLEAN
  BY DEF Item
<1> QED BY <1>1 DEF DerivedStatus, Statuses

\* get_feedback_summary: the administrator's badge counts what the two lists
\* show as not resolved, and a user's badge counts listed items only.
THEOREM BadgeIsTrue == Spec => []BadgeMatchesLists
<1>1. Sound => BadgeMatchesLists
  <2> SUFFICES ASSUME Sound PROVE BadgeMatchesLists
    OBVIOUS
  <2> DEFINE open == Statuses \ {"RESOLVED"}
             S == ListedForAdmin(TRUE, open)
             U == ListedForAdmin(FALSE, open)
             B == {i \in DOMAIN items : ~items[i].resolved /\ i \notin HiddenIds(Admin, "FEEDBACK")}
  <2>1. \A i \in DOMAIN items : DerivedStatus(items[i]) \in open <=> ~items[i].resolved
    BY ItemRows, DerivedResolved DEF Sound
  <2>2. \A i \in DOMAIN items : IsSystem(items[i]) \in BOOLEAN
    BY DEF IsSystem
  <2> HIDE DEF open
  <2>3. B = S \cup U /\ S \cap U = {}
    BY <2>1, <2>2 DEF ListedForAdmin
  <2>4. IsFiniteSet(S) /\ IsFiniteSet(U)
    <3>1. IsFiniteSet(DOMAIN items)
      BY ItemRows, FS_Interval DEF Sound
    <3>2. S \subseteq DOMAIN items /\ U \subseteq DOMAIN items
      BY DEF ListedForAdmin
    <3> QED BY <3>1, <3>2, FS_Subset
  <2>5. Cardinality(B) = Cardinality(S) + Cardinality(U)
    <3> HIDE DEF S, U, B
    <3>1. Cardinality(B) = Cardinality(S) + Cardinality(U) - Cardinality(S \cap U)
      BY <2>3, <2>4, FS_Union
    <3>2. Cardinality(S \cap U) = 0 /\ Cardinality(S) \in Nat /\ Cardinality(U) \in Nat
      BY <2>3, <2>4, FS_EmptySet, FS_CardinalityType
    <3> QED BY <3>1, <3>2
  <2>6. FeedbackCount(Admin) = Cardinality(B)
    BY DEF FeedbackCount
  <2>7. \A u \in Users \ {Admin} : UnreadReplies(u) \subseteq ListedForUser(u)
    BY DEF UnreadReplies, ListedForUser
  <2> QED BY <2>5, <2>6, <2>7 DEF BadgeMatchesLists, open
<1> QED BY <1>1, FeedbackSound, PTL

\* A reply or an acknowledgement that read an item before it was closed does
\* not undo the close: only a classification or the event's return does.
THEOREM ResolutionsStay == Spec => ResolvedUntilReopened
<1> DEFINE Stay == \A i \in DOMAIN items :
                     /\ DerivedStatus(items[i]) = "RESOLVED"
                     /\ DerivedStatus(items'[i]) # "RESOLVED"
                     => \E r \in Requests : /\ Doing(r, "reopen") /\ call[r].item = i
                                            /\ call'[r] = NoCall
<1>1. ASSUME Sound, Next PROVE Stay
  <2>1. Typed /\ \A i \in DOMAIN items : items[i] \in Item
    BY <1>1, ItemRows DEF Sound
  <2>2. CASE items' = items
    BY <2>2
  <2>3. ASSUME NEW r \in Requests, CommitInsert(r) PROVE Stay
    <3>1. \A i \in DOMAIN items : items'[i] = items[i]
      BY <2>1, <2>3, InsertedRow
    <3> QED BY <3>1
  <2>4. ASSUME NEW r \in Requests, CommitEdit(r) \/ CommitMark(r) PROVE Stay
    <3>1. /\ items' \in Seq(Item) /\ DOMAIN items' = DOMAIN items
          /\ \A i \in DOMAIN items : items[i].resolved /\ ~items'[i].resolved =>
               Doing(r, "reopen") /\ call[r].item = i
      BY <2>1, <2>4, EditedRows
    <3>2. \A i \in DOMAIN items : items'[i] \in Item
      BY <3>1
    <3>3. \A i \in DOMAIN items :
            /\ DerivedStatus(items[i]) = "RESOLVED" <=> items[i].resolved
            /\ DerivedStatus(items'[i]) = "RESOLVED" <=> items'[i].resolved
      BY <2>1, <3>2, DerivedResolved
    <3>4. call'[r] = NoCall
      BY <2>1, <2>4 DEF CommitEdit, CommitMark, Return, Typed
    <3> QED BY <3>1, <3>3, <3>4
  <2>5. CASE SubmitStep
    BY <2>1, <2>2, <2>5, SubmitCall DEF SubmitStep
  <2>6. CASE AdminStep
    BY <2>1, <2>2, <2>6, AdminCall DEF AdminStep
  <2>7. ASSUME NEW r \in Requests,
               \/ FailFeedback(r) \/ \E u \in Users : MarkSeen(r, u)
               \/ \E u \in Users, i \in DOMAIN items : HideFeedback(r, u, i)
        PROVE  Stay
    BY <2>2, <2>7 DEF FailFeedback, MarkSeen, HideFeedback
  <2> QED BY <1>1, <2>3, <2>4, <2>5, <2>6, <2>7 DEF Next, CommitFeedback
<1>2. Sound /\ [Next]_vars => [Stay]_vars
  BY <1>1
<1> QED BY <1>2, FeedbackSound, PTL DEF Spec, ResolvedUntilReopened

-----------------------------------------------------------------------------
(***************************************************************************)
(* Release notes: what the tables hold, and what a request holds between   *)
(* its read and its commit.  N is the notes, P those that are published:   *)
(* both only grow, so what a request has read of them stays true.          *)
(***************************************************************************)
MessageOf(P) == [user : Users, note : P, at : Nat, seen : BOOLEAN]
Messages(rows, P) == \A d \in DOMAIN rows : d \in Nat /\ rows[d] \in MessageOf(P)

NoteCallOf(c, N, P) ==
  /\ c.op = "draft" => c.version \in Versions
  /\ c.op \in {"check", "publish"} => c.note \in N
  /\ c.op \in {"sync", "ensure", "deliver"} => c.note \in P /\ c.at \in Nat
  /\ c.op \in {"sync", "deliver"} => c.reset \in BOOLEAN
  /\ c.op = "ensure" => c.user \in Users
  /\ c.op = "deliver" => c.users \subseteq Users /\ Messages(c.rows, P)

NoteRow == [version : Versions, published : Nat]
Drafts == {r \in Requests : Doing(r, "draft")}

\* The ids that something refers to have an upper bound.
Below(d, n) == d \in Nat /\ d <= n
IdsBelow(n) ==
  /\ \A d \in DOMAIN deliveries : Below(d, n)
  /\ \A m \in hidden : Below(m[3], n)
  /\ \A r \in Requests : Doing(r, "deliver") => \A d \in DOMAIN call[r].rows : Below(d, n)

NotesTyped ==
  /\ notes \in Seq(NoteRow)
  /\ Len(notes) + Cardinality(Drafts) <= MaxNotes
  /\ sends \in 0 .. MaxSends
  /\ Messages(deliveries, Published)
  /\ call = [r \in Requests |-> call[r]]
  /\ \A r \in Requests : NoteCallOf(call[r], DOMAIN notes, Published)
  /\ \E n \in Nat : IdsBelow(n)

-----------------------------------------------------------------------------
(***************************************************************************)
(* The choices that the handlers make exist.                               *)
(***************************************************************************)
\* The rows of the notes
LEMMA NoteRows ==
  ASSUME notes \in Seq(NoteRow)
  PROVE  /\ Len(notes) \in Nat /\ DOMAIN notes = 1 .. Len(notes)
         /\ DOMAIN notes \in SUBSET Int /\ IsFiniteSet(DOMAIN notes)
         /\ \A n \in DOMAIN notes : notes[n].version \in Versions /\ notes[n].published \in Nat
         /\ Published \subseteq DOMAIN notes
<1>1. Len(notes) \in Nat /\ DOMAIN notes = 1 .. Len(notes)
  OBVIOUS
<1>2. \A n \in DOMAIN notes : notes[n] \in NoteRow
  BY <1>1
<1>3. \A n \in DOMAIN notes : notes[n].version \in Versions /\ notes[n].published \in Nat
  BY <1>2 DEF NoteRow
<1>4. IsFiniteSet(1 .. Len(notes)) /\ 1 .. Len(notes) \in SUBSET Int
  BY <1>1, FS_Interval
<1> QED BY <1>1, <1>3, <1>4 DEF Published

\* A publication gets a time later than every other.
LEMMA TimeAdvances ==
  ASSUME notes \in Seq(NoteRow)
  PROVE  NextTime \in Nat /\ NextTime > 0
<1> DEFINE S == {0} \cup {notes[n].published : n \in DOMAIN notes}
           at == [n \in DOMAIN notes |-> notes[n].published]
<1>1. S \in SUBSET Nat /\ 0 \in S
  BY NoteRows
<1>2. \E b \in Nat : \A s \in S : s <= b
  <2>1. CASE DOMAIN notes = {}
    BY <2>1
  <2>2. CASE DOMAIN notes # {}
    <3>1. at \in [DOMAIN notes -> Int] /\ \A n \in DOMAIN notes : at[n] = notes[n].published
      BY NoteRows
    <3> HIDE DEF at
    <3>2. PICK x \in DOMAIN notes : \A y \in DOMAIN notes : at[y] < at[x] \/ (at[y] = at[x] /\ y <= x)
      BY <2>2, <3>1, NoteRows, LatestExists
    <3>3. \A n \in DOMAIN notes : notes[n].published <= notes[x].published
      BY <3>1, <3>2, NoteRows
    <3>4. notes[x].published \in Nat /\ 0 <= notes[x].published
      BY NoteRows
    <3>5. \A s \in S : s <= notes[x].published
      BY <3>3, <3>4
    <3> QED BY <3>4, <3>5
  <2> QED BY <2>1, <2>2
<1> HIDE DEF S
<1>3. Max(S) \in Nat
  BY <1>1, <1>2, MaxIs
<1> QED BY <1>3 DEF NextTime, S

\* The latest published note is published.
LEMMA LatestIs ==
  ASSUME notes \in Seq(NoteRow), Published # {}
  PROVE  Latest \in Published
<1> DEFINE at == [n \in Published |-> notes[n].published]
<1>1. /\ Published \in SUBSET Int /\ at \in [Published -> Int]
      /\ \A n \in Published : at[n] = notes[n].published
  BY NoteRows
<1>2. IsFiniteSet(Published)
  BY NoteRows, FS_Subset
<1> HIDE DEF at
<1>3. \E n \in Published : \A m \in Published : at[m] < at[n] \/ (at[m] = at[n] /\ m <= n)
  BY <1>1, <1>2, LatestExists
<1>4. \E n \in Published :
        \A m \in Published : \/ notes[m].published < notes[n].published
                             \/ notes[m].published = notes[n].published /\ m <= n
  BY <1>1, <1>3
<1> QED BY <1>4 DEF Latest

\* A user's primary message is one of the user's.
LEMMA PrimaryIs ==
  ASSUME NEW P, NEW rows, Messages(rows, P), NEW b \in Nat, \A d \in DOMAIN rows : d <= b,
         NEW u, RowsOf(rows, u) # {}
  PROVE  Primary(rows, u) \in RowsOf(rows, u)
<1> DEFINE S == RowsOf(rows, u)
           at == [d \in S |-> rows[d].at]
<1>1. S \subseteq DOMAIN rows
  BY DEF RowsOf
<1>2. \A d \in S : d \in Nat /\ d <= b /\ rows[d].at \in Nat
  BY <1>1 DEF Messages, MessageOf
<1> HIDE DEF S
<1>3. S \in SUBSET Int /\ IsFiniteSet(S)
  <2>1. S \in SUBSET Nat /\ S \in SUBSET Int /\ \A d \in S : d <= b
    BY <1>2
  <2> QED BY <2>1, FS_BoundedSetOfNaturals
<1>4. at \in [S -> Int] /\ \A d \in S : at[d] = rows[d].at
  BY <1>2
<1> HIDE DEF at
<1>5. \E d \in S : \A e \in S : at[e] < at[d] \/ (at[e] = at[d] /\ e <= d)
  BY <1>3, <1>4, LatestExists DEF S
<1>6. \E d \in S : \A e \in S : rows[e].at < rows[d].at \/ (rows[e].at = rows[d].at /\ e <= d)
  BY <1>4, <1>5
<1> QED BY <1>6 DEF Primary, S

\* The users that lack a message, in some order
LEMMA UsersInOrder ==
  ASSUME NEW S \in SUBSET Users
  PROVE  /\ Cardinality(S) \in Nat
         /\ SetToSeq(S) \in [1 .. Cardinality(S) -> S]
<1>1. IsFiniteSet(S)
  BY InboxConstants, FS_Subset
<1>2. Cardinality(S) \in Nat /\ ExistsBijection(1 .. Cardinality(S), S)
  BY <1>1, FS_CardinalityType
<1>3. \E f \in [1 .. Cardinality(S) -> S] : IsInjective(f)
  BY <1>2 DEF ExistsBijection, Bijection, Injection
<1> QED BY <1>2, <1>3 DEF SetToSeq

\* An id that is new follows every id that a message has or had.
LEMMA LastDeliveryIs ==
  ASSUME NotesTyped
  PROVE  /\ LastDelivery \in Nat
         /\ \A d \in DOMAIN deliveries : d <= LastDelivery
         /\ \A r \in Requests : Doing(r, "deliver") => \A d \in DOMAIN call[r].rows : d <= LastDelivery
<1> DEFINE H == UNION {HiddenIds(u, "RELEASE_NOTE") : u \in Users}
           C == UNION {DOMAIN call[r].rows : r \in {q \in Requests : Doing(q, "deliver")}}
           S == {0} \cup DOMAIN deliveries \cup H \cup C
<1>1. PICK n \in Nat : IdsBelow(n)
  BY DEF NotesTyped
<1>2. \A d \in DOMAIN deliveries : Below(d, n)
  BY <1>1 DEF IdsBelow
<1>3. \A d \in H : Below(d, n)
  BY <1>1 DEF IdsBelow, HiddenIds
<1>4. \A d \in C : Below(d, n)
  BY <1>1 DEF IdsBelow
<1>5. \A r \in Requests : Doing(r, "deliver") => DOMAIN call[r].rows \subseteq C
  OBVIOUS
<1>6. LastDelivery = Max({0} \cup DOMAIN deliveries \cup H \cup C)
  BY DEF LastDelivery
<1> HIDE DEF H, C
<1>7. S \in SUBSET Nat /\ S # {} /\ \A s \in S : s <= n
  BY <1>2, <1>3, <1>4 DEF Below
<1> HIDE DEF S
<1>8. Max(S) \in S /\ \A s \in S : s <= Max(S)
  BY <1>7, MaxIs
<1> QED BY <1>5, <1>6, <1>7, <1>8 DEF S

-----------------------------------------------------------------------------
(***************************************************************************)
(* The types of the release notes, step by step.                           *)
(***************************************************************************)
\* What is published stays so for the messages that name it.
LEMMA MessagesStay ==
  ASSUME NEW P, NEW Q, P \subseteq Q, NEW rows, Messages(rows, P)
  PROVE  Messages(rows, Q)
BY DEF Messages, MessageOf

\* ... and for the requests that have read it.
LEMMA NoteCallStays ==
  ASSUME NEW N, NEW M, N \subseteq M, NEW P, NEW Q, P \subseteq Q, NEW c, NoteCallOf(c, N, P)
  PROVE  NoteCallOf(c, M, Q)
<1>1. c.op = "deliver" => Messages(c.rows, Q)
  BY MessagesStay DEF NoteCallOf
<1> QED BY <1>1 DEF NoteCallOf

\* One request goes on with c, the others hold what they held.
LEMMA NoteCallsStep ==
  ASSUME NotesTyped, NEW r \in Requests, NEW c, call' = [call EXCEPT ![r] = c],
         DOMAIN notes \subseteq DOMAIN notes', Published \subseteq Published',
         NoteCallOf(c, DOMAIN notes', Published')
  PROVE  /\ call' = [q \in Requests |-> call'[q]]
         /\ call'[r] = c /\ \A q \in Requests \ {r} : call'[q] = call[q]
         /\ \A q \in Requests : NoteCallOf(call'[q], DOMAIN notes', Published')
<1>1. /\ call' = [q \in Requests |-> call'[q]]
      /\ call'[r] = c /\ \A q \in Requests \ {r} : call'[q] = call[q]
  BY DEF NotesTyped
<1>2. ASSUME NEW q \in Requests \ {r} PROVE NoteCallOf(call'[q], DOMAIN notes', Published')
  <2>1. NoteCallOf(call[q], DOMAIN notes, Published) /\ call'[q] = call[q]
    BY <1>1 DEF NotesTyped
  <2> QED BY <2>1, NoteCallStays
<1> QED BY <1>1, <1>2

\* The drafts under way, when one request goes on with c
LEMMA DraftsStep ==
  ASSUME NotesTyped, NEW r \in Requests, NEW c, call' = [call EXCEPT ![r] = c]
  PROVE  /\ Cardinality(Drafts) \in Nat /\ Cardinality(Drafts') \in Nat
         /\ c.op # "draft" => /\ Cardinality(Drafts') <= Cardinality(Drafts)
                              /\ Doing(r, "draft") => Cardinality(Drafts') = Cardinality(Drafts) - 1
         /\ Cardinality(Drafts') <= Cardinality(Drafts) + 1
<1>1. call'[r] = c /\ \A q \in Requests \ {r} : call'[q] = call[q]
  BY DEF NotesTyped
<1>2. IsFiniteSet(Drafts)
  BY InboxConstants, FS_Subset DEF Drafts
<1>3. /\ c.op # "draft" => Drafts' = Drafts \ {r}
      /\ c.op = "draft" => Drafts' = Drafts \cup {r}
      /\ Doing(r, "draft") <=> r \in Drafts
  BY <1>1 DEF Drafts, Doing
<1>4. Cardinality(Drafts) \in Nat
  BY <1>2, FS_CardinalityType
<1>5. /\ Cardinality(Drafts \ {r}) = IF r \in Drafts THEN Cardinality(Drafts) - 1 ELSE Cardinality(Drafts)
      /\ IsFiniteSet(Drafts \ {r})
  BY <1>2, FS_RemoveElement
<1>6. /\ Cardinality(Drafts \cup {r}) = IF r \in Drafts THEN Cardinality(Drafts) ELSE Cardinality(Drafts) + 1
      /\ IsFiniteSet(Drafts \cup {r})
  BY <1>2, FS_AddElement
<1>7. Cardinality(Drafts \ {r}) \in Nat /\ Cardinality(Drafts \cup {r}) \in Nat
  BY <1>5, <1>6, FS_CardinalityType
<1>8. CASE c.op = "draft"
  <2>1. Cardinality(Drafts') \in Nat /\ Cardinality(Drafts') <= Cardinality(Drafts) + 1
    BY <1>3, <1>4, <1>6, <1>7, <1>8
  <2> QED BY <1>4, <1>8, <2>1
<1>9. CASE c.op # "draft"
  <2>1. /\ Cardinality(Drafts') \in Nat /\ Cardinality(Drafts') <= Cardinality(Drafts)
        /\ r \in Drafts => Cardinality(Drafts') = Cardinality(Drafts) - 1
    BY <1>3, <1>4, <1>5, <1>7, <1>9
  <2> QED BY <1>3, <1>4, <2>1
<1> QED BY <1>8, <1>9

\* What a step of one request leaves in the tables, and what it goes on with
LEMMA TablesStep ==
  ASSUME NotesTyped, NEW r \in Requests, NEW c, call' = [call EXCEPT ![r] = c], hidden' = hidden,
         notes' \in Seq(NoteRow), DOMAIN notes \subseteq DOMAIN notes', Published \subseteq Published',
         Len(notes') + Cardinality(Drafts') <= MaxNotes, sends' \in 0 .. MaxSends,
         Messages(deliveries', Published'), NEW b \in Nat, \A d \in DOMAIN deliveries' : d <= b,
         NoteCallOf(c, DOMAIN notes', Published'),
         c.op = "deliver" => DOMAIN c.rows \subseteq DOMAIN deliveries
  PROVE  NotesTyped'
<1>1. /\ call' = [q \in Requests |-> call'[q]]
      /\ call'[r] = c /\ \A q \in Requests \ {r} : call'[q] = call[q]
      /\ \A q \in Requests : NoteCallOf(call'[q], DOMAIN notes', Published')
  BY NoteCallsStep
<1>2. PICK n \in Nat : IdsBelow(n)
  BY DEF NotesTyped
<1>3. PICK m \in Nat : b <= m /\ n <= m
  <2>1. CASE b <= n
    BY <2>1
  <2>2. CASE n <= b
    BY <2>2
  <2> QED BY <2>1, <2>2
<1>4. IdsBelow(m)'
  <2>1. \A d : Below(d, n) => Below(d, m)
    BY <1>3 DEF Below
  <2>2. \A d \in DOMAIN deliveries' : Below(d, m)
    BY <1>3 DEF Below, Messages
  <2>3. \A h \in hidden' : Below(h[3], m)
    BY <1>2, <2>1 DEF IdsBelow
  <2>4. ASSUME NEW q \in Requests, call'[q].op = "deliver", NEW d \in DOMAIN call'[q].rows
        PROVE  Below(d, m)
    <3>1. CASE q = r
      <4>1. d \in DOMAIN deliveries
        BY <1>1, <2>4, <3>1
      <4> QED BY <1>2, <2>1, <4>1 DEF IdsBelow
    <3>2. CASE q # r
      <4>1. call'[q] = call[q]
        BY <1>1, <3>2
      <4> QED BY <1>2, <2>1, <2>4, <4>1 DEF IdsBelow, Doing
    <3> QED BY <3>1, <3>2
  <2> QED BY <2>2, <2>3, <2>4 DEF IdsBelow, Doing
<1> QED BY <1>1, <1>4 DEF NotesTyped

\* A request reads, and goes on with what it has read.
GoesOn(r) ==
  \E c : /\ call' = [call EXCEPT ![r] = c] /\ c.op # "draft"
         /\ NoteCallOf(c, DOMAIN notes, Published)
         /\ c.op = "deliver" => DOMAIN c.rows \subseteq DOMAIN deliveries

LEMMA ReadStep ==
  ASSUME NotesTyped, NEW r \in Requests, GoesOn(r), UNCHANGED <<notes, deliveries, hidden>>,
         sends' \in 0 .. MaxSends
  PROVE  NotesTyped'
<1>1. PICK c : /\ call' = [call EXCEPT ![r] = c] /\ c.op # "draft"
               /\ NoteCallOf(c, DOMAIN notes, Published)
               /\ c.op = "deliver" => DOMAIN c.rows \subseteq DOMAIN deliveries
  BY DEF GoesOn
<1>2. notes' = notes /\ deliveries' = deliveries /\ Published' = Published
  BY DEF Published
<1>3. PICK n \in Nat : IdsBelow(n)
  BY DEF NotesTyped
<1>4. \A d \in DOMAIN deliveries' : d <= n
  BY <1>2, <1>3 DEF IdsBelow, Below
<1>5. Len(notes') + Cardinality(Drafts') <= MaxNotes
  <2>1. /\ Cardinality(Drafts) \in Nat /\ Cardinality(Drafts') \in Nat
        /\ Cardinality(Drafts') <= Cardinality(Drafts)
    BY <1>1, DraftsStep
  <2>2. Len(notes) + Cardinality(Drafts) <= MaxNotes /\ Len(notes) \in Nat /\ MaxNotes \in Nat
    BY NoteRows, NoteConstants DEF NotesTyped
  <2> QED BY <1>2, <2>1, <2>2
<1>6. notes' \in Seq(NoteRow) /\ Messages(deliveries', Published')
  BY <1>2 DEF NotesTyped
<1> QED BY <1>1, <1>2, <1>4, <1>5, <1>6, TablesStep

\* What a request may go on with
LEMMA GoesOnWith ==
  ASSUME NEW r \in Requests, NEW c, call' = [call EXCEPT ![r] = c], c.op # "draft",
         NoteCallOf(c, DOMAIN notes, Published),
         c.op = "deliver" => DOMAIN c.rows \subseteq DOMAIN deliveries
  PROVE  GoesOn(r)
BY DEF GoesOn

\* The requests that begin with a draft
LEMMA DraftStep ==
  ASSUME NotesTyped, NEW r \in Requests, NEW v \in Versions, Room, NEW publish \in BOOLEAN,
         Begin(r, [op |-> "draft", version |-> v, publish |-> publish]),
         UNCHANGED <<notes, deliveries, hidden>>, sends' \in 0 .. MaxSends
  PROVE  NotesTyped'
<1>1. PICK c : c = [op |-> "draft", version |-> v, publish |-> publish]
  OBVIOUS
<1>2. call' = [call EXCEPT ![r] = c] /\ c.op = "draft" /\ c.version = v
  BY <1>1 DEF Begin
<1>3. notes' = notes /\ deliveries' = deliveries /\ Published' = Published
  BY DEF Published
<1>4. PICK n \in Nat : IdsBelow(n)
  BY DEF NotesTyped
<1>5. \A d \in DOMAIN deliveries' : d <= n
  BY <1>3, <1>4 DEF IdsBelow, Below
<1>6. Len(notes') + Cardinality(Drafts') <= MaxNotes
  <2>1. /\ Cardinality(Drafts) \in Nat /\ Cardinality(Drafts') \in Nat
        /\ Cardinality(Drafts') <= Cardinality(Drafts) + 1
    BY <1>2, DraftsStep
  <2>2. Len(notes) + Cardinality(Drafts) < MaxNotes
    BY DEF Room, Drafts
  <2>3. Len(notes) \in Nat /\ MaxNotes \in Nat
    BY NoteRows, NoteConstants DEF NotesTyped
  <2> QED BY <1>3, <2>1, <2>2, <2>3
<1>7. NoteCallOf(c, DOMAIN notes', Published')
  BY <1>2 DEF NoteCallOf
<1>8. notes' \in Seq(NoteRow) /\ Messages(deliveries', Published')
  BY <1>3 DEF NotesTyped
<1>9. DOMAIN notes \subseteq DOMAIN notes' /\ Published \subseteq Published' /\ hidden' = hidden
  BY <1>3
<1> QED BY <1>2, <1>5, <1>6, <1>7, <1>8, <1>9, TablesStep

\* A note that is not published has no time of publication.
LEMMA PublishedIs ==
  ASSUME notes \in Seq(NoteRow), NEW n \in DOMAIN notes, notes[n].published # 0
  PROVE  n \in Published /\ notes[n].published \in Nat
BY NoteRows DEF Published

\* The calls that publish begin with a draft or with what they have read.
LEMMA PublishStep ==
  ASSUME NotesTyped, NEW r \in Requests,
         \/ \E v \in Versions : Draft(r, v) \/ PublishChangelog(r, v)
         \/ \E n \in DOMAIN notes : Publish(r, n)
  PROVE  NotesTyped'
<1>0. sends \in 0 .. MaxSends /\ MaxSends \in Nat /\ notes \in Seq(NoteRow)
  BY NoteConstants DEF NotesTyped
<1>1. ASSUME NEW v \in Versions, Draft(r, v) PROVE NotesTyped'
  BY <1>0, <1>1, DraftStep DEF Draft
<1>2. ASSUME NEW n \in DOMAIN notes, Begin(r, [op |-> "check", note |-> n]) PROVE GoesOn(r)
  <2>1. PICK c : c = [op |-> "check", note |-> n]
    OBVIOUS
  <2>2. c.op = "check" /\ c.note = n /\ call' = [call EXCEPT ![r] = c]
    BY <1>2, <2>1 DEF Begin
  <2>3. NoteCallOf(c, DOMAIN notes, Published)
    BY <2>2 DEF NoteCallOf
  <2> QED BY <2>2, <2>3, GoesOnWith
<1>3. ASSUME NEW n \in DOMAIN notes, Publish(r, n) PROVE NotesTyped'
  <2>1. sends' \in 0 .. MaxSends /\ UNCHANGED <<notes, deliveries, hidden>>
    BY <1>0, <1>3 DEF Publish
  <2>2. GoesOn(r)
    BY <1>2, <1>3 DEF Publish
  <2> QED BY <2>1, <2>2, ReadStep
<1>4. ASSUME NEW v \in Versions, PublishChangelog(r, v) PROVE NotesTyped'
  <2>1. sends' \in 0 .. MaxSends /\ UNCHANGED <<notes, deliveries, hidden>>
    BY <1>0, <1>4 DEF PublishChangelog
  <2>2. CASE Room /\ Begin(r, [op |-> "draft", version |-> v, publish |-> TRUE])
    BY <2>1, <2>2, DraftStep
  <2>3. ASSUME NEW n \in DOMAIN notes, notes[n].published # 0,
               Begin(r, [op |-> "sync", note |-> n, at |-> notes[n].published, reset |-> FALSE])
        PROVE  GoesOn(r)
    <3>1. n \in Published /\ notes[n].published \in Nat
      BY <1>0, <2>3, PublishedIs
    <3>2. PICK c : c = [op |-> "sync", note |-> n, at |-> notes[n].published, reset |-> FALSE]
      OBVIOUS
    <3>3. /\ c.op = "sync" /\ c.note = n /\ c.at = notes[n].published /\ c.reset = FALSE
          /\ call' = [call EXCEPT ![r] = c]
      BY <2>3, <3>2 DEF Begin
    <3>4. NoteCallOf(c, DOMAIN notes, Published)
      BY <3>1, <3>3 DEF NoteCallOf
    <3> QED BY <3>3, <3>4, GoesOnWith
  <2>4. (Room /\ Begin(r, [op |-> "draft", version |-> v, publish |-> TRUE])) \/ GoesOn(r)
    BY <1>2, <1>4, <2>3 DEF PublishChangelog, WithVersion
  <2> QED BY <2>1, <2>2, <2>4, ReadStep
<1> QED BY <1>1, <1>3, <1>4

\* The steps of a request that only read
LEMMA ReadersStep ==
  ASSUME NotesTyped, NEW r \in Requests,
         \/ CheckPublished(r) \/ Sync(r) \/ LoadOwn(r) \/ LoadUnread(r) \/ FailNotes(r)
  PROVE  NotesTyped'
<1>0. /\ sends \in 0 .. MaxSends /\ notes \in Seq(NoteRow) /\ Messages(deliveries, Published)
      /\ NoteCallOf(call[r], DOMAIN notes, Published)
  BY DEF NotesTyped
<1>1. UNCHANGED <<notes, deliveries, hidden, sends>>
  BY DEF CheckPublished, Sync, LoadOwn, LoadUnread, FailNotes
<1>r. SUFFICES GoesOn(r)
  BY <1>0, <1>1, ReadStep
<1>2. ASSUME Return(r) PROVE GoesOn(r)
  <2>1. NoCall.op = "none" /\ call' = [call EXCEPT ![r] = NoCall]
    BY <1>2 DEF Return, NoCall
  <2>2. NoteCallOf(NoCall, DOMAIN notes, Published)
    BY <2>1 DEF NoteCallOf
  <2> QED BY <2>1, <2>2, GoesOnWith
<1>3. CASE CheckPublished(r)
  <2>1. PICK n : n = call[r].note
    OBVIOUS
  <2>2. n \in DOMAIN notes
    BY <1>0, <1>3, <2>1 DEF CheckPublished, Doing, NoteCallOf
  <2>3. CASE notes[n].published = 0
    <3>1. PICK c : c = [op |-> "publish", note |-> n]
      OBVIOUS
    <3>2. c.op = "publish" /\ c.note = n /\ call' = [call EXCEPT ![r] = c]
      BY <1>3, <2>1, <2>3, <3>1 DEF CheckPublished, Go
    <3>3. NoteCallOf(c, DOMAIN notes, Published)
      BY <2>2, <3>2 DEF NoteCallOf
    <3> QED BY <3>2, <3>3, GoesOnWith
  <2>4. CASE notes[n].published # 0
    <3>1. PICK c : c = [op |-> "sync", note |-> n, at |-> notes[n].published, reset |-> TRUE]
      OBVIOUS
    <3>2. /\ c.op = "sync" /\ c.note = n /\ c.at = notes[n].published /\ c.reset = TRUE
          /\ call' = [call EXCEPT ![r] = c]
      BY <1>3, <2>1, <2>4, <3>1 DEF CheckPublished, Go
    <3>3. n \in Published /\ notes[n].published \in Nat
      BY <1>0, <2>2, <2>4, PublishedIs
    <3>4. NoteCallOf(c, DOMAIN notes, Published)
      BY <3>2, <3>3 DEF NoteCallOf
    <3> QED BY <3>2, <3>4, GoesOnWith
  <2> QED BY <2>3, <2>4
<1>4. CASE Sync(r)
  <2>1. PICK c : c = [op |-> "deliver", note |-> call[r].note, at |-> call[r].at,
                      reset |-> call[r].reset, users |-> Users, rows |-> deliveries, mark |-> FALSE]
    OBVIOUS
  <2>2. /\ c.op = "deliver" /\ c.note = call[r].note /\ c.at = call[r].at
        /\ c.reset = call[r].reset /\ c.users = Users /\ c.rows = deliveries
        /\ call' = [call EXCEPT ![r] = c]
    BY <1>4, <2>1 DEF Sync, Go
  <2>3. call[r].note \in Published /\ call[r].at \in Nat /\ call[r].reset \in BOOLEAN
    BY <1>0, <1>4 DEF Sync, Doing, NoteCallOf
  <2>4. NoteCallOf(c, DOMAIN notes, Published)
    BY <1>0, <2>2, <2>3 DEF NoteCallOf
  <2> QED BY <2>2, <2>4, GoesOnWith
<1>5. CASE LoadOwn(r)
  <2>1. PICK u, rows : u = call[r].user /\ rows = [d \in RowsOf(deliveries, u) |-> deliveries[d]]
    OBVIOUS
  <2>2. PICK c : c = [op |-> "deliver", note |-> call[r].note, at |-> call[r].at, reset |-> FALSE,
                      users |-> {u}, mark |-> call[r].mark, rows |-> rows]
    OBVIOUS
  <2>3. /\ c.op = "deliver" /\ c.note = call[r].note /\ c.at = call[r].at
        /\ c.reset = FALSE /\ c.users = {u} /\ c.rows = rows
        /\ call' = [call EXCEPT ![r] = c]
    BY <1>5, <2>1, <2>2 DEF LoadOwn, Go
  <2>4. call[r].note \in Published /\ call[r].at \in Nat /\ u \in Users
    BY <1>0, <1>5, <2>1 DEF LoadOwn, Doing, NoteCallOf
  <2>5. DOMAIN rows \subseteq DOMAIN deliveries /\ Messages(rows, Published)
    BY <1>0, <2>1 DEF RowsOf, Messages
  <2>6. NoteCallOf(c, DOMAIN notes, Published)
    BY <2>3, <2>4, <2>5 DEF NoteCallOf
  <2> QED BY <2>3, <2>5, <2>6, GoesOnWith
<1>6. CASE LoadUnread(r)
  <2>1. PICK ids : ids = UNION {Unread(u) : u \in call[r].users}
    OBVIOUS
  <2>2. Return(r) \/ Go(r, [op |-> "seen", users |-> call[r].users, ids |-> ids])
    BY <1>6, <2>1 DEF LoadUnread
  <2>3. CASE Go(r, [op |-> "seen", users |-> call[r].users, ids |-> ids])
    <3>1. PICK c : c = [op |-> "seen", users |-> call[r].users, ids |-> ids]
      OBVIOUS
    <3>2. c.op = "seen" /\ call' = [call EXCEPT ![r] = c]
      BY <2>3, <3>1 DEF Go
    <3>3. NoteCallOf(c, DOMAIN notes, Published)
      BY <3>2 DEF NoteCallOf
    <3> QED BY <3>2, <3>3, GoesOnWith
  <2> QED BY <1>2, <2>2, <2>3
<1>7. CASE FailNotes(r)
  BY <1>2, <1>7 DEF FailNotes
<1> QED BY <1>3, <1>4, <1>5, <1>6, <1>7

\* Every read of a user begins with the latest note.
LEMMA EnsureStep ==
  ASSUME NotesTyped, NEW r \in Requests, NEW u \in Users, NEW mark \in BOOLEAN, Ensure(r, u, mark),
         Published # {}
  PROVE  NotesTyped'
<1>0. sends \in 0 .. MaxSends /\ notes \in Seq(NoteRow)
  BY DEF NotesTyped
<1>1. PICK n : n = Latest
  OBVIOUS
<1>2. n \in Published /\ notes[n].published \in Nat
  BY <1>0, <1>1, LatestIs, NoteRows
<1>3. PICK c : c = [op |-> "ensure", note |-> n, at |-> notes[n].published, user |-> u, mark |-> mark]
  OBVIOUS
<1>4. /\ c.op = "ensure" /\ c.note = n /\ c.at = notes[n].published /\ c.user = u
      /\ call' = [call EXCEPT ![r] = c]
  BY <1>1, <1>3 DEF Ensure, Begin
<1>5. GoesOn(r)
  <2>1. NoteCallOf(c, DOMAIN notes, Published)
    BY <1>2, <1>4 DEF NoteCallOf
  <2> QED BY <1>4, <2>1, GoesOnWith
<1>6. UNCHANGED <<notes, deliveries, hidden, sends>>
  BY DEF Ensure
<1> QED BY <1>0, <1>5, <1>6, ReadStep

\* A draft becomes a note that is not published, at a new id.
LEMMA CommitDraftStep ==
  ASSUME NotesTyped, NEW r \in Requests, CommitDraft(r)
  PROVE  NotesTyped'
<1>0. /\ sends \in 0 .. MaxSends /\ notes \in Seq(NoteRow) /\ Len(notes) \in Nat /\ MaxNotes \in Nat
      /\ DOMAIN notes = 1 .. Len(notes) /\ Messages(deliveries, Published)
      /\ Len(notes) + Cardinality(Drafts) <= MaxNotes
  BY NoteRows, NoteConstants DEF NotesTyped
<1>1. call[r].version \in Versions /\ Doing(r, "draft")
  BY DEF CommitDraft, NotesTyped, NoteCallOf, Doing
<1>2. PICK row \in NoteRow : notes' = Append(notes, row)
  BY <1>1 DEF CommitDraft, NoteRow
<1>3. /\ notes' \in Seq(NoteRow) /\ Len(notes') = Len(notes) + 1
      /\ DOMAIN notes' = 1 .. (Len(notes) + 1) /\ \A n \in DOMAIN notes : notes'[n] = notes[n]
  BY <1>0, <1>2
<1>4. DOMAIN notes \subseteq DOMAIN notes' /\ Len(notes) + 1 \in DOMAIN notes'
  BY <1>0, <1>3
<1>5. Published \subseteq Published'
  BY <1>3, <1>4 DEF Published
<1>6. Messages(deliveries', Published')
  BY <1>0, <1>5, MessagesStay DEF CommitDraft
<1>7. PICK c : /\ call' = [call EXCEPT ![r] = c] /\ c.op \in {"check", "none"}
               /\ c.op = "check" => c.note = Len(notes) + 1
  <2>1. CASE call[r].publish
    <3>1. PICK c : c = [op |-> "check", note |-> Len(notes) + 1]
      OBVIOUS
    <3>2. c.op = "check" /\ c.note = Len(notes) + 1 /\ call' = [call EXCEPT ![r] = c]
      BY <2>1, <3>1 DEF CommitDraft, Go
    <3> QED BY <3>2
  <2>2. CASE ~call[r].publish
    <3>1. call' = [call EXCEPT ![r] = NoCall] /\ NoCall.op = "none"
      BY <2>2 DEF CommitDraft, Return, NoCall
    <3> QED BY <3>1
  <2> QED BY <2>1, <2>2
<1>8. NoteCallOf(c, DOMAIN notes', Published')
  BY <1>4, <1>7 DEF NoteCallOf
<1>9. Len(notes') + Cardinality(Drafts') <= MaxNotes
  <2>1. /\ Cardinality(Drafts) \in Nat /\ Cardinality(Drafts') \in Nat
        /\ Cardinality(Drafts') = Cardinality(Drafts) - 1
    BY <1>1, <1>7, DraftsStep
  <2> QED BY <1>0, <1>3, <2>1
<1>10. PICK b \in Nat : IdsBelow(b)
  BY DEF NotesTyped
<1>11. \A d \in DOMAIN deliveries' : d <= b
  BY <1>10 DEF IdsBelow, Below, CommitDraft
<1>12. hidden' = hidden /\ sends' \in 0 .. MaxSends /\ c.op # "deliver"
  BY <1>0, <1>7 DEF CommitDraft
<1> QED BY <1>3, <1>4, <1>5, <1>6, <1>7, <1>8, <1>9, <1>11, <1>12, TablesStep

\* A note is committed as published before it goes to anybody.
LEMMA CommitPublishedStep ==
  ASSUME NotesTyped, NEW r \in Requests, CommitPublished(r)
  PROVE  NotesTyped'
<1>0. /\ sends \in 0 .. MaxSends /\ notes \in Seq(NoteRow) /\ Len(notes) \in Nat /\ MaxNotes \in Nat
      /\ DOMAIN notes = 1 .. Len(notes) /\ Messages(deliveries, Published)
      /\ Len(notes) + Cardinality(Drafts) <= MaxNotes
  BY NoteRows, NoteConstants DEF NotesTyped
<1>1. PICK n : n = call[r].note
  OBVIOUS
<1>2. n \in DOMAIN notes
  BY <1>1 DEF CommitPublished, NotesTyped, NoteCallOf, Doing
<1>3. PICK t \in Nat : t > 0 /\ t = NextTime
  BY <1>0, TimeAdvances
<1>4. notes' = [notes EXCEPT ![n].published = t]
  BY <1>1, <1>3 DEF CommitPublished
<1>5. notes[n] \in NoteRow
  BY <1>0, <1>2
<1>6. /\ [notes[n] EXCEPT !.published = t] \in NoteRow
      /\ [notes[n] EXCEPT !.published = t].published = t
  BY <1>5 DEF NoteRow
<1>7. /\ notes' \in Seq(NoteRow) /\ Len(notes') = Len(notes) /\ DOMAIN notes' = DOMAIN notes
      /\ \A m \in DOMAIN notes \ {n} : notes'[m] = notes[m]
      /\ notes'[n].published = t
  BY <1>0, <1>2, <1>4, <1>6
<1>8. Published \subseteq Published' /\ n \in Published'
  BY <1>2, <1>3, <1>7 DEF Published
<1>9. Messages(deliveries', Published')
  BY <1>0, <1>8, MessagesStay DEF CommitPublished
<1>10. PICK c : c = [op |-> "sync", note |-> n, at |-> t, reset |-> TRUE]
  OBVIOUS
<1>11. /\ c.op = "sync" /\ c.note = n /\ c.at = t /\ c.reset = TRUE
       /\ call' = [call EXCEPT ![r] = c]
  BY <1>1, <1>3, <1>10 DEF CommitPublished, Go
<1>12. NoteCallOf(c, DOMAIN notes', Published')
  BY <1>8, <1>11 DEF NoteCallOf
<1>13. Len(notes') + Cardinality(Drafts') <= MaxNotes
  <2>1. /\ Cardinality(Drafts) \in Nat /\ Cardinality(Drafts') \in Nat
        /\ Cardinality(Drafts') <= Cardinality(Drafts)
    BY <1>11, DraftsStep
  <2> QED BY <1>0, <1>7, <2>1
<1>14. PICK b \in Nat : IdsBelow(b)
  BY DEF NotesTyped
<1>15. \A d \in DOMAIN deliveries' : d <= b
  BY <1>14 DEF IdsBelow, Below, CommitPublished
<1>16. hidden' = hidden /\ sends' \in 0 .. MaxSends /\ c.op # "deliver"
  BY <1>0, <1>11 DEF CommitPublished
<1> QED BY <1>7, <1>8, <1>9, <1>11, <1>12, <1>13, <1>15, <1>16, TablesStep

\* The steps that write messages and go on with a call that has read no note
LEMMA MessagesStep ==
  ASSUME NotesTyped, NEW r \in Requests, NEW c, call' = [call EXCEPT ![r] = c],
         c.op \in {"none", "unread"}, UNCHANGED <<notes, hidden, sends>>,
         Messages(deliveries', Published), NEW b \in Nat, \A d \in DOMAIN deliveries' : d <= b
  PROVE  NotesTyped'
<1>0. /\ sends \in 0 .. MaxSends /\ notes \in Seq(NoteRow) /\ Len(notes) \in Nat /\ MaxNotes \in Nat
      /\ Len(notes) + Cardinality(Drafts) <= MaxNotes
  BY NoteRows, NoteConstants DEF NotesTyped
<1>1. notes' = notes /\ Published' = Published /\ hidden' = hidden /\ sends' = sends
  BY DEF Published
<1>2. NoteCallOf(c, DOMAIN notes', Published')
  BY DEF NoteCallOf
<1>3. Len(notes') + Cardinality(Drafts') <= MaxNotes
  <2>1. /\ Cardinality(Drafts) \in Nat /\ Cardinality(Drafts') \in Nat
        /\ Cardinality(Drafts') <= Cardinality(Drafts)
    BY DraftsStep
  <2> QED BY <1>0, <1>1, <2>1
<1>4. Messages(deliveries', Published')
  BY <1>1
<1> QED BY <1>0, <1>1, <1>2, <1>3, <1>4, TablesStep

\* Messages that are read name the note they named.
LEMMA CommitSeenStep ==
  ASSUME NotesTyped, NEW r \in Requests, CommitSeen(r)
  PROVE  NotesTyped'
<1>1. Messages(deliveries, Published)
  BY DEF NotesTyped
<1>2. DOMAIN deliveries' = DOMAIN deliveries
  BY DEF CommitSeen
<1>3. ASSUME NEW d \in DOMAIN deliveries PROVE deliveries'[d] \in MessageOf(Published)
  <2>1. deliveries[d] \in MessageOf(Published)
    BY <1>1 DEF Messages
  <2>2. [deliveries[d] EXCEPT !.seen = TRUE] \in MessageOf(Published)
    BY <2>1 DEF MessageOf
  <2>3. deliveries'[d] \in {deliveries[d], [deliveries[d] EXCEPT !.seen = TRUE]}
    BY DEF CommitSeen
  <2> QED BY <2>1, <2>2, <2>3
<1>4. Messages(deliveries', Published)
  BY <1>1, <1>2, <1>3 DEF Messages
<1>5. PICK b \in Nat : IdsBelow(b)
  BY DEF NotesTyped
<1>6. \A d \in DOMAIN deliveries' : d <= b
  BY <1>2, <1>5 DEF IdsBelow, Below
<1>7. call' = [call EXCEPT ![r] = NoCall] /\ NoCall.op = "none" /\ UNCHANGED <<notes, hidden, sends>>
  BY DEF CommitSeen, Return, NoCall
<1> QED BY <1>4, <1>6, <1>7, MessagesStep

\* A message that is hidden has an id that messages have.
LEMMA HideStep ==
  ASSUME NotesTyped, NEW r \in Requests, NEW u \in Users, NEW d \in DOMAIN deliveries,
         HideDelivery(r, u, d)
  PROVE  NotesTyped'
<1>1. /\ hidden' = hidden \cup {<<u, "RELEASE_NOTE", d>>}
      /\ UNCHANGED <<notes, deliveries, sends, call>>
  BY DEF HideDelivery, HideMessage
<1>2. PICK n \in Nat : IdsBelow(n)
  BY DEF NotesTyped
<1>3. IdsBelow(n)'
  <2>1. Below(d, n)
    BY <1>2 DEF IdsBelow
  <2>2. \A m \in hidden' : Below(m[3], n)
    BY <1>1, <1>2, <2>1 DEF IdsBelow
  <2> QED BY <1>1, <1>2, <2>2 DEF IdsBelow, Doing
<1>4. Drafts' = Drafts /\ Published' = Published
  BY <1>1 DEF Drafts, Doing, Published
<1> QED BY <1>1, <1>3, <1>4 DEF NotesTyped

\* An UPDATE of a message writes a note that is published: the request's own,
\* or the one that the row names by then.
LEMMA WrittenMessage ==
  ASSUME NEW P, NEW row \in MessageOf(P), NEW loaded \in MessageOf(P), NEW new \in MessageOf(P)
  PROVE  Written(row, Changed(loaded, new)) \in MessageOf(P)
<1> DEFINE changed == Changed(loaded, new)
           w == Written(row, changed)
           v(k) == IF k \in DOMAIN changed THEN changed[k] ELSE row[k]
<1>1. row = [user |-> row.user, note |-> row.note, at |-> row.at, seen |-> row.seen]
  BY DEF MessageOf
<1>2. /\ DOMAIN row = {"user", "note", "at", "seen"}
      /\ \A k \in DOMAIN changed : changed[k] = new[k]
  BY <1>1 DEF Changed
<1> HIDE DEF changed
<1>3. w = [user |-> v("user"), note |-> v("note"), at |-> v("at"), seen |-> v("seen")]
  BY <1>1, <1>2 DEF Written
<1>4. /\ row.user \in Users /\ row.note \in P /\ row.at \in Nat /\ row.seen \in BOOLEAN
      /\ new.user \in Users /\ new.note \in P /\ new.at \in Nat /\ new.seen \in BOOLEAN
  BY DEF MessageOf
<1>5. v("user") \in Users /\ v("note") \in P /\ v("at") \in Nat /\ v("seen") \in BOOLEAN
  BY <1>2, <1>4
<1> HIDE DEF w, v
<1>6. w \in MessageOf(P)
  BY <1>3, <1>5 DEF MessageOf
<1> QED BY <1>6 DEF w, changed

\* _upsert_release_note_stream_delivery: the user's own message moves to the
\* note, or a message is made for it.
LEMMA UpsertStep ==
  ASSUME NotesTyped, NEW r \in Requests, Doing(r, "deliver"), Upsert(call[r])
  PROVE  /\ Messages(deliveries', Published)
         /\ \E b \in Nat : \A d \in DOMAIN deliveries' : d <= b
<1> DEFINE c == call[r]
           L == LastDelivery
<1>2. /\ c.users \subseteq Users /\ Messages(c.rows, Published)
      /\ c.note \in Published /\ c.at \in Nat /\ c.reset \in BOOLEAN
  BY DEF NotesTyped, NoteCallOf, Doing
<1>3. Messages(deliveries, Published)
  BY DEF NotesTyped
<1>4. L \in Nat /\ (\A d \in DOMAIN deliveries : d <= L) /\ \A d \in DOMAIN c.rows : d <= L
  BY LastDeliveryIs
<1>5. CASE deliveries' = deliveries
  BY <1>3, <1>4, <1>5
<1>6. CASE deliveries' # deliveries
  <2> DEFINE primaries == Primaries(c.rows, c.users)
             lacking == {u \in c.users : RowsOf(c.rows, u) = {}}
             new == SetToSeq(lacking)
             kept == DOMAIN deliveries \ Stale(c.rows, c.users)
             row(d) == IF d \in primaries
                       THEN Written(deliveries[d], Changed(c.rows[d], Moved(c.rows[d], c)))
                       ELSE IF d \in kept THEN deliveries[d]
                       ELSE [user |-> new[d - L], note |-> c.note, at |-> c.at, seen |-> FALSE]
  <2>1. deliveries' = [d \in kept \cup {L + i : i \in DOMAIN new} |-> row(d)]
    BY <1>6 DEF Upsert
  <2> HIDE DEF c, L
  <2>2. kept \subseteq DOMAIN deliveries
    OBVIOUS
  <2>3. ASSUME NEW d \in primaries PROVE d \in DOMAIN c.rows
    <3>1. PICK u \in c.users : RowsOf(c.rows, u) # {} /\ d = Primary(c.rows, u)
      BY <2>3 DEF Primaries
    <3>2. d \in RowsOf(c.rows, u)
      BY <1>2, <1>4, <3>1, PrimaryIs
    <3> QED BY <3>2 DEF RowsOf
  <2>4. PICK k \in Nat : DOMAIN new = 1 .. k /\ \A i \in 1 .. k : new[i] \in Users
    <3>1. lacking \in SUBSET Users
      BY <1>2
    <3> HIDE DEF lacking
    <3>2. Cardinality(lacking) \in Nat /\ new \in [1 .. Cardinality(lacking) -> lacking]
      BY <3>1, UsersInOrder
    <3> QED BY <3>1, <3>2
  <2> HIDE DEF primaries, kept, new
  <2>5. DOMAIN deliveries' = kept \cup {L + i : i \in 1 .. k}
    BY <2>1, <2>4
  <2>6. \A d \in DOMAIN deliveries' : deliveries'[d] = row(d)
    BY <2>1, <2>4
  <2>7. ASSUME NEW d \in DOMAIN deliveries'
        PROVE  d \in Nat /\ d <= L + k /\ row(d) \in MessageOf(Published)
    <3>1. CASE d \in kept
      <4>1. d \in DOMAIN deliveries
        BY <2>2, <3>1
      <4>2. d \in Nat /\ d <= L /\ deliveries[d] \in MessageOf(Published)
        BY <1>3, <1>4, <4>1 DEF Messages
      <4>3. ASSUME d \in primaries
            PROVE  Written(deliveries[d], Changed(c.rows[d], Moved(c.rows[d], c))) \in MessageOf(Published)
        <5>1. c.rows[d] \in MessageOf(Published)
          BY <1>2, <2>3, <4>3 DEF Messages
        <5>2. Moved(c.rows[d], c) \in MessageOf(Published)
          BY <1>2, <5>1 DEF Moved, MessageOf
        <5> QED BY <4>2, <5>1, <5>2, WrittenMessage
      <4>4. row(d) \in MessageOf(Published)
        BY <3>1, <4>2, <4>3
      <4>5. d <= L + k
        BY <1>4, <2>4, <4>2
      <4> HIDE DEF row
      <4> QED BY <4>2, <4>4, <4>5
    <3>2. ASSUME NEW i \in 1 .. k, d = L + i, d \notin kept
          PROVE  d \in Nat /\ d <= L + k /\ row(d) \in MessageOf(Published)
      <4>1. d \in Nat /\ d <= L + k /\ d - L = i /\ ~(d <= L)
        BY <1>4, <2>4, <3>2
      <4>2. d \notin primaries
        BY <1>4, <2>3, <4>1
      <4>3. row(d) = [user |-> new[i], note |-> c.note, at |-> c.at, seen |-> FALSE]
        BY <3>2, <4>1, <4>2
      <4> HIDE DEF row
      <4>4. row(d) \in MessageOf(Published)
        BY <1>2, <2>4, <4>3 DEF MessageOf
      <4> QED BY <4>1, <4>4
    <3> HIDE DEF row
    <3> QED BY <2>5, <3>1, <3>2
  <2> HIDE DEF row
  <2>8. L + k \in Nat
    BY <1>4, <2>4
  <2> QED BY <2>6, <2>7, <2>8 DEF Messages
<1> QED BY <1>5, <1>6

LEMMA CommitDeliverStep ==
  ASSUME NotesTyped, NEW r \in Requests, CommitDeliver(r)
  PROVE  NotesTyped'
<1>1. PICK b \in Nat : Messages(deliveries', Published) /\ \A d \in DOMAIN deliveries' : d <= b
  BY UpsertStep DEF CommitDeliver
<1>2. PICK c : call' = [call EXCEPT ![r] = c] /\ c.op \in {"none", "unread"}
  <2>1. CASE call[r].mark
    <3>1. PICK c : c = [op |-> "unread", users |-> call[r].users]
      OBVIOUS
    <3>2. c.op = "unread" /\ call' = [call EXCEPT ![r] = c]
      BY <2>1, <3>1 DEF CommitDeliver, Go
    <3> QED BY <3>2
  <2>2. CASE ~call[r].mark
    <3>1. call' = [call EXCEPT ![r] = NoCall] /\ NoCall.op = "none"
      BY <2>2 DEF CommitDeliver, Return, NoCall
    <3> QED BY <3>1
  <2> QED BY <2>1, <2>2
<1>3. UNCHANGED <<notes, hidden, sends>>
  BY DEF CommitDeliver
<1> QED BY <1>1, <1>2, <1>3, MessagesStep

\* A first note, published, and no message
LEMMA NotesInitTyped == NotesInit => NotesTyped
<1> SUFFICES ASSUME NotesInit PROVE NotesTyped
  OBVIOUS
<1>1. Min(Versions) \in Versions
  <2>1. PICK v \in Versions : \A w \in Versions : v <= w
    <3>1. PICK x \in Versions : x \in Nat
      BY NoteConstants
    <3> DEFINE S == {v \in Versions : v <= x}
               at == [v \in S |-> 0 - v]
    <3>2. S \in SUBSET Nat /\ S \in SUBSET Int /\ x \in S /\ \A v \in S : v <= x
      <4>1. Versions \subseteq Nat /\ x <= x
        BY <3>1, NoteConstants
      <4>2. \A v \in S : v \in Versions /\ v <= x
        OBVIOUS
      <4>3. x \in S
        BY <3>1, <4>1
      <4> HIDE DEF S
      <4>4. \A v \in S : v \in Nat
        BY <4>1, <4>2
      <4>5. S \in SUBSET Int
        BY <4>4
      <4> QED BY <4>2, <4>3, <4>4, <4>5
    <3>3. IsFiniteSet(S)
      BY <3>1, <3>2, FS_BoundedSetOfNaturals
    <3>4. at \in [S -> Int] /\ \A v \in S : at[v] = 0 - v
      BY <3>2
    <3> HIDE DEF at
    <3>5. PICK v \in S : \A w \in S : at[w] < at[v] \/ (at[w] = at[v] /\ w <= v)
      <4> HIDE DEF S
      <4> QED BY <3>2, <3>3, <3>4, LatestExists
    <3>6. \A w \in S : v <= w
      BY <3>2, <3>4, <3>5
    <3>7. \A w \in Versions \ S : v <= w
      BY <3>1, <3>2, NoteConstants
    <3> QED BY <3>6, <3>7
  <2> QED BY <2>1, NoteConstants DEF Min
<1>2. PICK row \in NoteRow : notes = <<row>> /\ row.published = 1
  BY <1>1 DEF NotesInit, NoteRow
<1>3. notes \in Seq(NoteRow) /\ Len(notes) = 1
  BY <1>2
<1>4. Drafts = {} /\ \A r \in Requests : call[r] = NoCall /\ ~Doing(r, "deliver")
  BY DEF NotesInit, Drafts, Doing, NoCall
<1>5. Cardinality(Drafts) = 0 /\ Len(notes) + Cardinality(Drafts) <= MaxNotes
  BY <1>3, <1>4, FS_EmptySet, NoteConstants
<1>6. Messages(deliveries, Published) /\ IdsBelow(0)
  BY <1>4 DEF NotesInit, Messages, IdsBelow
<1>7. ASSUME NEW r \in Requests PROVE NoteCallOf(call[r], DOMAIN notes, Published)
  BY <1>4 DEF NoCall, NoteCallOf
<1>8. sends \in 0 .. MaxSends /\ call = [r \in Requests |-> call[r]]
  BY NoteConstants DEF NotesInit
<1> QED BY <1>3, <1>5, <1>6, <1>7, <1>8 DEF NotesTyped

\* Every step of the release notes keeps the types.
LEMMA NotesTypedStep == NotesTyped /\ [NotesNext]_noteVars => NotesTyped'
<1> SUFFICES ASSUME NotesTyped, [NotesNext]_noteVars PROVE NotesTyped'
  OBVIOUS
<1>1. CASE UNCHANGED noteVars
  <2>1. UNCHANGED <<notes, deliveries, sends, hidden, call>>
    BY <1>1 DEF noteVars
  <2>2. Drafts' = Drafts /\ Published' = Published
    BY <2>1 DEF Drafts, Doing, Published
  <2>3. \A n \in Nat : IdsBelow(n)' <=> IdsBelow(n)
    BY <2>1 DEF IdsBelow, Doing
  <2> QED BY <2>1, <2>2, <2>3 DEF NotesTyped
<1>2. ASSUME NEW r \in Requests,
             \/ \E v \in Versions : Draft(r, v) \/ PublishChangelog(r, v)
             \/ \E n \in DOMAIN notes : Publish(r, n)
      PROVE  NotesTyped'
  BY <1>2, PublishStep
<1>3. ASSUME NEW r \in Requests, NEW u \in Users, NEW mark \in BOOLEAN, Ensure(r, u, mark)
      PROVE  NotesTyped'
  BY <1>1, <1>3, EnsureStep DEF Ensure
<1>4. ASSUME NEW r \in Requests, Continue(r) PROVE NotesTyped'
  BY <1>4, CommitDraftStep, CommitPublishedStep, CommitDeliverStep, CommitSeenStep, ReadersStep
     DEF Continue
<1>5. ASSUME NEW r \in Requests, FailNotes(r) PROVE NotesTyped'
  BY <1>5, ReadersStep
<1>6. ASSUME NEW r \in Requests, NEW u \in Users, NEW d \in DOMAIN deliveries, HideDelivery(r, u, d)
      PROVE  NotesTyped'
  BY <1>6, HideStep
<1> QED BY <1>1, <1>2, <1>3, <1>4, <1>5, <1>6 DEF NotesNext

\* The types, and what every request has read, hold throughout: the inductive
\* invariant of the handlers of release notes.
THEOREM NotesAreTyped == NotesSpec => []NotesTyped
BY NotesInitTyped, NotesTypedStep, PTL DEF NotesSpec

\* ReleaseNote and ReleaseNoteDelivery: the tables hold rows of their types,
\* and drafts under way never make more notes than there is room for.
THEOREM NotesTypesHold == NotesSpec => []NotesTypeOK
<1>1. NotesTyped => NotesTypeOK
  <2> SUFFICES ASSUME NotesTyped PROVE NotesTypeOK
    OBVIOUS
  <2>1. /\ notes \in Seq(NoteRow) /\ Len(notes) \in Nat /\ MaxNotes \in Nat
        /\ DOMAIN notes = 1 .. Len(notes) /\ Published \subseteq DOMAIN notes
    BY NoteRows, NoteConstants DEF NotesTyped
  <2>2. Len(notes) <= MaxNotes
    <3>1. Cardinality(Drafts) \in Nat
      BY InboxConstants, FS_Subset, FS_CardinalityType DEF Drafts
    <3> QED BY <2>1, <3>1 DEF NotesTyped
  <2>3. Published \subseteq 1 .. MaxNotes
    BY <2>1, <2>2
  <2>4. \A d \in DOMAIN deliveries : d \in Nat /\ deliveries[d] \in Delivery
    BY <2>3 DEF NotesTyped, Messages, MessageOf, Delivery
  <2> QED BY <2>1, <2>2, <2>4 DEF NotesTyped, NotesTypeOK, NoteRow
<1> QED BY <1>1, NotesAreTyped, PTL

\* publish_release_note and its readers: nobody's message names a note that is
\* not published, in whatever order the requests commit what they have read.
THEOREM DeliveriesArePublished == NotesSpec => []DeliveredIsPublished
<1>1. NotesTyped => DeliveredIsPublished
  BY DEF NotesTyped, Messages, MessageOf, DeliveredIsPublished
<1> QED BY <1>1, NotesAreTyped, PTL
=============================================================================
