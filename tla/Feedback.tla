------------------------------ MODULE Feedback ------------------------------
(***************************************************************************)
(* Feedback items: users submit them, administrators and monitors add       *)
(* system items, the administrator replies, closes, acknowledges and        *)
(* classifies (services/feedback_user_service.py, feedback_admin_service.py,*)
(* feedback_model_service.py).                                              *)
(*                                                                          *)
(* Every handler reads its rows in one step and commits in another; nothing *)
(* locks in between.  Timestamps are present or absent.  The model is one   *)
(* day, which is also the window in which events are deduplicated.          *)
(* HEARTBEAT is a heartbeat of low priority, ALERT any other system item.   *)
(***************************************************************************)
EXTENDS InboxService, UnitOfWork

CONSTANTS
  MaxDaily,    \* MAX_DAILY_FEEDBACK_SUBMISSIONS
  EventKinds,  \* categories of system items
  Targets,     \* statuses that items are classified to; KEEP names none
  Desk,        \* ids of the items that are handled; the others only count
  MaxItems     \* bound on the rows

ASSUME FeedbackConstants ==
  /\ MaxDaily \in Nat \ {0} /\ MaxItems \in Nat
  /\ "USER" \notin EventKinds
  /\ Targets \subseteq {"KEEP", "OPEN", "ACKED", "IN_PROGRESS", "SILENCED", "RESOLVED"}

VARIABLE items   \* rows of UserFeedback; the id is the position

Kinds == {"USER"} \cup EventKinds
Statuses == {"OPEN", "ACKED", "IN_PROGRESS", "SILENCED", "RESOLVED"}

Item == [owner : Users, kind : Kinds, status : Statuses,
         resolved : BOOLEAN, replied : BOOLEAN, seen : BOOLEAN]

TypeOK ==
  /\ items \in Seq(Item) /\ Len(items) <= MaxItems
  /\ hidden \subseteq Users \X {"FEEDBACK"} \X (1 .. MaxItems)

vars == <<items, hidden, call>>

Init ==
  /\ items = <<>>
  /\ hidden = {} /\ call = [r \in Requests |-> NoCall]

\* _is_system_feedback_item
IsSystem(item) == item.kind # "USER"

\* Mutant: the stored status counts for more than the time of resolution.
StoredStatus(item) ==
  IF item.status = "OPEN" /\ item.resolved THEN "RESOLVED" ELSE item.status

\* _derive_feedback_status
DerivedStatus(item) ==
  IF item.resolved THEN "RESOLVED"
  ELSE IF item.status = "RESOLVED" THEN "OPEN"
  ELSE IF item.status = "OPEN" /\ item.replied THEN "IN_PROGRESS"
  ELSE item.status

-----------------------------------------------------------------------------
(***************************************************************************)
(* Submissions.                                                            *)
(***************************************************************************)
\* A handler has loaded item i and will commit the columns it changed.
Edit(r, i, op, new) ==
  /\ Begin(r, [op |-> op, item |-> i, changed |-> Changed(items[i], new)])
  /\ UNCHANGED <<items, hidden>>

NewItem(u, kind) ==
  LET auto == kind = "HEARTBEAT"
  IN [owner |-> u, kind |-> kind,
      status |-> IF auto THEN "RESOLVED" ELSE "OPEN", resolved |-> auto,
      replied |-> FALSE, seen |-> FALSE]

SubmittedToday(u) == {i \in DOMAIN items : items[i].owner = u}

\* Mutant: the limit counts one too many.
SubmitOneMore(r, u) ==
  /\ Cardinality(SubmittedToday(u)) <= MaxDaily
  /\ Begin(r, [op |-> "insert", new |-> NewItem(u, "USER")])
  /\ UNCHANGED <<items, hidden>>

\* submit_feedback of a user request: everything the user sent today counts.
Submit(r, u) ==
  /\ Cardinality(SubmittedToday(u)) < MaxDaily
  /\ Begin(r, [op |-> "insert", new |-> NewItem(u, "USER")])
  /\ UNCHANGED <<items, hidden>>

\* submit_feedback of a system event: the latest event with its fingerprint
\* in the window takes it, and opens again if it was resolved.  An event
\* without a fingerprint is inserted like the first of its kind.
SubmitEvent(r, kind) ==
  LET same == {i \in SubmittedToday(Admin) : items[i].kind = kind}
      old == items[Max(same)]
      reopened == IF old.resolved THEN [old EXCEPT !.status = "OPEN", !.resolved = FALSE]
                                  ELSE old
  IN IF same = {}
     THEN /\ Begin(r, [op |-> "insert", new |-> NewItem(Admin, kind)])
          /\ UNCHANGED <<items, hidden>>
     ELSE Edit(r, Max(same), "reopen", reopened)

CommitInsert(r) ==
  /\ Doing(r, "insert") /\ Len(items) < MaxItems
  /\ items' = Append(items, call[r].new)
  /\ Return(r)
  /\ UNCHANGED hidden

-----------------------------------------------------------------------------
(***************************************************************************)
(* The administrator's handlers: each loads an item, decides, and commits   *)
(* the columns it changed.                                                  *)
(***************************************************************************)
Resolved(item) == [item EXCEPT !.resolved = TRUE, !.status = "RESOLVED"]

\* reply_to_feedback_for_admin
Reply(r, i, close) ==
  LET replied == [items[i] EXCEPT !.replied = TRUE, !.seen = FALSE]
  IN /\ ~IsSystem(items[i])
     /\ Edit(r, i, "edit", IF close /\ ~items[i].resolved
                            THEN Resolved(replied)
                            ELSE [replied EXCEPT !.status = "IN_PROGRESS"])

\* close_feedback_for_admin
Close(r, i) ==
  /\ ~items[i].resolved
  /\ Edit(r, i, "edit", Resolved(items[i]))

\* Mutant: the acknowledgement clears the resolution, as OPEN and ACKED do.
AcknowledgeAnew(r, i) ==
  Edit(r, i, "edit", [items[i] EXCEPT !.status = "ACKED", !.resolved = FALSE])

\* acknowledge_feedback_for_admin
Acknowledge(r, i) ==
  /\ ~items[i].resolved
  /\ Edit(r, i, "edit", [items[i] EXCEPT !.status = "ACKED"])

\* classify_feedback_for_admin: category and source first, then
\* _apply_feedback_status_transition, which may refuse SILENCED.
Classify(r, i, kind, target) ==
  LET item == [items[i] EXCEPT !.kind = kind]
  IN /\ target = "SILENCED" => IsSystem(item)
     /\ Edit(r, i, "reopen",
             CASE target = "KEEP" -> item
               [] target = "RESOLVED" -> Resolved(item)
               [] OTHER -> [item EXCEPT !.resolved = FALSE, !.status = target])

CommitEdit(r) ==
  /\ call[r].op \in {"edit", "reopen"}
  /\ items' = [items EXCEPT ![call[r].item] = Written(@, call[r].changed)]
  /\ Return(r)
  /\ UNCHANGED hidden

-----------------------------------------------------------------------------
\* mark_feedback_seen_for_current_user: every unread reply that is not hidden.
UnreadReplies(u) ==
  {i \in DOMAIN items : /\ items[i].owner = u /\ items[i].replied /\ ~items[i].seen
                        /\ i \notin HiddenIds(u, "FEEDBACK")}

MarkSeen(r, u) ==
  /\ UnreadReplies(u) # {}
  /\ Begin(r, [op |-> "mark", ids |-> UnreadReplies(u)])
  /\ UNCHANGED <<items, hidden>>

CommitMark(r) ==
  /\ Doing(r, "mark")
  /\ items' = [i \in DOMAIN items |->
                 IF i \in call[r].ids THEN [items[i] EXCEPT !.seen = TRUE] ELSE items[i]]
  /\ Return(r)
  /\ UNCHANGED hidden

\* hide_inbox_message_for_current_user: the administrator may hide any item.
HideFeedback(r, u, i) ==
  /\ u = Admin \/ items[i].owner = u
  /\ HideMessage(r, u, "FEEDBACK", i)
  /\ UNCHANGED items

\* A request fails before its commit.
FailFeedback(r) ==
  /\ call[r].op \in {"insert", "edit", "reopen", "mark"}
  /\ Return(r)
  /\ UNCHANGED <<items, hidden>>

SubmitStep ==
  \E r \in Requests :
    \/ \E u \in Users : Submit(r, u)
    \/ \E kind \in EventKinds : SubmitEvent(r, kind)

AdminStep ==
  \E r \in Requests, i \in Desk \cap DOMAIN items :
    \/ \E close \in BOOLEAN : Reply(r, i, close)
    \/ Close(r, i)
    \/ Acknowledge(r, i)
    \/ \E kind \in Kinds, target \in Targets : Classify(r, i, kind, target)

CommitFeedback(r) == CommitInsert(r) \/ CommitEdit(r) \/ CommitMark(r)

Next ==
  \/ SubmitStep
  \/ AdminStep
  \/ \E r \in Requests :
       \/ CommitFeedback(r)
       \/ FailFeedback(r)
       \/ \E u \in Users : MarkSeen(r, u)
       \/ \E u \in Users, i \in Desk \cap DOMAIN items : HideFeedback(r, u, i)

Spec == Init /\ [][Next]_vars

-----------------------------------------------------------------------------
(***************************************************************************)
(* What the lists and the badge show.                                      *)
(***************************************************************************)
\* list_feedback_for_current_user
ListedForUser(u) ==
  {i \in DOMAIN items : items[i].owner = u /\ i \notin HiddenIds(u, "FEEDBACK")}

\* list_user_feedback_for_admin, list_system_feedback_for_admin with a filter
\* on the status.
ListedForAdmin(system, statuses) ==
  {i \in DOMAIN items : /\ IsSystem(items[i]) = system
                        /\ i \notin HiddenIds(Admin, "FEEDBACK")
                        /\ DerivedStatus(items[i]) \in statuses}

\* get_feedback_summary, the part about feedback
FeedbackCount(u) ==
  IF u = Admin
  THEN Cardinality({i \in DOMAIN items : /\ ~items[i].resolved
                                         /\ i \notin HiddenIds(Admin, "FEEDBACK")})
  ELSE Cardinality(UnreadReplies(u))

\* The badge of the administrator counts exactly what the two lists show as
\* not resolved, and the badge of a user counts listed items only: the one
\* asks resolved_at in SQL, the other derives a status in Python, while
\* handlers leave every combination of the two in the table.
BadgeMatchesLists ==
  LET open == Statuses \ {"RESOLVED"}
  IN /\ FeedbackCount(Admin)
          = Cardinality(ListedForAdmin(TRUE, open)) + Cardinality(ListedForAdmin(FALSE, open))
     /\ \A u \in Users \ {Admin} : UnreadReplies(u) \subseteq ListedForUser(u)

\* However many requests of a user count before the others insert, the daily
\* limit is exceeded by less than the number of request threads.
DailyLimitOvershoot ==
  \A u \in Users \ {Admin} :
    Cardinality(SubmittedToday(u)) < MaxDaily + Cardinality(Requests)

\* A resolved item reads as open again only when it was classified or when its
\* event came again; a reply or an acknowledgement that read the item before
\* it was closed does not undo the close.
ResolvedUntilReopened ==
  [][\A i \in DOMAIN items :
       /\ DerivedStatus(items[i]) = "RESOLVED"
       /\ DerivedStatus(items'[i]) # "RESOLVED"
       => \E r \in Requests : /\ Doing(r, "reopen") /\ call[r].item = i
                              /\ call'[r] = NoCall]_vars
=============================================================================
