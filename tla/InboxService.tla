---------------------------- MODULE InboxService ----------------------------
(***************************************************************************)
(* The inbox that feedback and release notes share: which messages a user   *)
(* has hidden (services/inbox_service.py), and the request threads, each of *)
(* which holds what its handler has read and not yet written.               *)
(***************************************************************************)
EXTENDS Integers, Sequences, FiniteSets, FiniteSetsExt

CONSTANTS
  Users,      \* usernames
  Admin,      \* the one administrator
  Requests    \* request threads

ASSUME InboxConstants == Admin \in Users /\ IsFiniteSet(Users) /\ IsFiniteSet(Requests)

VARIABLES
  hidden,     \* rows of InboxMessageVisibility: <<user, kind, message id>>
  call        \* request -> what its handler is about to write

NoCall == [op |-> "none"]

Free(r) == call[r] = NoCall
Doing(r, op) == call[r].op = op
Begin(r, c) == Free(r) /\ call' = [call EXCEPT ![r] = c]
Go(r, c) == call' = [call EXCEPT ![r] = c]
Return(r) == call' = [call EXCEPT ![r] = NoCall]

\* _load_hidden_message_ids
HiddenIds(u, kind) == {m[3] : m \in {h \in hidden : h[1] = u /\ h[2] = kind}}

\* The insert of hide_inbox_message_for_current_user, unique per message.
HideMessage(r, u, kind, id) ==
  /\ Free(r)
  /\ hidden' = hidden \cup {<<u, kind, id>>}
  /\ UNCHANGED call
=============================================================================
