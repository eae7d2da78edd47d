---------------------------- MODULE ReleaseNotes ----------------------------
(***************************************************************************)
(* Release notes and their delivery: each user has one rolling message that *)
(* moves from note to note (services/release_note_service.py).  Publishing  *)
(* moves the messages of all users; every read of a user first moves the    *)
(* user's own to the latest note.  Nothing locks between a handler's reads  *)
(* and its commit.                                                          *)
(***************************************************************************)
EXTENDS InboxService, UnitOfWork, SequencesExt

CONSTANTS
  Versions,    \* semantic versions, as their rank
  MaxNotes,    \* bound on the notes
  MaxSends     \* bound on the calls that publish

ASSUME NoteConstants ==
  /\ Versions \subseteq Nat /\ Versions # {}
  /\ MaxNotes \in Nat \ {0} /\ MaxSends \in Nat

VARIABLES
  notes,       \* rows of ReleaseNote: [version, published]; 0 is unpublished
  deliveries,  \* id -> row of ReleaseNoteDelivery
  sends        \* calls that publish so far

Delivery == [user : Users, note : 1 .. MaxNotes, at : Nat, seen : BOOLEAN]

NotesTypeOK ==
  /\ notes \in Seq([version : Versions, published : Nat]) /\ Len(notes) <= MaxNotes
  /\ \A d \in DOMAIN deliveries : d \in Nat /\ deliveries[d] \in Delivery
  /\ sends \in 0 .. MaxSends

noteVars == <<notes, deliveries, sends, hidden, call>>

\* A first note was published before the users had an account.
NotesInit ==
  /\ notes = <<[version |-> Min(Versions), published |-> 1]>>
  /\ deliveries = [d \in {} |-> 0]
  /\ sends = 0
  /\ hidden = {} /\ call = [r \in Requests |-> NoCall]

Published == {n \in DOMAIN notes : notes[n].published > 0}

\* _get_latest_published_release_note
Latest ==
  CHOOSE n \in Published :
    \A m \in Published : \/ notes[m].published < notes[n].published
                         \/ notes[m].published = notes[n].published /\ m <= n

NextTime == 1 + Max({0} \cup {notes[n].published : n \in DOMAIN notes})
Room == Len(notes) + Cardinality({r \in Requests : Doing(r, "draft")}) < MaxNotes
WithVersion(v) == {n \in DOMAIN notes : notes[n].version = v}

\* _assert_release_note_version_is_not_older_than_latest_published
NotOlder(v) == \A n \in Published : n = Latest => v >= notes[n].version

-----------------------------------------------------------------------------
(***************************************************************************)
(* Drafts and publishing, by the administrator.                            *)
(***************************************************************************)
\* create_release_note_for_admin; the version is unique only by this check.
Draft(r, v) ==
  /\ WithVersion(v) = {} /\ Room
  /\ Begin(r, [op |-> "draft", version |-> v, publish |-> FALSE])
  /\ UNCHANGED <<notes, deliveries, hidden, sends>>

\* publish_changelog_release_note_for_admin, with the content that is stored:
\* a new version is drafted, a draft is published, and a published note is
\* delivered once more to whoever lacks it.
PublishChangelog(r, v) ==
  /\ sends < MaxSends /\ sends' = sends + 1
  /\ \/ /\ WithVersion(v) = {} /\ NotOlder(v) /\ Room
        /\ Begin(r, [op |-> "draft", version |-> v, publish |-> TRUE])
     \/ \E n \in WithVersion(v) :
          IF notes[n].published = 0
          THEN NotOlder(v) /\ Begin(r, [op |-> "check", note |-> n])
          ELSE Begin(r, [op |-> "sync", note |-> n, at |-> notes[n].published,
                         reset |-> FALSE])
  /\ UNCHANGED <<notes, deliveries, hidden>>

CommitDraft(r) ==
  /\ Doing(r, "draft")
  /\ notes' = Append(notes, [version |-> call[r].version, published |-> 0])
  /\ IF call[r].publish THEN Go(r, [op |-> "check", note |-> Len(notes) + 1])
                        ELSE Return(r)
  /\ UNCHANGED <<deliveries, hidden, sends>>

\* publish_release_note_for_admin: no version is checked.
Publish(r, n) ==
  /\ sends < MaxSends /\ sends' = sends + 1
  /\ Begin(r, [op |-> "check", note |-> n])
  /\ UNCHANGED <<notes, deliveries, hidden>>

\* _publish_release_note reads whether the note is published already, ...
CheckPublished(r) ==
  LET n == call[r].note
  IN /\ Doing(r, "check")
     /\ Go(r, IF notes[n].published = 0
              THEN [op |-> "publish", note |-> n]
              ELSE [op |-> "sync", note |-> n, at |-> notes[n].published, reset |-> TRUE])
     /\ UNCHANGED <<notes, deliveries, hidden, sends>>

\* Mutant: the deliveries go out before the note is committed as published.
SyncUnpublished(r) ==
  /\ Doing(r, "publish")
  /\ Go(r, [op |-> "sync", note |-> call[r].note, at |-> NextTime, reset |-> TRUE])
  /\ UNCHANGED <<notes, deliveries, hidden, sends>>

\* ... commits it as published, and then delivers it to everybody.
CommitPublished(r) ==
  LET n == call[r].note
  IN /\ Doing(r, "publish")
     /\ notes' = [notes EXCEPT ![n].published = NextTime]
     /\ Go(r, [op |-> "sync", note |-> n, at |-> NextTime, reset |-> TRUE])
     /\ UNCHANGED <<deliveries, hidden, sends>>

-----------------------------------------------------------------------------
(***************************************************************************)
(* _upsert_release_note_stream_delivery, for the users us of a transaction *)
(* that loaded the given rows.                                             *)
(***************************************************************************)
RowsOf(rows, u) == {d \in DOMAIN rows : rows[d].user = u}

\* The first by delivered_at and id, both descending.
Primary(rows, u) ==
  CHOOSE d \in RowsOf(rows, u) :
    \A e \in RowsOf(rows, u) : rows[e].at < rows[d].at \/ (rows[e].at = rows[d].at /\ e <= d)

Primaries(rows, us) == {Primary(rows, u) : u \in {v \in us : RowsOf(rows, v) # {}}}

\* Mutant: a user's other messages are kept.
NoStale(rows, us) == {}

Stale(rows, us) == (UNION {RowsOf(rows, u) : u \in us}) \ Primaries(rows, us)

Moved(row, c) ==
  [row EXCEPT !.note = c.note, !.at = c.at, !.seen = @ /\ row.note = c.note /\ ~c.reset]

\* Ids are never reused: new ones follow every id that anything refers to.
LastDelivery ==
  Max({0} \cup DOMAIN deliveries \cup (UNION {HiddenIds(u, "RELEASE_NOTE") : u \in Users})
      \cup (UNION {DOMAIN call[r].rows : r \in {q \in Requests : Doing(q, "deliver")}}))

\* The users without a message get one; an UPDATE of a row that is gone fails
\* the whole transaction.
Upsert(c) ==
  LET primaries == Primaries(c.rows, c.users)
      stale == Stale(c.rows, c.users)
      new == SetToSeq({u \in c.users : RowsOf(c.rows, u) = {}})
      kept == DOMAIN deliveries \ stale
  IN IF \E d \in primaries \ DOMAIN deliveries : Moved(c.rows[d], c) # c.rows[d]
     THEN UNCHANGED deliveries
     ELSE deliveries' =
       [d \in kept \cup {LastDelivery + i : i \in DOMAIN new} |->
          IF d \in primaries
          THEN Written(deliveries[d], Changed(c.rows[d], Moved(c.rows[d], c)))
          ELSE IF d \in kept THEN deliveries[d]
          ELSE [user |-> new[d - LastDelivery], note |-> c.note, at |-> c.at, seen |-> FALSE]]

\* _sync_release_note_deliveries_for_all_users reads everybody's rows.
Sync(r) ==
  /\ Doing(r, "sync")
  /\ Go(r, [op |-> "deliver", note |-> call[r].note, at |-> call[r].at,
            reset |-> call[r].reset, users |-> Users, rows |-> deliveries, mark |-> FALSE])
  /\ UNCHANGED <<notes, deliveries, hidden, sends>>

\* list_release_notes_for_current_user, mark_release_notes_seen_for_current_user
\* and get_feedback_summary begin with _ensure_release_note_deliveries_for_user.
Ensure(r, u, mark) ==
  IF Published = {} THEN Free(r) /\ UNCHANGED noteVars ELSE
  /\ Begin(r, [op |-> "ensure", note |-> Latest, at |-> notes[Latest].published,
               user |-> u, mark |-> mark])
  /\ UNCHANGED <<notes, deliveries, hidden, sends>>

LoadOwn(r) ==
  LET u == call[r].user
  IN /\ Doing(r, "ensure")
     /\ Go(r, [op |-> "deliver", note |-> call[r].note, at |-> call[r].at, reset |-> FALSE,
               users |-> {u}, mark |-> call[r].mark,
               rows |-> [d \in RowsOf(deliveries, u) |-> deliveries[d]]])
     /\ UNCHANGED <<notes, deliveries, hidden, sends>>

CommitDeliver(r) ==
  /\ Doing(r, "deliver")
  /\ Upsert(call[r])
  /\ IF call[r].mark THEN Go(r, [op |-> "unread", users |-> call[r].users]) ELSE Return(r)
  /\ UNCHANGED <<notes, hidden, sends>>

\* Unread messages that the user has not hidden.
Unread(u) ==
  {d \in RowsOf(deliveries, u) : ~deliveries[d].seen /\ d \notin HiddenIds(u, "RELEASE_NOTE")}

\* mark_release_notes_seen_for_current_user, after its ensure
LoadUnread(r) ==
  /\ Doing(r, "unread")
  /\ LET ids == UNION {Unread(u) : u \in call[r].users}
     IN IF ids = {} THEN Return(r) ELSE Go(r, [op |-> "seen", users |-> call[r].users, ids |-> ids])
  /\ UNCHANGED <<notes, deliveries, hidden, sends>>

CommitSeen(r) ==
  /\ Doing(r, "seen")
  /\ deliveries' = IF call[r].ids \subseteq DOMAIN deliveries
                   THEN [d \in DOMAIN deliveries |->
                           IF d \in call[r].ids THEN [deliveries[d] EXCEPT !.seen = TRUE]
                                                ELSE deliveries[d]]
                   ELSE deliveries
  /\ Return(r)
  /\ UNCHANGED <<notes, hidden, sends>>

HideDelivery(r, u, d) ==
  /\ deliveries[d].user = u
  /\ HideMessage(r, u, "RELEASE_NOTE", d)
  /\ UNCHANGED <<notes, deliveries, sends>>

\* A request fails before its next commit.
FailNotes(r) ==
  /\ call[r].op \in {"draft", "check", "publish", "sync", "ensure", "deliver", "unread", "seen"}
  /\ Return(r)
  /\ UNCHANGED <<notes, deliveries, hidden, sends>>

Continue(r) ==
  \/ CommitDraft(r) \/ CheckPublished(r) \/ CommitPublished(r)
  \/ Sync(r) \/ LoadOwn(r) \/ CommitDeliver(r) \/ LoadUnread(r) \/ CommitSeen(r)

NotesNext ==
  \E r \in Requests :
    \/ \E v \in Versions : Draft(r, v) \/ PublishChangelog(r, v)
    \/ \E n \in DOMAIN notes : Publish(r, n)
    \/ \E u \in Users, mark \in BOOLEAN : Ensure(r, u, mark)
    \/ Continue(r)
    \/ \E u \in Users, d \in DOMAIN deliveries : HideDelivery(r, u, d)
    \/ FailNotes(r)

NotesSpec == NotesInit /\ [][NotesNext]_noteVars

-----------------------------------------------------------------------------
\* No user is sent to a note that is not published: the commit that publishes
\* comes before the one that delivers, and a note is never unpublished.
DeliveredIsPublished ==
  \A d \in DOMAIN deliveries : deliveries[d].note \in Published

(***************************************************************************)
(* Requests end, and every user comes back to the inbox again and again    *)
(* and marks it as read, with requests that do not always fail.            *)
(***************************************************************************)
Fairness ==
  /\ \A r \in Requests : WF_noteVars(Continue(r))
  /\ \A u \in Users :
       /\ SF_noteVars(\E r \in Requests : Ensure(r, u, TRUE))
       /\ SF_noteVars(\E r \in Requests : LoadOwn(r) /\ call[r].user = u /\ call[r].mark)
       /\ SF_noteVars(\E r \in Requests : CommitDeliver(r) /\ call[r].users = {u} /\ call[r].mark)
       /\ SF_noteVars(\E r \in Requests : LoadUnread(r) /\ call[r].users = {u})
       /\ SF_noteVars(\E r \in Requests : CommitSeen(r) /\ call[r].users = {u})

FairSpec == NotesSpec /\ Fairness

Settled(u) ==
  Published # {} =>
    /\ Cardinality(RowsOf(deliveries, u)) = 1
    /\ \A d \in RowsOf(deliveries, u) : deliveries[d].note = Latest /\ d \notin Unread(u)

\* tests/test_feedback.py: the stream keeps a single message per user after
\* multiple publishes.  Whatever overlapping publications and reads have made
\* of the deliveries, a user who comes back ends up, once publishing is over,
\* with exactly one message, at the latest note, and it stays read.
StreamSettles == <>[](\A u \in Users : Settled(u))
=============================================================================
