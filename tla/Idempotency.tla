---------------------------- MODULE Idempotency -----------------------------
(***************************************************************************)
(* Requests that carry the same Idempotency-Key in the same scope          *)
(* (services/common_service.py and the four create handlers that use it).  *)
(*                                                                         *)
(* A handler looks the key up, does its work, looks the key up again to    *)
(* store its response, and commits.  create_holding_transaction commits    *)
(* the trade first and the response second; the other three handlers       *)
(* commit both at once.  Every lookup sees what is committed by then.      *)
(***************************************************************************)
EXTENDS Naturals, FiniteSets

CONSTANTS
  Requests,    \* what clients send with the one key, retries included
  Body,        \* request -> the parameters it carries
  NoRecord     \* what a lookup finds before a response is stored

Responses == [body : {Body[r] : r \in Requests}, effect : Requests]

ASSUME IdempotencyConstants == NoRecord \notin Requests \cup Responses

VARIABLES
  twoCommits, \* the scope is holding_transaction.create
  patient,    \* clients wait for an answer or an error before they retry
  record,   \* the stored row: [body, effect], or NoRecord
  effects,  \* requests whose trade, transfer, adjustment or task is committed
  stage,    \* request -> how far it got
  update,   \* request -> it found a row when it came to store its response
  replay    \* request -> the effect its replayed answer tells of

setting == <<twoCommits, patient>>
vars == <<setting, record, effects, stage, update, replay>>

Open == {"working", "applied", "storing"}
Ended == {"done", "replayed", "conflict", "lost"}

TypeOK ==
  /\ setting \in BOOLEAN \X BOOLEAN
  /\ record \in Responses \cup {NoRecord}
  /\ effects \subseteq Requests
  /\ stage \in [Requests -> {"new"} \cup Open \cup Ended]
  /\ update \in [Requests -> BOOLEAN]
  /\ replay \in [Requests -> Requests \cup {NoRecord}]

Init ==
  /\ twoCommits \in BOOLEAN
  /\ patient \in BOOLEAN
  /\ record = NoRecord
  /\ effects = {}
  /\ stage = [r \in Requests |-> "new"]
  /\ update = [r \in Requests |-> FALSE]
  /\ replay = [r \in Requests |-> NoRecord]

GoTo(r, next) == stage' = [stage EXCEPT ![r] = next]

MayArrive(r) ==
  /\ stage[r] = "new"
  /\ patient => \A q \in Requests : stage[q] \notin Open

\* Mutant: the parameters are not compared.
LoadAnyBody(r) ==
  /\ MayArrive(r)
  /\ GoTo(r, IF record = NoRecord THEN "working" ELSE "replayed")
  /\ replay' = [replay EXCEPT ![r] = IF record = NoRecord THEN NoRecord ELSE record.effect]
  /\ UNCHANGED <<record, effects, update>>

\* Mutant: a request does not look the key up before it works.
LoadNothing(r) ==
  /\ MayArrive(r)
  /\ GoTo(r, "working")
  /\ UNCHANGED <<record, effects, update, replay>>

\* _load_idempotent_response: work, replay, or 409 for other parameters.
Load(r) ==
  /\ MayArrive(r)
  /\ \/ record = NoRecord /\ GoTo(r, "working") /\ UNCHANGED replay
     \/ /\ record # NoRecord /\ record.body = Body[r]
        /\ GoTo(r, "replayed")
        /\ replay' = [replay EXCEPT ![r] = record.effect]
     \/ record # NoRecord /\ record.body # Body[r] /\ GoTo(r, "conflict") /\ UNCHANGED replay
  /\ UNCHANGED <<record, effects, update>>

\* The first commit of create_holding_transaction.
CommitWork(r) ==
  /\ twoCommits
  /\ stage[r] = "working"
  /\ effects' = effects \cup {r}
  /\ GoTo(r, "applied")
  /\ UNCHANGED <<record, update, replay>>

\* _store_idempotent_response looks for a row to overwrite.
Store(r) ==
  /\ stage[r] = IF twoCommits THEN "applied" ELSE "working"
  /\ update' = [update EXCEPT ![r] = record # NoRecord]
  /\ GoTo(r, "storing")
  /\ UNCHANGED <<record, effects, replay>>

\* Mutant: the response is not stored.
CommitUnstored(r) ==
  /\ stage[r] = "storing"
  /\ effects' = effects \cup {r}
  /\ GoTo(r, "done")
  /\ UNCHANGED <<record, update, replay>>

\* The last commit; a row that appeared meanwhile violates the unique key and
\* rolls back what is not committed yet.
Commit(r) ==
  /\ stage[r] = "storing"
  /\ IF update[r] \/ record = NoRecord
     THEN /\ record' = [body |-> Body[r], effect |-> r]
          /\ effects' = effects \cup {r}
          /\ GoTo(r, "done")
     ELSE GoTo(r, "lost") /\ UNCHANGED <<record, effects>>
  /\ UNCHANGED <<update, replay>>

\* The process dies, or any statement fails.
Fail(r) ==
  /\ stage[r] \in Open
  /\ GoTo(r, "lost")
  /\ UNCHANGED <<record, effects, update, replay>>

Next ==
  /\ \E r \in Requests :
       Load(r) \/ CommitWork(r) \/ Store(r) \/ Commit(r) \/ Fail(r)
  /\ UNCHANGED setting

Spec == Init /\ [][Next]_vars

-----------------------------------------------------------------------------
\* Whatever fails and however often a client that waits for each answer sends
\* the key again, with the same parameters or others, one call succeeds anew.
AppliedOnce ==
  patient => Cardinality({r \in effects : stage[r] = "done"}) <= 1

\* docs/agent-api.md: the key prevents duplicate side effects of retried
\* calls, which are those with the same parameters.
RetriesApplyOnce ==
  patient => \A q, r \in effects : Body[q] = Body[r] => q = r

\* A replayed answer tells of an effect that exists and that a request with
\* the same parameters had, also when concurrent requests overwrote the row.
ReplaysCommitted ==
  \A r \in Requests :
    stage[r] = "replayed" => replay[r] \in effects /\ Body[replay[r]] = Body[r]

\* Once any request has been answered with success, a request that arrives
\* later has no effect of its own, however many were under way at that time.
LateRequestsDoNothing ==
  [][\A r \in Requests :
       stage[r] = "new" /\ (\E q \in Requests : stage[q] = "done")
         => stage'[r] \notin Open]_vars
=============================================================================
