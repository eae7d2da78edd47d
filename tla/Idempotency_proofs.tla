------------------------- MODULE Idempotency_proofs -------------------------
(***************************************************************************)
(* The promises of the idempotency key hold for every set of requests,     *)
(* finite or not, and whatever parameters they carry: in both kinds of     *)
(* handler, with clients that wait for an answer and clients that do not.  *)
(***************************************************************************)
EXTENDS Idempotency, FiniteSetTheorems, TLAPS

(***************************************************************************)
(* The inductive invariant.  A stored row tells of a committed effect and  *)
(* of the parameters that had it; nobody is told "done" before a row is    *)
(* stored; and with patient clients there is at most one open request,     *)
(* which found no row and still would find none.                           *)
(***************************************************************************)
RecordTrue ==
  record # NoRecord => record.effect \in effects /\ Body[record.effect] = record.body

DoneIsStored ==
  \A r \in Requests : stage[r] = "done" => record # NoRecord

OneAtATime ==
  patient =>
    /\ \A q, r \in Requests : stage[q] \in Open /\ stage[r] \in Open => q = r
    /\ \A r \in Requests : stage[r] \in Open => record = NoRecord
    /\ \A r \in Requests : stage[r] \in Open \cup {"new"} => ~update[r]
    /\ \A q, r \in Requests : stage[q] = "done" /\ stage[r] = "done" => q = r

Answers == TypeOK /\ RecordTrue /\ DoneIsStored /\ ReplaysCommitted /\ OneAtATime

\* Every start is as the invariant says: no row, no effect, no request open.
LEMMA AnswersInit == Init => Answers
<1> SUFFICES ASSUME Init PROVE Answers
  OBVIOUS
<1>1. TypeOK
  BY DEF Init, TypeOK, setting
<1>2. RecordTrue /\ DoneIsStored /\ ReplaysCommitted /\ OneAtATime
  BY DEF Init, RecordTrue, DoneIsStored, ReplaysCommitted, OneAtATime, Open
<1> QED BY <1>1, <1>2 DEF Answers

\* Looking the key up starts work, replays the row or refuses: it starts work
\* only where no row is stored, and replays only what the row tells of.
LEMMA LoadAnswers ==
  ASSUME NEW r \in Requests, Answers, Load(r), UNCHANGED setting
  PROVE  Answers'
<1> USE DEF Answers
<1>1. /\ MayArrive(r)
      /\ record' = record /\ effects' = effects /\ update' = update
      /\ twoCommits' = twoCommits /\ patient' = patient
  BY DEF Load, setting
<1>2. stage \in [Requests -> {"new"} \cup Open \cup Ended]
      /\ replay \in [Requests -> Requests \cup {NoRecord}]
  BY DEF TypeOK
<1>3. stage[r] = "new"
  BY <1>1 DEF MayArrive
<1>4. CASE record = NoRecord /\ GoTo(r, "working") /\ UNCHANGED replay
  <2>1. /\ stage'[r] = "working"
        /\ \A q \in Requests \ {r} : stage'[q] = stage[q]
        /\ stage' \in [Requests -> {"new"} \cup Open \cup Ended]
    BY <1>2, <1>4 DEF GoTo, Open
  <2>2. TypeOK'
    BY <1>1, <1>4, <2>1 DEF TypeOK, Open, setting
  <2>3. RecordTrue' /\ DoneIsStored' /\ ReplaysCommitted'
    BY <1>1, <1>4, <2>1 DEF RecordTrue, DoneIsStored, ReplaysCommitted
  <2>4. OneAtATime'
    BY <1>1, <1>3, <1>4, <2>1 DEF OneAtATime, MayArrive, Open
  <2> QED BY <2>2, <2>3, <2>4
<1>5. CASE /\ record # NoRecord /\ record.body = Body[r]
           /\ GoTo(r, "replayed")
           /\ replay' = [replay EXCEPT ![r] = record.effect]
  <2>1. /\ stage'[r] = "replayed"
        /\ \A q \in Requests \ {r} : stage'[q] = stage[q]
        /\ stage' \in [Requests -> {"new"} \cup Open \cup Ended]
    BY <1>2, <1>5 DEF GoTo, Ended
  <2>2. record.effect \in Requests
    BY <1>5 DEF TypeOK, Responses
  <2>3. /\ replay'[r] = record.effect
        /\ \A q \in Requests \ {r} : replay'[q] = replay[q]
        /\ replay' \in [Requests -> Requests \cup {NoRecord}]
    BY <1>2, <1>5, <2>2
  <2>4. TypeOK'
    BY <1>1, <2>1, <2>3 DEF TypeOK, setting
  <2>5. RecordTrue' /\ DoneIsStored' /\ ReplaysCommitted'
    BY <1>1, <1>5, <2>1, <2>3 DEF RecordTrue, DoneIsStored, ReplaysCommitted
  <2>6. OneAtATime'
    BY <1>1, <1>3, <2>1 DEF OneAtATime, Open
  <2> QED BY <2>4, <2>5, <2>6
<1>6. CASE record # NoRecord /\ record.body # Body[r] /\ GoTo(r, "conflict") /\ UNCHANGED replay
  <2>1. /\ stage'[r] = "conflict"
        /\ \A q \in Requests \ {r} : stage'[q] = stage[q]
        /\ stage' \in [Requests -> {"new"} \cup Open \cup Ended]
    BY <1>2, <1>6 DEF GoTo, Ended
  <2>2. TypeOK'
    BY <1>1, <1>6, <2>1 DEF TypeOK, setting
  <2>3. RecordTrue' /\ DoneIsStored' /\ ReplaysCommitted'
    BY <1>1, <1>6, <2>1 DEF RecordTrue, DoneIsStored, ReplaysCommitted
  <2>4. OneAtATime'
    BY <1>1, <1>3, <2>1 DEF OneAtATime, Open
  <2> QED BY <2>2, <2>3, <2>4
<1> QED BY <1>4, <1>5, <1>6 DEF Load

\* The work committed by itself adds an effect and no answer.
LEMMA CommitWorkAnswers ==
  ASSUME NEW r \in Requests, Answers, CommitWork(r), UNCHANGED setting
  PROVE  Answers'
<1> USE DEF Answers
<1>1. /\ stage[r] = "working" /\ effects' = effects \cup {r} /\ GoTo(r, "applied")
      /\ record' = record /\ update' = update /\ replay' = replay
      /\ twoCommits' = twoCommits /\ patient' = patient
  BY DEF CommitWork, setting
<1>2. /\ stage'[r] = "applied"
      /\ \A q \in Requests \ {r} : stage'[q] = stage[q]
      /\ stage' \in [Requests -> {"new"} \cup Open \cup Ended]
  BY <1>1 DEF GoTo, Open, TypeOK
<1>3. TypeOK'
  BY <1>1, <1>2 DEF TypeOK, setting
<1>4. RecordTrue' /\ DoneIsStored' /\ ReplaysCommitted'
  BY <1>1, <1>2 DEF RecordTrue, DoneIsStored, ReplaysCommitted
<1>5. OneAtATime'
  BY <1>1, <1>2 DEF OneAtATime, Open
<1> QED BY <1>3, <1>4, <1>5

\* Whoever comes to store a response alone finds no row to overwrite.
LEMMA StoreAnswers ==
  ASSUME NEW r \in Requests, Answers, Store(r), UNCHANGED setting
  PROVE  Answers'
<1> USE DEF Answers
<1>1. /\ stage[r] \in Open /\ GoTo(r, "storing")
      /\ update' = [update EXCEPT ![r] = record # NoRecord]
      /\ record' = record /\ effects' = effects /\ replay' = replay
      /\ twoCommits' = twoCommits /\ patient' = patient
  BY DEF Store, setting, Open
<1>2. /\ stage'[r] = "storing"
      /\ \A q \in Requests \ {r} : stage'[q] = stage[q]
      /\ stage' \in [Requests -> {"new"} \cup Open \cup Ended]
  BY <1>1 DEF GoTo, Open, TypeOK
<1>3. /\ update'[r] = (record # NoRecord)
      /\ \A q \in Requests \ {r} : update'[q] = update[q]
      /\ update' \in [Requests -> BOOLEAN]
  BY <1>1 DEF TypeOK
<1>4. TypeOK'
  BY <1>1, <1>2, <1>3 DEF TypeOK, setting
<1>5. RecordTrue' /\ DoneIsStored' /\ ReplaysCommitted'
  BY <1>1, <1>2 DEF RecordTrue, DoneIsStored, ReplaysCommitted
<1>6. OneAtATime'
  <2> SUFFICES ASSUME patient
               PROVE  /\ \A p, q \in Requests : stage'[p] \in Open /\ stage'[q] \in Open => p = q
                      /\ \A q \in Requests : stage'[q] \in Open => record' = NoRecord
                      /\ \A q \in Requests : stage'[q] \in Open \cup {"new"} => ~update'[q]
                      /\ \A p, q \in Requests : stage'[p] = "done" /\ stage'[q] = "done" => p = q
    BY <1>1 DEF OneAtATime, Open
  <2>1. \A q \in Requests : /\ stage'[q] \in Open <=> stage[q] \in Open
                            /\ stage'[q] = "done" <=> stage[q] = "done"
                            /\ stage'[q] \in Open \cup {"new"} <=> stage[q] \in Open \cup {"new"}
    BY <1>1, <1>2 DEF Open
  <2>2. record = NoRecord /\ ~update'[r]
    BY <1>1, <1>3 DEF OneAtATime
  <2> QED BY <1>1, <1>3, <2>1, <2>2 DEF OneAtATime
<1> QED BY <1>4, <1>5, <1>6

\* The last commit: the row it writes tells of the effect it commits with it,
\* and where a second answer could be given the commit is refused instead.
LEMMA CommitAnswers ==
  ASSUME NEW r \in Requests, Answers, Commit(r), UNCHANGED setting
  PROVE  Answers'
<1> USE DEF Answers
<1>1. /\ stage[r] = "storing" /\ update' = update /\ replay' = replay
      /\ twoCommits' = twoCommits /\ patient' = patient
  BY DEF Commit, setting
<1>2. CASE update[r] \/ record = NoRecord
  <2>1. /\ record' = [body |-> Body[r], effect |-> r]
        /\ effects' = effects \cup {r} /\ GoTo(r, "done")
    BY <1>2 DEF Commit
  <2>2. /\ stage'[r] = "done"
        /\ \A q \in Requests \ {r} : stage'[q] = stage[q]
        /\ stage' \in [Requests -> {"new"} \cup Open \cup Ended]
    BY <2>1 DEF GoTo, Ended, TypeOK
  <2>3. record' \in Responses /\ record'.effect = r /\ record'.body = Body[r]
    BY <2>1 DEF Responses
  <2>4. record' # NoRecord
    BY <2>3, IdempotencyConstants
  <2>5. TypeOK'
    BY <1>1, <2>1, <2>2, <2>3 DEF TypeOK, setting
  <2>6. RecordTrue' /\ DoneIsStored' /\ ReplaysCommitted'
    BY <1>1, <2>1, <2>2, <2>3, <2>4 DEF RecordTrue, DoneIsStored, ReplaysCommitted
  <2>7. OneAtATime'
    BY <1>1, <2>2 DEF OneAtATime, DoneIsStored, Open
  <2> QED BY <2>5, <2>6, <2>7
<1>3. CASE ~ (update[r] \/ record = NoRecord)
  <2>1. /\ GoTo(r, "lost") /\ record' = record /\ effects' = effects
    BY <1>3 DEF Commit
  <2>2. /\ stage'[r] = "lost"
        /\ \A q \in Requests \ {r} : stage'[q] = stage[q]
        /\ stage' \in [Requests -> {"new"} \cup Open \cup Ended]
    BY <2>1 DEF GoTo, Ended, TypeOK
  <2>3. TypeOK'
    BY <1>1, <2>1, <2>2 DEF TypeOK, setting
  <2>4. RecordTrue' /\ DoneIsStored' /\ ReplaysCommitted'
    BY <1>1, <2>1, <2>2 DEF RecordTrue, DoneIsStored, ReplaysCommitted
  <2>5. OneAtATime'
    BY <1>1, <2>1, <2>2 DEF OneAtATime, Open
  <2> QED BY <2>3, <2>4, <2>5
<1> QED BY <1>2, <1>3

\* A failure only closes a request.
LEMMA FailAnswers ==
  ASSUME NEW r \in Requests, Answers, Fail(r), UNCHANGED setting
  PROVE  Answers'
<1> USE DEF Answers
<1>1. /\ GoTo(r, "lost")
      /\ record' = record /\ effects' = effects /\ update' = update /\ replay' = replay
      /\ twoCommits' = twoCommits /\ patient' = patient
  BY DEF Fail, setting
<1>2. /\ stage'[r] = "lost"
      /\ \A q \in Requests \ {r} : stage'[q] = stage[q]
      /\ stage' \in [Requests -> {"new"} \cup Open \cup Ended]
  BY <1>1 DEF GoTo, Ended, TypeOK
<1>3. TypeOK'
  BY <1>1, <1>2 DEF TypeOK, setting
<1>4. RecordTrue' /\ DoneIsStored' /\ ReplaysCommitted'
  BY <1>1, <1>2 DEF RecordTrue, DoneIsStored, ReplaysCommitted
<1>5. OneAtATime'
  BY <1>1, <1>2 DEF OneAtATime, Open
<1> QED BY <1>3, <1>4, <1>5

\* No step of any request breaks the invariant.
LEMMA AnswersStep == Answers /\ [Next]_vars => Answers'
<1> SUFFICES ASSUME Answers, [Next]_vars PROVE Answers'
  OBVIOUS
<1>1. CASE Next
  <2>1. PICK r \in Requests :
          Load(r) \/ CommitWork(r) \/ Store(r) \/ Commit(r) \/ Fail(r)
    BY <1>1 DEF Next
  <2>2. UNCHANGED setting
    BY <1>1 DEF Next
  <2> QED BY <2>1, <2>2, LoadAnswers, CommitWorkAnswers, StoreAnswers, CommitAnswers, FailAnswers
<1>2. CASE UNCHANGED vars
  BY <1>2 DEF vars, setting, Answers, TypeOK, RecordTrue, DoneIsStored, ReplaysCommitted, OneAtATime
<1> QED BY <1>1, <1>2

\* Every reachable state satisfies the invariant.
THEOREM AnswersHold == Spec => []Answers
<1> QED BY AnswersInit, AnswersStep, PTL DEF Spec

\* A replayed answer tells of an effect that exists and that a request with
\* the same parameters had, however many concurrent requests share the key.
THEOREM ReplaysTellTruth == Spec => []ReplaysCommitted
<1>1. Answers => ReplaysCommitted
  BY DEF Answers
<1> QED BY <1>1, AnswersHold, PTL

\* With clients that wait for each answer, whatever fails, at most one request
\* with the key is told that its own call succeeded.
THEOREM OneCallSucceeds == Spec => []AppliedOnce
<1>1. ASSUME Answers PROVE AppliedOnce
  <2> DEFINE D == {r \in effects : stage[r] = "done"}
  <2>1. SUFFICES ASSUME patient PROVE Cardinality(D) <= 1
    BY DEF AppliedOnce
  <2>2. \A q, r \in D : q = r
    BY <1>1, <2>1 DEF Answers, TypeOK, OneAtATime
  <2>3. CASE D = {}
    BY <2>3, FS_EmptySet
  <2>4. CASE D # {}
    <3>1. PICK q : D = {q}
      BY <2>2, <2>4
    <3> QED BY <3>1, FS_Singleton
  <2> QED BY <2>3, <2>4
<1> QED BY <1>1, AnswersHold, PTL

\* Once any request was told "done", one that arrives later is replayed or
\* refused and has no effect, however many were under way at that time.
THEOREM LateRequestsAreAnswered == Spec => LateRequestsDoNothing
<1> DEFINE Late ==
      \A r \in Requests :
        stage[r] = "new" /\ (\E q \in Requests : stage[q] = "done") => stage'[r] \notin Open
<1>1. ASSUME Answers, Next PROVE Late
  <2>1. SUFFICES ASSUME NEW r \in Requests, stage[r] = "new",
                        NEW q \in Requests, stage[q] = "done"
                 PROVE  stage'[r] \notin Open
    OBVIOUS
  <2>2. record # NoRecord /\ stage \in [Requests -> {"new"} \cup Open \cup Ended]
    BY <1>1, <2>1 DEF Answers, DoneIsStored, TypeOK
  <2>3. PICK p \in Requests :
          Load(p) \/ CommitWork(p) \/ Store(p) \/ Commit(p) \/ Fail(p)
    BY <1>1 DEF Next
  <2>4. CASE p # r
    <3>1. \E next : GoTo(p, next)
      BY <2>3 DEF Load, CommitWork, Store, Commit, Fail
    <3>2. stage'[r] = stage[r]
      BY <2>2, <2>4, <3>1 DEF GoTo
    <3> QED BY <2>1, <3>2 DEF Open
  <2>5. CASE p = r
    <3>1. Load(r)
      BY <2>1, <2>3, <2>5 DEF CommitWork, Store, Commit, Fail, Open
    <3>2. GoTo(r, "replayed") \/ GoTo(r, "conflict")
      BY <2>2, <3>1 DEF Load
    <3> QED BY <2>2, <3>2 DEF GoTo, Open
  <2> QED BY <2>4, <2>5
<1>2. Answers /\ [Next]_vars => [Late]_vars
  BY <1>1
<1> QED BY <1>2, AnswersHold, PTL DEF Spec, LateRequestsDoNothing
=============================================================================
