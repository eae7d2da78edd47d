------------------------ MODULE BackgroundJobs_proofs -----------------------
(***************************************************************************)
(* The safety properties of BackgroundJobs hold in every reachable state,  *)
(* for every set of users, tasks and requests and every bound, and the     *)
(* outbox with its worker implements JobQueue.                             *)
(***************************************************************************)
EXTENDS BackgroundJobs, FiniteSetTheorems, TLAPS

(***************************************************************************)
(* The inductive invariant.  Part by part: the types; which job the worker *)
(* holds at each of its steps; which rows the open requests will insert;   *)
(* how the versions of one user's data relate; what a missing holding      *)
(* history is accompanied by; how often a command can still take effect.   *)
(***************************************************************************)
SnapshotSteps == {"check", "claim", "read", "history", "both", "portfolio"}
TaskSteps == {"task", "command", "running", "done", "failed"}
Steps == {"idle", "down", "finish", "fail"} \cup SnapshotSteps \cup TaskSteps
Resting == worker.step \in {"idle", "down"}
SpentSteps == {"done", "failed", "finish", "fail"}

JobRows == [key : Keys, status : Active \cup {"DONE", "FAILED"}]
WorkerStates ==
  [step : Steps, job : Nat, seen : Nat, processed : BOOLEAN, base : Nat]

Typed ==
  /\ version \in [Users -> Nat]
  /\ built \in [Users -> Nat]
  /\ history \in [Users -> {"PENDING", "RUNNING", "DONE"}]
  /\ gap \in [Users -> BOOLEAN]
  /\ jobs \in [DOMAIN jobs -> JobRows] /\ DOMAIN jobs \subseteq 1 .. MaxJobs
  /\ DOMAIN request = Slots \cup {Worker}
  /\ task \in [Tasks -> {"NONE", "DONE", "FAILED"} \cup Active]
  /\ effects \in [Tasks -> Nat]
  /\ worker \in WorkerStates
  /\ faults \in 0 .. MaxFaults

\* The worker holds the one job that is RUNNING, of the kind its step serves;
\* only when the process is down may a RUNNING job be in nobody's hand.
Holds ==
  /\ Resting <=> worker.job = Nobody
  /\ Resting => worker.base = 0
  /\ ~Resting => worker.job \in DOMAIN jobs /\ jobs[worker.job].status = "RUNNING"
  /\ worker.step \in SnapshotSteps => Key \in Users
  /\ worker.step \in TaskSteps => Key \in Tasks
  /\ ~At("down") => \A j \in DOMAIN jobs : jobs[j].status = "RUNNING" => j = worker.job

\* Rows to be inserted have ids of their own.
OpenRow(q) ==
  /\ q.stage \in {"none", "open"}
  /\ q.row \in 0 .. MaxJobs
  /\ q.row # Nobody => q.row \notin DOMAIN jobs
  /\ q.stage = "open" => q.key \in Keys

RowsFresh ==
  /\ \A s \in Slots \cup {Worker} : OpenRow(request[s])
  /\ request[Worker].stage = "open" => request[Worker].key \in Users
  /\ \A r, s \in Slots \cup {Worker} :
       request[r].row = request[s].row => r = s \/ request[s].row = Nobody

\* What a rebuild has read is not older than what was committed when its job
\* was claimed, nor than what the snapshots show already.
VersionsOrdered ==
  /\ \A u \in Users : built[u] <= version[u] /\ version[u] <= MaxVersion
  /\ ~Resting /\ Key \in Users =>
       /\ worker.base <= version[Key]
       /\ worker.step \in {"history", "both", "portfolio"} =>
            /\ worker.base <= worker.seen /\ worker.seen <= version[Key]
            /\ built[Key] <= worker.seen
       /\ worker.processed /\ history[Key] = "DONE" => worker.base <= built[Key]
       /\ At("finish") => worker.base <= built[Key]

\* A rebuild in progress keeps its request row from being DONE.
GapsHeld ==
  /\ GapsAreClaimed
  /\ worker.step \in {"read", "history", "both"} => history[Key] \in Active
  /\ At("both") => ~gap[Key]

\* A task has one job, which an open request inserts or has inserted; until
\* the job's work is spent, its command has taken effect for faults alone.
Unspent(j) ==
  jobs[j].status \in Active /\ ~(worker.job = j /\ worker.step \in SpentSteps)

TasksOnce ==
  /\ \A t \in Tasks :
       /\ effects[t] <= 1 + faults
       /\ task[t] = "NONE" =>
            effects[t] = 0 /\ \A j \in DOMAIN jobs : jobs[j].key # t
  /\ \A i, j \in DOMAIN jobs : jobs[i].key \in Tasks /\ jobs[i].key = jobs[j].key => i = j
  /\ \A j \in DOMAIN jobs : jobs[j].key \in Tasks /\ Unspent(j) => effects[jobs[j].key] <= faults
  /\ \A s \in Slots : request[s].stage = "open" /\ request[s].key \in Tasks =>
       /\ task[request[s].key] = "NONE"
       /\ \A r \in Slots : request[r].stage = "open" /\ request[r].key = request[s].key => r = s

IInv == Typed /\ Holds /\ RowsFresh /\ VersionsOrdered /\ GapsHeld /\ TasksOnce

-----------------------------------------------------------------------------
(***************************************************************************)
(* What the shared parts of the handlers do.                               *)
(***************************************************************************)

\* A commit leaves the rows there were and adds the request's row, if any.
LEMMA InsertedRows ==
  ASSUME Typed, RowsFresh,
         NEW s \in Slots \cup {Worker}, request[s].stage = "open"
  PROVE  /\ DOMAIN Inserted(s) = DOMAIN jobs \cup ({request[s].row} \ {Nobody})
         /\ DOMAIN Inserted(s) \subseteq 1 .. MaxJobs
         /\ Inserted(s) \in [DOMAIN Inserted(s) -> JobRows]
         /\ \A j \in DOMAIN jobs : Inserted(s)[j] = jobs[j]
         /\ \A j \in DOMAIN Inserted(s) \ DOMAIN jobs :
              /\ j = request[s].row
              /\ Inserted(s)[j].key = request[s].key
              /\ Inserted(s)[j].status = "PENDING"
<1>1. CASE request[s].row = Nobody
  BY <1>1 DEF Inserted, Typed
<1>2. CASE request[s].row # Nobody
  <2>1. request[s].row \in 1 .. MaxJobs \ DOMAIN jobs /\ request[s].key \in Keys
    BY <1>2, JobConstants DEF RowsFresh, OpenRow, Nobody
  <2> QED
    BY <1>2, <2>1 DEF Inserted, Typed, JobRows, Active
<1> QED
  BY <1>1, <1>2

\* The worker between two jobs, and none.
LEMMA RestingStates ==
  /\ Idle \in WorkerStates /\ Idle.step = "idle" /\ Idle.job = 0 /\ Idle.base = 0
  /\ Down \in WorkerStates /\ Down.step = "down" /\ Down.job = 0 /\ Down.base = 0
BY DEF Idle, Down, Nobody, WorkerStates, Steps

\* A change of one row's status leaves its key and all other rows.
LEMMA StatusSet ==
  ASSUME Typed, NEW j \in DOMAIN jobs, NEW status \in Active \cup {"DONE", "FAILED"},
         jobs' = [jobs EXCEPT ![j].status = status]
  PROVE  /\ DOMAIN jobs' = DOMAIN jobs
         /\ jobs' \in [DOMAIN jobs' -> JobRows]
         /\ jobs'[j].status = status
         /\ \A i \in DOMAIN jobs : jobs'[i].key = jobs[i].key /\ (i # j => jobs'[i] = jobs[i])
BY DEF Typed, JobRows

\* An enqueue opens a request whose row nobody else has.
LEMMA EnqueuedRow ==
  ASSUME Typed, RowsFresh, NEW s \in Slots \cup {Worker}, NEW k, NEW trade, NEW u,
         Enqueue(s, k, trade, u)
  PROVE  /\ request[s] = NoRequest
         /\ request' = [request EXCEPT ![s] = request'[s]]
         /\ request'[s].stage = "open" /\ request'[s].key = k
         /\ request'[s].row \in 0 .. MaxJobs
         /\ request'[s].row # Nobody =>
              /\ request'[s].row \notin DOMAIN jobs
              /\ \A r \in Slots \cup {Worker} : request[r].row # request'[s].row
<1>1. PICK row \in IF ActiveJobs(k) = {} THEN NextIds ELSE {Nobody} :
        request' = [request EXCEPT ![s] =
          [stage |-> "open", key |-> k, row |-> row,
           trade |-> trade, sawPending |-> trade /\ history[u] = "PENDING"]]
  BY DEF Enqueue
<1>2. row # Nobody => row \in 1 .. MaxJobs /\ \A i \in Ids : i < row
  BY <1>1 DEF NextIds
<1>3. row \in 0 .. MaxJobs
  BY <1>1, <1>2, JobConstants DEF Nobody
<1>4. \A i \in Ids : i # row \/ row = Nobody
  BY <1>2, <1>3 
<1>5. /\ request'[s].stage = "open" /\ request'[s].key = k /\ request'[s].row = row
      /\ request' = [request EXCEPT ![s] = request'[s]]
  BY <1>1 DEF Typed
<1>6. row # Nobody => row \notin DOMAIN jobs /\ \A r \in Slots \cup {Worker} : request[r].row # row
  BY <1>4 DEF Ids
<1> QED
  BY <1>3, <1>5, <1>6 DEF Enqueue

-----------------------------------------------------------------------------
(***************************************************************************)
(* Types.                                                                  *)
(***************************************************************************)
\* Every step keeps the types.
LEMMA TypedStep ==
  ASSUME IInv, [Next]_vars
  PROVE  Typed'
<1> USE DEF IInv
<1>1. ASSUME NEW s \in Slots, NEW u \in Users, NEW trade \in BOOLEAN, ChangeData(s, u, trade)
      PROVE  Typed'
  BY <1>1 DEF ChangeData, Enqueue, Typed
<1>2. ASSUME NEW s \in Slots, CommitChange(s)
      PROVE  Typed'
  <2>1. DOMAIN jobs' \subseteq 1 .. MaxJobs /\ jobs' \in [DOMAIN jobs' -> JobRows]
    BY <1>2, InsertedRows DEF CommitChange, CommitData
  <2> QED
    BY <1>2, <2>1 DEF Typed, CommitChange, CommitData, taskVars, queueVars
<1>3. ASSUME NEW s \in Slots, NEW t \in Tasks, CreateTask(s, t)
      PROVE  Typed'
  BY <1>3 DEF CreateTask, Enqueue, Typed
<1>4. ASSUME NEW s \in Slots, CommitTask(s)
      PROVE  Typed'
  <2>1. DOMAIN jobs' \subseteq 1 .. MaxJobs /\ jobs' \in [DOMAIN jobs' -> JobRows]
    BY <1>4, InsertedRows DEF CommitTask
  <2> QED
    BY <1>4, <2>1 DEF Typed, CommitTask, Active
<1>5. ASSUME NEW s \in Slots, Abort(s)
      PROVE  Typed'
  BY <1>5 DEF Abort, Typed
<1>6. CASE Claim
  <2>1. PICK j \in Pending :
          /\ jobs' = [jobs EXCEPT ![j].status = "RUNNING"]
          /\ worker' = [step |-> IF jobs[j].key \in Users THEN "check" ELSE "task",
                        job |-> j, seen |-> 0, processed |-> FALSE,
                        base |-> IF jobs[j].key \in Users THEN version[jobs[j].key] ELSE 0]
    BY <1>6 DEF Claim
  <2>2. DOMAIN jobs' = DOMAIN jobs /\ jobs' \in [DOMAIN jobs' -> JobRows]
    BY <2>1, StatusSet DEF Pending, Active
  <2>3. worker' \in WorkerStates
    BY <2>1 DEF WorkerStates, Pending, Typed, Steps, SnapshotSteps, TaskSteps
  <2>4. /\ version' = version /\ built' = built /\ history' = history /\ gap' = gap
        /\ task' = task /\ effects' = effects /\ request' = request /\ faults' = faults
    BY <1>6 DEF Claim, dataVars, taskVars, queueVars
  <2> QED
    BY <2>2, <2>3, <2>4 DEF Typed
<1>7. CASE CheckHistory \/ DropHistory
  <2>1. Key \in Users /\ version[Key] \in Nat
    BY <1>7 DEF CheckHistory, DropHistory, At, Holds, SnapshotSteps, Typed
  <2>2. worker' \in WorkerStates
    BY <1>7, <2>1 DEF CheckHistory, DropHistory, Typed, WorkerStates, Steps, SnapshotSteps
  <2> QED
    BY <1>7, <2>1, <2>2 DEF CheckHistory, DropHistory, Typed, dataVars, taskVars, queueVars
<1>17. CASE ClaimHistory \/ SpinOnHistory \/ WriteHistory
  BY <1>17 
  DEF Typed, Holds, dataVars, taskVars, queueVars, GoTo, At, WorkerStates, Steps, SnapshotSteps,
      ClaimHistory, SpinOnHistory, WriteHistory
<1>8. CASE FinishHistory \/ RebuildPortfolio
  BY <1>8, JobConstants
  DEF Typed, Holds, Resting, Nobody, dataVars, taskVars, queueVars, GoTo, At,
      WorkerStates, Steps, SnapshotSteps, TaskSteps, Active,
      FinishHistory, RebuildPortfolio, VersionsOrdered
<1>9. CASE FailHistory \/ BreakHistory \/ FailPortfolio
  BY <1>9, JobConstants
  DEF Typed, Holds, Resting, Nobody, dataVars, taskVars, queueVars, GoTo, At,
      WorkerStates, Steps, SnapshotSteps, TaskSteps, Active,
      FailHistory, BreakHistory, FailPortfolio
<1>10. CASE StartTask \/ FinishTask \/ FailTask
  BY <1>10, JobConstants
  DEF Typed, Holds, Resting, Nobody, dataVars, taskVars, queueVars, GoTo, At,
      WorkerStates, Steps, SnapshotSteps, TaskSteps, Active,
      StartTask, FinishTask, FailTask
<1>11. CASE StartCommand \/ FailCommand
  BY <1>11, JobConstants
  DEF Typed, Holds, Resting, Nobody, dataVars, taskVars, queueVars, GoTo, At,
      WorkerStates, Steps, SnapshotSteps, TaskSteps, Active,
      StartCommand, FailCommand, Enqueue
<1>12. CASE CommitCommand
  <2>1. DOMAIN jobs' \subseteq 1 .. MaxJobs /\ jobs' \in [DOMAIN jobs' -> JobRows]
    BY <1>12, InsertedRows DEF CommitCommand, CommitData
  <2>2. Key \in Tasks
    BY <1>12 DEF CommitCommand, At, Holds, TaskSteps
  <2> QED
    BY <1>12, <2>1, <2>2
    DEF Typed, CommitCommand, CommitData, GoTo, At, WorkerStates, Steps, SnapshotSteps, TaskSteps
<1>13. CASE CompleteJob \/ FailJob
  <2>1. worker.job \in DOMAIN jobs
    BY <1>13 DEF CompleteJob, FailJob, At, Holds, Resting
  <2>2. PICK status \in {"DONE", "FAILED"} : jobs' = [jobs EXCEPT ![worker.job].status = status]
    BY <1>13 DEF CompleteJob, FailJob, SetJob
  <2>3. DOMAIN jobs' = DOMAIN jobs /\ jobs' \in [DOMAIN jobs' -> JobRows]
    BY <2>1, <2>2, StatusSet
  <2>4. /\ version' = version /\ built' = built /\ history' = history /\ gap' = gap
        /\ task' = task /\ effects' = effects /\ request' = request /\ faults' = faults
    BY <1>13 DEF CompleteJob, FailJob, dataVars, taskVars, queueVars
  <2>5. worker' \in WorkerStates
    BY <1>13, RestingStates DEF CompleteJob, FailJob
  <2> QED
    BY <2>3, <2>4, <2>5 DEF Typed
<1>14. CASE Crash
  BY <1>14, JobConstants, RestingStates DEF Typed, Crash, dataVars, taskVars
<1>15. CASE Restart
  BY <1>15, RestingStates DEF Typed, Restart, dataVars, taskVars, queueVars, JobRows, Active
<1>16. CASE UNCHANGED vars
  BY <1>16 DEF vars, Typed
<1> HIDE DEF IInv
<1> QED
  BY <1>1, <1>2, <1>3, <1>4, <1>5, <1>6, <1>7, <1>8, <1>9, <1>10, <1>11, <1>12, <1>13,
     <1>14, <1>15, <1>16, <1>17
     DEF Next, RequestStep, WorkerStep, SnapshotStep, TaskStep, Poll

-----------------------------------------------------------------------------
(***************************************************************************)
(* The worker and its job.                                                 *)
(***************************************************************************)

\* A request never touches a row that exists, so the worker's job is what it was.
LEMMA HoldsBesideCommits ==
  ASSUME Typed, Holds, RowsFresh, NEW s \in Slots \cup {Worker},
         request[s].stage = "open", jobs' = Inserted(s), worker' = worker
  PROVE  Holds' /\ (~Resting => Key' = Key)
<1>1. /\ DOMAIN jobs \subseteq DOMAIN jobs'
      /\ \A j \in DOMAIN jobs : jobs'[j] = jobs[j]
      /\ \A j \in DOMAIN jobs' \ DOMAIN jobs : jobs'[j].status = "PENDING"
  BY InsertedRows
<1>2. ~Resting => Key' = Key
  BY <1>1 DEF Holds, Key
<1>3. Resting <=> worker.step \notin SnapshotSteps \cup TaskSteps \cup {"finish", "fail"}
  BY DEF Resting, Typed, WorkerStates, Steps, SnapshotSteps, TaskSteps
<1> QED
  BY <1>1, <1>2, <1>3 DEF Holds, Resting, At

\* Between two steps of one job.
LEMMA HoldsAlong ==
  ASSUME Typed, Holds, ~Resting, jobs' = jobs,
         worker'.job = worker.job, worker'.step \in Steps \ {"idle", "down"},
         worker'.step \in SnapshotSteps => worker.step \in SnapshotSteps,
         worker'.step \in TaskSteps => worker.step \in TaskSteps
  PROVE  Holds' /\ Key' = Key
BY DEF Holds, Resting, Key, At, Steps

\* Every step keeps the worker and its job together.
LEMMA HoldsStep ==
  ASSUME IInv, [Next]_vars
  PROVE  Holds'
<1> USE DEF IInv
<1>1. ASSUME NEW s \in Slots, CommitChange(s) \/ CommitTask(s)
      PROVE  Holds'
  BY <1>1, HoldsBesideCommits DEF CommitChange, CommitData, CommitTask
<1>2. CASE CommitCommand
  <2>1. PICK step \in {"done", "failed"} : worker' = [worker EXCEPT !.step = step]
    BY <1>2 DEF CommitCommand, GoTo
  <2>2. /\ DOMAIN jobs \subseteq DOMAIN jobs'
        /\ \A j \in DOMAIN jobs : jobs'[j] = jobs[j]
        /\ \A j \in DOMAIN jobs' \ DOMAIN jobs : jobs'[j].status = "PENDING"
    BY <1>2, InsertedRows DEF CommitCommand, CommitData
  <2>3. worker.job \in DOMAIN jobs /\ Key \in Tasks /\ At("running")
    BY <1>2 DEF CommitCommand, At, Holds, Resting, TaskSteps
  <2>4. worker'.step = step /\ worker'.job = worker.job
    BY <2>1 DEF Typed, WorkerStates
  <2> QED
    BY <2>2, <2>3, <2>4 DEF Holds, Resting, Key, At, SnapshotSteps, TaskSteps
<1>3. CASE Claim
  <2>1. PICK j \in Pending :
          /\ jobs' = [jobs EXCEPT ![j].status = "RUNNING"]
          /\ worker' = [step |-> IF jobs[j].key \in Users THEN "check" ELSE "task",
                        job |-> j, seen |-> 0, processed |-> FALSE,
                        base |-> IF jobs[j].key \in Users THEN version[jobs[j].key] ELSE 0]
    BY <1>3 DEF Claim
  <2>2. j \in DOMAIN jobs /\ j # Nobody /\ jobs[j].key \in Users \cup Tasks
    BY <2>1, JobConstants DEF Pending, Typed, JobRows, Keys, Nobody
  <2>3. /\ DOMAIN jobs' = DOMAIN jobs /\ jobs'[j].status = "RUNNING"
        /\ \A i \in DOMAIN jobs : jobs'[i].key = jobs[i].key /\ (i # j => jobs'[i] = jobs[i])
    BY <2>1, <2>2, StatusSet DEF Active
  <2>4. \A i \in DOMAIN jobs : jobs[i].status # "RUNNING"
    BY <1>3, JobConstants DEF Claim, At, Holds, Resting, Typed, Nobody
  <2> QED
    BY <2>1, <2>2, <2>3, <2>4 DEF Holds, Resting, Key, At, SnapshotSteps, TaskSteps
<1>4. CASE CompleteJob \/ FailJob
  <2>1. PICK status \in {"DONE", "FAILED"} : jobs' = [jobs EXCEPT ![worker.job].status = status]
    BY <1>4 DEF CompleteJob, FailJob, SetJob
  <2>2. worker.job \in DOMAIN jobs /\ ~At("down")
    BY <1>4 DEF CompleteJob, FailJob, At, Holds, Resting
  <2>3. \A j \in DOMAIN jobs' : jobs'[j].status # "RUNNING"
    BY <2>1, <2>2, StatusSet DEF Holds
  <2> QED
    BY <1>4, <2>3, RestingStates
    DEF CompleteJob, FailJob, Holds, Resting, Nobody, At, SnapshotSteps, TaskSteps
<1>5. CASE Crash
  BY <1>5, RestingStates DEF Crash, Holds, Resting, Nobody, At, SnapshotSteps, TaskSteps
<1>6. CASE Restart
  BY <1>6, RestingStates
  DEF Restart, Typed, JobRows, Holds, Resting, Nobody, At, SnapshotSteps, TaskSteps
<1>7. CASE SnapshotStep
  <2>1. worker.step \in SnapshotSteps \/ (At("finish") /\ worker'.step = "fail")
    BY <1>7 DEF SnapshotStep, CheckHistory, ClaimHistory, SpinOnHistory, DropHistory, WriteHistory,
         FinishHistory, FailHistory, BreakHistory, RebuildPortfolio, FailPortfolio, At, SnapshotSteps,
         GoTo, Typed, WorkerStates
  <2>2. /\ worker'.step \in SnapshotSteps \cup {"finish", "fail"} 
        /\ worker'.job = worker.job
        /\ jobs' = jobs
    BY <1>7 DEF SnapshotStep, CheckHistory, ClaimHistory, SpinOnHistory, DropHistory, WriteHistory,
         FinishHistory, FailHistory, BreakHistory, RebuildPortfolio, FailPortfolio, SnapshotSteps,
         GoTo, Typed, WorkerStates
  <2> QED
    BY <2>1, <2>2, HoldsAlong DEF Resting, At, SnapshotSteps, TaskSteps, Steps
<1>8. CASE StartTask \/ StartCommand \/ FailCommand \/ FinishTask \/ FailTask
  <2>1. /\ worker.step \in TaskSteps
        /\ worker'.step \in TaskSteps \cup {"finish", "fail"}
        /\ worker'.job = worker.job
        /\ jobs' = jobs
    BY <1>8 DEF StartTask, StartCommand, FailCommand, FinishTask, FailTask, At, TaskSteps,
         GoTo, Typed, WorkerStates
  <2> QED
    BY <2>1, HoldsAlong DEF Resting, SnapshotSteps, TaskSteps, Steps
<1>9. ASSUME worker' = worker, jobs' = jobs
      PROVE  Holds'
  BY <1>9 DEF Holds, Resting, Key, At
<1> HIDE DEF IInv
<1> QED
  BY <1>1, <1>2, <1>3, <1>4, <1>5, <1>6, <1>7, <1>8, <1>9
  DEF Next, RequestStep, WorkerStep, TaskStep, ChangeData, CreateTask, Abort, Poll, vars

-----------------------------------------------------------------------------
(***************************************************************************)
(* The rows of open requests.                                              *)
(***************************************************************************)
\* A new request leaves the ids of open rows distinct and unused.
LEMMA RowsAfterEnqueue ==
  ASSUME Typed, RowsFresh, NEW s \in Slots \cup {Worker}, NEW k \in Keys, NEW trade, NEW u,
         Enqueue(s, k, trade, u), s = Worker => k \in Users, jobs' = jobs
  PROVE  RowsFresh'
<1>1. /\ request' = [request EXCEPT ![s] = request'[s]]
      /\ request'[s].stage = "open" /\ request'[s].key = k
      /\ request'[s].row \in 0 .. MaxJobs
      /\ request'[s].row # Nobody =>
           /\ request'[s].row \notin DOMAIN jobs
           /\ \A r \in Slots \cup {Worker} : request[r].row # request'[s].row
  BY EnqueuedRow
<1>2. \A r \in Slots \cup {Worker} : r # s => request'[r] = request[r]
  BY <1>1 DEF Typed
<1> QED
  BY <1>1, <1>2 DEF RowsFresh, OpenRow

\* A request ends, with the row it holds inserted or not.
LEMMA RowsAfterEnd ==
  ASSUME Typed, RowsFresh, NEW s \in Slots \cup {Worker},
         request' = [request EXCEPT ![s] = NoRequest],
         DOMAIN jobs' \subseteq DOMAIN jobs \cup {request[s].row}
  PROVE  RowsFresh'
<1>1. NoRequest.stage = "none" /\ NoRequest.row = Nobody
  BY DEF NoRequest
<1>2. /\ request'[s] = NoRequest
      /\ \A r \in Slots \cup {Worker} : r # s => request'[r] = request[r]
  BY DEF Typed
<1>3. Nobody \in 0 .. MaxJobs
  BY JobConstants DEF Nobody
<1> QED
  BY <1>1, <1>2, <1>3 DEF RowsFresh, OpenRow

\* Rows change status without disturbing the open requests.
LEMMA RowsKept ==
  ASSUME RowsFresh, request' = request, DOMAIN jobs' = DOMAIN jobs
  PROVE  RowsFresh'
BY DEF RowsFresh, OpenRow

\* Every step keeps the ids of open rows distinct and unused.
LEMMA RowsStep ==
  ASSUME IInv, [Next]_vars
  PROVE  RowsFresh'
<1> USE DEF IInv
<1>1. ASSUME NEW s \in Slots, NEW u \in Users, NEW trade \in BOOLEAN, ChangeData(s, u, trade)
      PROVE  RowsFresh'
  BY <1>1, RowsAfterEnqueue, JobConstants DEF ChangeData, Keys
<1>2. ASSUME NEW s \in Slots, NEW t \in Tasks, CreateTask(s, t)
      PROVE  RowsFresh'
  BY <1>2, RowsAfterEnqueue, JobConstants DEF CreateTask, Keys
<1>3. CASE StartCommand
  <2>1. Owner[Key] \in Users /\ jobs' = jobs
    BY <1>3, JobConstants DEF StartCommand, At, Holds, TaskSteps
  <2> QED
    BY <1>3, <2>1, RowsAfterEnqueue DEF StartCommand, Keys
<1>4. ASSUME NEW s \in Slots, CommitChange(s) \/ CommitTask(s) \/ Abort(s)
      PROVE  RowsFresh'
  <2>1. request' = [request EXCEPT ![s] = NoRequest]
    BY <1>4 DEF CommitChange, CommitData, CommitTask, Abort
  <2>2. DOMAIN jobs' \subseteq DOMAIN jobs \cup {request[s].row}
    BY <1>4, InsertedRows DEF CommitChange, CommitData, CommitTask, Abort
  <2> QED
    BY <2>1, <2>2, RowsAfterEnd
<1>5. CASE CommitCommand \/ FailCommand \/ Crash
  <2>1. request' = [request EXCEPT ![Worker] = NoRequest]
    BY <1>5 DEF CommitCommand, CommitData, FailCommand, Crash
  <2>2. DOMAIN jobs' \subseteq DOMAIN jobs \cup {request[Worker].row}
    BY <1>5, InsertedRows DEF CommitCommand, CommitData, FailCommand, Crash
  <2> QED
    BY <2>1, <2>2, RowsAfterEnd
<1>6. CASE Claim \/ CompleteJob \/ FailJob \/ Restart
  BY <1>6, RowsKept DEF Claim, CompleteJob, FailJob, Restart, SetJob, queueVars, Typed
<1>7. CASE SnapshotStep \/ StartTask \/ FinishTask \/ FailTask \/ UNCHANGED vars
  BY <1>7, RowsKept
  DEF SnapshotStep, CheckHistory, ClaimHistory, SpinOnHistory, DropHistory, WriteHistory,
      FinishHistory, FailHistory, BreakHistory, RebuildPortfolio, FailPortfolio, StartTask,
      FinishTask, FailTask, queueVars, vars
<1> HIDE DEF IInv
<1> QED
  BY <1>1, <1>2, <1>3, <1>4, <1>5, <1>6, <1>7
  DEF Next, RequestStep, WorkerStep, TaskStep, Poll

-----------------------------------------------------------------------------
(***************************************************************************)
(* Versions.                                                               *)
(***************************************************************************)

\* A handler's commit brings one version forward and makes no request DONE.
LEMMA VersionsAfterCommit ==
  ASSUME Typed, Holds, RowsFresh, VersionsOrdered, NEW s \in Slots \cup {Worker},
         CommitData(s), built' = built,
         worker'.job = worker.job, worker'.base = worker.base, worker'.seen = worker.seen,
         worker'.processed = worker.processed,
         Resting => Resting',
         worker' = worker \/ worker'.step \in TaskSteps
  PROVE  VersionsOrdered'
<1> DEFINE u == request[s].key
<1>1. u \in Users /\ version[u] < MaxVersion /\ version' = [version EXCEPT ![u] = @ + 1]
  BY DEF CommitData
<1>2. \A x \in Users : /\ version'[x] \in Nat /\ version[x] <= version'[x]
                       /\ built'[x] <= version'[x] /\ version'[x] <= MaxVersion
  BY <1>1, JobConstants DEF Typed, VersionsOrdered
<1>3. \A x \in Users : history'[x] = "DONE" => history[x] = "DONE"
  BY <1>1 DEF CommitData, Typed
<1>4. ASSUME ~Resting', Key' \in Users
      PROVE  ~Resting /\ Key \in Users /\ Key' = Key
  <2>1. ~Resting /\ worker.job \in DOMAIN jobs
    BY <1>4 DEF Holds
  <2>2. jobs'[worker.job] = jobs[worker.job]
    BY <2>1, InsertedRows DEF CommitData
  <2> QED
    BY <1>4, <2>1, <2>2 DEF Key
<1>5. worker.base \in Nat /\ worker.seen \in Nat
  BY DEF Typed, WorkerStates
<1> HIDE DEF u
<1> QED
  BY <1>2, <1>3, <1>4, <1>5 DEF VersionsOrdered, At, TaskSteps, Typed

\* Every step keeps the versions in order.
LEMMA VersionsStep ==
  ASSUME IInv, [Next]_vars, Typed', Holds'
  PROVE  VersionsOrdered'
<1> USE DEF IInv
<1>1. ASSUME NEW s \in Slots, CommitChange(s)
      PROVE  VersionsOrdered'
  <2>1. CommitData(s) /\ built' = built /\ worker' = worker
    BY <1>1 DEF CommitChange
  <2>2. Resting => Resting'
    BY <2>1 DEF Resting
  <2> QED
    BY <2>1, <2>2, VersionsAfterCommit
<1>2. CASE CommitCommand
  <2>1. PICK step \in {"done", "failed"} : worker' = [worker EXCEPT !.step = step]
    BY <1>2 DEF CommitCommand, GoTo
  <2>2. /\ worker'.step = step /\ worker'.job = worker.job /\ worker'.base = worker.base
        /\ worker'.seen = worker.seen /\ worker'.processed = worker.processed
    BY <2>1 DEF Typed, WorkerStates
  <2>3. ~Resting
    BY <1>2 DEF CommitCommand, At, Resting
  <2>4. request[Worker].stage = "open" /\ CommitData(Worker) /\ built' = built
    BY <1>2 DEF CommitCommand, CommitData
  <2> QED
    BY <2>2, <2>3, <2>4, VersionsAfterCommit DEF TaskSteps
<1>3. ASSUME NEW s \in Slots, CommitTask(s)
      PROVE  VersionsOrdered'
  <2>1. ~Resting => Key' = Key
    BY <1>3, HoldsBesideCommits DEF CommitTask
  <2> QED
    BY <1>3, <2>1 DEF CommitTask, VersionsOrdered, Resting, At
<1>4. CASE Claim
  <2>1. PICK j \in Pending :
          /\ jobs' = [jobs EXCEPT ![j].status = "RUNNING"]
          /\ worker' = [step |-> IF jobs[j].key \in Users THEN "check" ELSE "task",
                        job |-> j, seen |-> 0, processed |-> FALSE,
                        base |-> IF jobs[j].key \in Users THEN version[jobs[j].key] ELSE 0]
    BY <1>4 DEF Claim
  <2>2. Key' = jobs[j].key
    BY <2>1, StatusSet DEF Key, Pending, Active
  <2>3. /\ worker'.base = IF Key' \in Users THEN version[Key'] ELSE 0
        /\ worker'.step \in {"check", "task"} /\ worker'.processed = FALSE
    BY <2>1, <2>2
  <2>4. version' = version /\ built' = built /\ history' = history
    BY <1>4 DEF Claim, dataVars
  <2>5. \A u \in Users : version[u] \in Nat
    BY DEF Typed
  <2> QED
    BY <2>3, <2>4, <2>5 DEF VersionsOrdered, At
<1>5. CASE CheckHistory
  <2>1. Key \in Users /\ Key' = Key /\ version[Key] \in Nat /\ ~Resting
    BY <1>5 DEF CheckHistory, At, Holds, SnapshotSteps, Typed, WorkerStates, Key, Resting
  <2>2. worker'.base = worker.base
    BY <1>5 DEF CheckHistory, Typed, WorkerStates
  <2>3. \/ worker'.step = "claim" /\ history[Key] \in Active
        \/ worker'.step = "finish" /\ history[Key] \notin Active /\ worker.processed
           /\ worker'.processed
        \/ worker'.step = "portfolio" /\ worker'.seen = version[Key] /\ ~worker'.processed
    BY <1>5 DEF CheckHistory, Typed, WorkerStates
  <2>4. history[Key] \in Active \/ history[Key] = "DONE"
    BY <2>1 DEF Typed, Active
  <2>5. version' = version /\ built' = built /\ history' = history
    BY <1>5 DEF CheckHistory, dataVars
  <2> QED
    BY <2>1, <2>2, <2>3, <2>4, <2>5 DEF VersionsOrdered, At, Active
<1>6. CASE DropHistory
  <2>1. Key \in Users /\ Key' = Key /\ version[Key] \in Nat /\ ~Resting
    BY <1>6 DEF DropHistory, At, Holds, SnapshotSteps, Typed, WorkerStates, Key, Resting
  <2>2. /\ worker'.base = worker.base /\ worker'.processed = worker.processed
        /\ worker'.step = "history" /\ worker'.seen = version[Key]
    BY <1>6 DEF DropHistory, Typed, WorkerStates
  <2>3. version' = version /\ built' = built /\ history' = history
    BY <1>6 DEF DropHistory
  <2> QED
    BY <2>1, <2>2, <2>3 DEF VersionsOrdered, At
<1>7. CASE FinishHistory \/ RebuildPortfolio
  <2>1. Key \in Users /\ Key' = Key /\ ~Resting /\ worker.step \in {"both", "portfolio"}
    BY <1>7 DEF FinishHistory, RebuildPortfolio, At, Holds, SnapshotSteps, Typed, WorkerStates, Key,
         Resting, GoTo
  <2>2. PICK v \in worker.seen .. version[Key] : built' = [built EXCEPT ![Key] = v]
    BY <1>7 DEF FinishHistory, RebuildPortfolio
  <2>3. /\ worker'.base = worker.base
        /\ worker'.step \in {"check", "finish"}
    BY <1>7 DEF FinishHistory, RebuildPortfolio, GoTo, Typed, WorkerStates
  <2>4. version' = version
    BY <1>7 DEF FinishHistory, RebuildPortfolio
  <2>5. worker.base \in Nat /\ worker.seen \in Nat /\ version[Key] \in Nat
    BY <2>1 DEF Typed, WorkerStates
  <2>6. worker.base <= v /\ v <= version[Key]
    BY <2>1, <2>2, <2>5 DEF VersionsOrdered
  <2>7. built'[Key] = v /\ \A u \in Users : u # Key => built'[u] = built[u]
    BY <2>1, <2>2 DEF Typed
  <2> QED
    BY <2>1, <2>3, <2>4, <2>5, <2>6, <2>7 DEF VersionsOrdered, At
<1>8. CASE ClaimHistory \/ SpinOnHistory \/ WriteHistory \/ FailHistory \/ BreakHistory
             \/ FailPortfolio
  <2>1. Key' = Key /\ ~Resting
    BY <1>8 DEF ClaimHistory, SpinOnHistory, WriteHistory, FailHistory, BreakHistory, FailPortfolio,
         At, Typed, WorkerStates, Key, Resting, GoTo, queueVars, taskVars
  <2>2. /\ worker'.base = worker.base /\ worker'.seen = worker.seen
        /\ worker'.processed = worker.processed
        /\ worker'.step \in {"read", "check", "both", "fail"}
        /\ worker'.step = "both" => worker.step = "history"
    BY <1>8 DEF ClaimHistory, SpinOnHistory, WriteHistory, FailHistory, BreakHistory, FailPortfolio,
         GoTo, At, Typed, WorkerStates
  <2>3. /\ version' = version /\ built' = built
        /\ Key \in Users /\ history'[Key] = "DONE" => history[Key] = "DONE"
    BY <1>8 DEF ClaimHistory, SpinOnHistory, WriteHistory, FailHistory, BreakHistory, FailPortfolio,
         dataVars, Typed
  <2> QED
    BY <2>1, <2>2, <2>3 DEF VersionsOrdered, At
<1>9. CASE StartTask \/ StartCommand \/ FailCommand \/ FinishTask \/ FailTask
  <2>1. Key \in Tasks /\ Key' = Key
    BY <1>9 DEF StartTask, StartCommand, FailCommand, FinishTask, FailTask, At, Holds, TaskSteps,
         Typed, WorkerStates, Key, GoTo, queueVars, taskVars
  <2>2. version' = version /\ built' = built
    BY <1>9 DEF StartTask, StartCommand, FailCommand, FinishTask, FailTask, dataVars
  <2> QED
    BY <2>1, <2>2, JobConstants DEF VersionsOrdered
<1>10. CASE CompleteJob \/ FailJob \/ Crash \/ Restart
  <2>1. Resting' /\ version' = version /\ built' = built
    BY <1>10, RestingStates DEF CompleteJob, FailJob, Crash, Restart, Resting, dataVars
  <2> QED
    BY <2>1 DEF VersionsOrdered
<1>11. ASSUME UNCHANGED <<version, built, history, jobs, worker>>
       PROVE  VersionsOrdered'
  BY <1>11 DEF VersionsOrdered, Resting, Key, At
<1> HIDE DEF IInv
<1> QED
  BY <1>1, <1>2, <1>3, <1>4, <1>5, <1>6, <1>7, <1>8, <1>9, <1>10, <1>11
  DEF Next, RequestStep, WorkerStep, SnapshotStep, TaskStep, ChangeData, CreateTask, Abort, Poll, vars

-----------------------------------------------------------------------------
(***************************************************************************)
(* Missing history.                                                        *)
(***************************************************************************)

\* A commit of a handler leaves active requests active.
LEMMA GapsAfterCommit ==
  ASSUME Typed, Holds, RowsFresh, GapsHeld, NEW s \in Slots \cup {Worker},
         CommitData(s), gap' = gap, worker' = worker \/ worker'.step \in TaskSteps
  PROVE  GapsHeld'
<1>1. \A u \in Users : history[u] \in Active => history'[u] \in Active
  BY DEF CommitData, Typed, Active
<1>2. worker' = worker /\ worker.step \in SnapshotSteps => Key' = Key /\ Key \in Users
  <2>1. worker.step \in SnapshotSteps => ~Resting
    BY DEF Resting, SnapshotSteps
  <2> QED
    BY <2>1, HoldsBesideCommits DEF CommitData, Holds
<1> QED
  BY <1>1, <1>2 DEF GapsHeld, GapsAreClaimed, At, SnapshotSteps, TaskSteps

\* Every step keeps a missing history claimed.
LEMMA GapsStep ==
  ASSUME IInv, [Next]_vars
  PROVE  GapsHeld'
<1> USE DEF IInv
<1>1. ASSUME NEW s \in Slots, CommitChange(s)
      PROVE  GapsHeld'
  BY <1>1, GapsAfterCommit DEF CommitChange
<1>2. CASE CommitCommand
  <2>1. worker'.step \in TaskSteps
    BY <1>2 DEF CommitCommand, GoTo, Typed, WorkerStates, TaskSteps
  <2> QED
    BY <1>2, <2>1, GapsAfterCommit DEF CommitCommand
<1>3. ASSUME NEW s \in Slots, CommitTask(s)
      PROVE  GapsHeld'
  <2>1. worker.step \in SnapshotSteps => Key' = Key
    BY <1>3, HoldsBesideCommits DEF CommitTask, Resting, SnapshotSteps
  <2> QED
    BY <1>3, <2>1 DEF CommitTask, GapsHeld, GapsAreClaimed, At, SnapshotSteps
<1>4. CASE SnapshotStep
  <2>1. \/ At("finish") /\ UNCHANGED <<history, gap>> /\ worker'.step = "fail"
        \/ Key \in Users /\ Key' = Key
    BY <1>4 DEF SnapshotStep, CheckHistory, ClaimHistory, SpinOnHistory, DropHistory, WriteHistory,
         FinishHistory, FailHistory, BreakHistory, RebuildPortfolio, FailPortfolio, At, GoTo, Holds,
         Typed, WorkerStates, SnapshotSteps, Key, dataVars, taskVars, queueVars
  <2>2. CASE CheckHistory \/ SpinOnHistory \/ BreakHistory \/ FailPortfolio
    BY <2>1, <2>2 DEF CheckHistory, SpinOnHistory, BreakHistory, FailPortfolio, GoTo, At,
         Typed, WorkerStates, GapsHeld, GapsAreClaimed, dataVars
  <2>3. CASE ClaimHistory \/ FailHistory
    BY <2>1, <2>3 DEF ClaimHistory, FailHistory, GoTo, At,
         Typed, WorkerStates, GapsHeld, GapsAreClaimed, Active
  <2>4. CASE DropHistory
    BY <2>1, <2>4 DEF DropHistory, At, Typed, WorkerStates, GapsHeld, GapsAreClaimed
  <2>5. CASE WriteHistory
    BY <2>1, <2>5 DEF WriteHistory, GoTo, At, Typed, WorkerStates, GapsHeld, GapsAreClaimed
  <2>6. CASE FinishHistory \/ RebuildPortfolio
    BY <2>1, <2>6 DEF FinishHistory, RebuildPortfolio, GoTo, At,
         Typed, WorkerStates, GapsHeld, GapsAreClaimed
  <2> QED
    BY <1>4, <2>2, <2>3, <2>4, <2>5, <2>6 DEF SnapshotStep
<1>5. CASE Claim \/ CompleteJob \/ FailJob \/ Crash \/ Restart
  <2>1. worker'.step \in {"check", "task", "idle", "down"}
    BY <1>5, RestingStates DEF Claim, CompleteJob, FailJob, Crash, Restart
  <2> QED
    BY <1>5, <2>1
    DEF Claim, CompleteJob, FailJob, Crash, Restart, dataVars, GapsHeld, GapsAreClaimed, At
<1>6. CASE StartTask \/ StartCommand \/ FailCommand \/ FinishTask \/ FailTask
  <2>1. worker'.step \in TaskSteps \cup {"finish", "fail"}
    BY <1>6 DEF StartTask, StartCommand, FailCommand, FinishTask, FailTask, GoTo, Typed,
         WorkerStates, TaskSteps
  <2> QED
    BY <1>6, <2>1 DEF StartTask, StartCommand, FailCommand, FinishTask, FailTask, dataVars,
         GapsHeld, GapsAreClaimed, At, TaskSteps
<1>7. ASSUME UNCHANGED <<history, gap, jobs, worker>>
      PROVE  GapsHeld'
  BY <1>7 DEF GapsHeld, GapsAreClaimed, Key, At
<1> HIDE DEF IInv
<1> QED
  BY <1>1, <1>2, <1>3, <1>4, <1>5, <1>6, <1>7
  DEF Next, RequestStep, WorkerStep, TaskStep, ChangeData, CreateTask, Abort, Poll, dataVars, vars

-----------------------------------------------------------------------------
(***************************************************************************)
(* Tasks.                                                                  *)
(***************************************************************************)

\* The part of TasksOnce that is about open requests.
RequestsOnce ==
  \A s \in Slots : request[s].stage = "open" /\ request[s].key \in Tasks =>
    /\ task[request[s].key] = "NONE"
    /\ \A r \in Slots : request[r].stage = "open" /\ request[r].key = request[s].key => r = s

\* Opening a request that is not for a task, or ending one, disturbs none of them.
LEMMA OnceBesideRequest ==
  ASSUME Typed, TasksOnce, NEW s \in Slots \cup {Worker}, NEW q,
         request' = [request EXCEPT ![s] = q], q.stage = "open" => q.key \notin Tasks,
         UNCHANGED task
  PROVE  RequestsOnce'
<1>1. /\ request'[s] = q
      /\ \A r \in Slots \cup {Worker} : r # s => request'[r] = request[r]
  BY DEF Typed
<1> QED
  BY <1>1 DEF TasksOnce, RequestsOnce

\* A step that commits no command and inserts no row.
LEMMA OnceAlong ==
  ASSUME Typed, TasksOnce, RequestsOnce', faults' \in Nat, faults <= faults', effects' = effects,
         DOMAIN jobs' = DOMAIN jobs,
         \A j \in DOMAIN jobs : jobs'[j].key = jobs[j].key,
         \A j \in DOMAIN jobs : jobs[j].key \in Tasks /\ Unspent(j)' => Unspent(j) \/ faults < faults',
         \A t \in Tasks : task'[t] = "NONE" => task[t] = "NONE"
  PROVE  TasksOnce'
<1>1. \A t \in Tasks : effects[t] \in Nat
  BY DEF Typed
<1>2. faults \in Nat
  BY JobConstants DEF Typed
<1>3. \A t \in Tasks : effects'[t] <= 1 + faults'
  BY <1>1, <1>2 DEF TasksOnce
<1>4. \A j \in DOMAIN jobs' : jobs'[j].key \in Tasks /\ Unspent(j)' => effects'[jobs'[j].key] <= faults'
  <2> SUFFICES ASSUME NEW j \in DOMAIN jobs, jobs[j].key \in Tasks, Unspent(j)'
               PROVE  effects[jobs[j].key] <= faults'
    OBVIOUS
  <2>1. CASE Unspent(j)
    BY <2>1, <1>1, <1>2 DEF TasksOnce
  <2>2. CASE faults < faults'
    BY <2>2, <1>1, <1>2 DEF TasksOnce
  <2> QED
    BY <2>1, <2>2
<1> QED
  BY <1>3, <1>4 DEF TasksOnce, RequestsOnce

\* The worker's job belongs to a task that was created.
LEMMA ServedTask ==
  ASSUME Typed, Holds, TasksOnce, worker.step \in TaskSteps
  PROVE  /\ worker.job \in DOMAIN jobs /\ Key \in Tasks /\ task[Key] # "NONE"
         /\ \A s \in Slots : request[s].stage = "open" => request[s].key # Key
         /\ worker.step \notin SpentSteps => effects[Key] <= faults
<1>1. worker.job \in DOMAIN jobs /\ Key \in Tasks /\ jobs[worker.job].status = "RUNNING"
  BY DEF Holds, Resting, TaskSteps
<1>2. task[Key] # "NONE"
  BY <1>1 DEF TasksOnce, Key
<1> QED
  BY <1>1, <1>2 DEF TasksOnce, Unspent, Active, Key

\* Every step keeps one job per task and bounds its effects.
LEMMA TasksStep ==
  ASSUME IInv, [Next]_vars, Typed', Holds'
  PROVE  TasksOnce'
<1> USE DEF IInv
<1>1. ASSUME NEW s \in Slots, NEW u \in Users, NEW trade \in BOOLEAN, ChangeData(s, u, trade)
      PROVE  TasksOnce'
  <2>1. request' = [request EXCEPT ![s] = request'[s]] /\ request'[s].key = u
    BY <1>1, EnqueuedRow DEF ChangeData
  <2>2. RequestsOnce'
    BY <1>1, <2>1, OnceBesideRequest, JobConstants DEF ChangeData
  <2> QED
    BY <1>1, <2>2, OnceAlong, JobConstants DEF ChangeData, Unspent, Typed
<1>2. ASSUME NEW s \in Slots, NEW t \in Tasks, CreateTask(s, t)
      PROVE  TasksOnce'
  <2>1. request' = [request EXCEPT ![s] = request'[s]] /\ request'[s].key = t
    BY <1>2, EnqueuedRow DEF CreateTask
  <2>2. \A r \in Slots : r # s => request'[r] = request[r] /\ request[r].key # t
    BY <1>2, <2>1 DEF CreateTask, Typed
  <2>3. RequestsOnce'
    BY <1>2, <2>1, <2>2 DEF CreateTask, TasksOnce, RequestsOnce
  <2> QED
    BY <1>2, <2>3, OnceAlong, JobConstants DEF CreateTask, Unspent, Typed
<1>3. CASE StartCommand
  <2>1. Owner[Key] \in Users \ Tasks
    BY <1>3, ServedTask, JobConstants DEF StartCommand, At, TaskSteps
  <2>2. request' = [request EXCEPT ![Worker] = request'[Worker]] /\ request'[Worker].key = Owner[Key]
    BY <1>3, EnqueuedRow DEF StartCommand
  <2>3. RequestsOnce'
    BY <1>3, <2>1, <2>2, OnceBesideRequest DEF StartCommand, taskVars
  <2>4. worker'.job = worker.job /\ At("command")
    BY <1>3 DEF StartCommand, GoTo, Typed, WorkerStates
  <2> QED
    BY <1>3, <2>3, <2>4, OnceAlong, JobConstants
    DEF StartCommand, taskVars, Unspent, SpentSteps, At, Typed
<1>4. ASSUME NEW s \in Slots, Abort(s)
      PROVE  TasksOnce'
  <2>1. RequestsOnce'
    BY <1>4, OnceBesideRequest DEF Abort, NoRequest
  <2> QED
    BY <1>4, <2>1, OnceAlong, JobConstants DEF Abort, Unspent, Typed
<1>5. CASE FailCommand \/ Crash
  <2>1. RequestsOnce'
    BY <1>5, OnceBesideRequest DEF FailCommand, Crash, NoRequest, taskVars
  <2>2. CASE FailCommand
    <3>1. worker'.job = worker.job /\ worker'.step = "failed"
      BY <2>2 DEF FailCommand, GoTo, Typed, WorkerStates
    <3> QED
      BY <2>1, <2>2, <3>1, OnceAlong, JobConstants DEF FailCommand, taskVars, Unspent, SpentSteps, Typed
  <2>3. CASE Crash
    BY <2>1, <2>3, OnceAlong, JobConstants DEF Crash, taskVars, Typed
  <2> QED
    BY <1>5, <2>2, <2>3
<1>6. ASSUME NEW s \in Slots, CommitChange(s)
      PROVE  TasksOnce'
  <2>1. request' = [request EXCEPT ![s] = NoRequest] /\ request[s].key \in Users
    BY <1>6 DEF CommitChange, CommitData
  <2>2. RequestsOnce'
    BY <1>6, <2>1, OnceBesideRequest DEF CommitChange, NoRequest
  <2>3. /\ DOMAIN jobs \subseteq DOMAIN jobs'
        /\ \A j \in DOMAIN jobs : jobs'[j] = jobs[j]
        /\ \A j \in DOMAIN jobs' \ DOMAIN jobs : jobs'[j].key \notin Tasks
    BY <1>6, <2>1, InsertedRows, JobConstants DEF CommitChange, CommitData
  <2>4. effects' = effects /\ faults' = faults /\ worker' = worker /\ task' = task
    BY <1>6 DEF CommitChange
  <2> QED
    BY <2>2, <2>3, <2>4 DEF TasksOnce, RequestsOnce, Unspent
<1>7. ASSUME NEW s \in Slots, CommitTask(s)
      PROVE  TasksOnce'
  <2> DEFINE t == request[s].key
  <2>1. /\ request' = [request EXCEPT ![s] = NoRequest] /\ request[s].stage = "open" /\ t \in Tasks
        /\ task' = [task EXCEPT ![t] = "PENDING"]
        /\ effects' = effects /\ faults' = faults /\ worker' = worker
    BY <1>7 DEF CommitTask
  <2>2. /\ effects[t] = 0 /\ \A j \in DOMAIN jobs : jobs[j].key # t
        /\ \A r \in Slots : request[r].stage = "open" /\ request[r].key = t => r = s
    BY <2>1 DEF TasksOnce
  <2>3. /\ DOMAIN jobs \subseteq DOMAIN jobs'
        /\ \A j \in DOMAIN jobs : jobs'[j] = jobs[j]
        /\ \A j \in DOMAIN jobs' \ DOMAIN jobs : j = request[s].row /\ jobs'[j].key = t
    BY <1>7, InsertedRows DEF CommitTask
  <2>4. \A r \in Slots : request'[r] = IF r = s THEN NoRequest ELSE request[r]
    BY <2>1 DEF Typed
  <2>5. \A x \in Tasks : task'[x] = IF x = t THEN "PENDING" ELSE task[x]
    BY <2>1 DEF Typed
  <2>6. faults \in Nat /\ NoRequest.stage = "none"
    BY JobConstants DEF Typed, NoRequest
  <2> HIDE DEF t
  <2>7. RequestsOnce'
    BY <2>2, <2>4, <2>5, <2>6 DEF TasksOnce, RequestsOnce, t
  <2> QED
    BY <2>1, <2>2, <2>3, <2>5, <2>6, <2>7 DEF TasksOnce, RequestsOnce, Unspent
<1>8. CASE CommitCommand
  <2>1. /\ request' = [request EXCEPT ![Worker] = NoRequest] /\ request[Worker].key \in Users
        /\ effects' = [effects EXCEPT ![Key] = @ + 1] /\ At("running")
        /\ faults' = faults /\ task' = task
    BY <1>8 DEF CommitCommand, CommitData
  <2>2. RequestsOnce'
    BY <2>1, OnceBesideRequest DEF NoRequest
  <2>3. /\ DOMAIN jobs \subseteq DOMAIN jobs'
        /\ \A j \in DOMAIN jobs : jobs'[j] = jobs[j]
        /\ \A j \in DOMAIN jobs' \ DOMAIN jobs : jobs'[j].key \notin Tasks
    BY <1>8, <2>1, InsertedRows, JobConstants DEF CommitCommand, CommitData
  <2>4. worker'.job = worker.job /\ worker'.step \in SpentSteps
    BY <1>8 DEF CommitCommand, GoTo, Typed, WorkerStates, SpentSteps
  <2>5. /\ worker.job \in DOMAIN jobs /\ Key \in Tasks /\ task[Key] # "NONE"
        /\ effects[Key] <= faults
    BY <2>1, ServedTask DEF At, TaskSteps, SpentSteps
  <2>6. faults \in Nat /\ \A t \in Tasks : effects[t] \in Nat
    BY JobConstants DEF Typed
  <2>7. \A t \in Tasks : effects'[t] = IF t = Key THEN effects[t] + 1 ELSE effects[t]
    BY <2>1 DEF Typed
  <2>8. \A j \in DOMAIN jobs : jobs[j].key = Key => j = worker.job
    BY <2>5 DEF TasksOnce, Key
  <2>9. \A j \in DOMAIN jobs : Unspent(j)' => j # worker.job /\ Unspent(j)
    BY <2>3, <2>4 DEF Unspent
  <2> QED
    BY <2>1, <2>2, <2>3, <2>5, <2>6, <2>7, <2>8, <2>9 DEF TasksOnce, RequestsOnce
<1>9. CASE Claim
  <2>1. PICK j \in Pending : jobs' = [jobs EXCEPT ![j].status = "RUNNING"]
    BY <1>9 DEF Claim
  <2>2. /\ DOMAIN jobs' = DOMAIN jobs
        /\ \A i \in DOMAIN jobs : jobs'[i].key = jobs[i].key /\ (i # j => jobs'[i] = jobs[i])
        /\ j \in DOMAIN jobs /\ jobs[j].status = "PENDING"
    BY <2>1, StatusSet DEF Pending, Active
  <2>3. RequestsOnce' /\ effects' = effects /\ faults' = faults /\ task' = task
    BY <1>9 DEF Claim, taskVars, queueVars, TasksOnce, RequestsOnce
  <2>4. worker.job = Nobody /\ Nobody \notin DOMAIN jobs
    BY <1>9, JobConstants DEF Claim, At, Holds, Resting, Typed, Nobody
  <2>5. \A i \in DOMAIN jobs : Unspent(i)' => Unspent(i)
    BY <2>2, <2>4 DEF Unspent, Active
  <2> QED
    BY <2>2, <2>3, <2>5, OnceAlong, JobConstants DEF Typed
<1>10. CASE CompleteJob \/ FailJob
  <2>1. PICK status \in {"DONE", "FAILED"} : jobs' = [jobs EXCEPT ![worker.job].status = status]
    BY <1>10 DEF CompleteJob, FailJob, SetJob
  <2>2. worker.job \in DOMAIN jobs
    BY <1>10 DEF CompleteJob, FailJob, At, Holds, Resting
  <2>3. /\ DOMAIN jobs' = DOMAIN jobs /\ jobs'[worker.job].status = status
        /\ \A i \in DOMAIN jobs :
             jobs'[i].key = jobs[i].key /\ (i # worker.job => jobs'[i] = jobs[i])
    BY <2>1, <2>2, StatusSet
  <2>4. RequestsOnce' /\ effects' = effects /\ faults' = faults /\ task' = task
    BY <1>10 DEF CompleteJob, FailJob, taskVars, queueVars, TasksOnce, RequestsOnce
  <2>5. \A i \in DOMAIN jobs : Unspent(i)' => Unspent(i)
    BY <2>3 DEF Unspent, Active
  <2> QED
    BY <2>3, <2>4, <2>5, OnceAlong, JobConstants DEF Typed
<1>11. CASE Restart
  <2>1. /\ DOMAIN jobs' = DOMAIN jobs
        /\ \A j \in DOMAIN jobs : /\ jobs'[j].key = jobs[j].key
                                  /\ jobs'[j].status \in Active => jobs[j].status \in Active
    BY <1>11 DEF Restart, Typed, JobRows, Active
  <2>2. worker.job = Nobody /\ Nobody \notin DOMAIN jobs
    BY <1>11, JobConstants DEF Restart, At, Holds, Resting, Typed, Nobody
  <2>3. RequestsOnce' /\ effects' = effects /\ faults' = faults /\ task' = task
    BY <1>11 DEF Restart, taskVars, queueVars, TasksOnce, RequestsOnce
  <2>4. \A i \in DOMAIN jobs : Unspent(i)' => Unspent(i)
    BY <2>1, <2>2 DEF Unspent
  <2> QED
    BY <2>1, <2>3, <2>4, OnceAlong, JobConstants DEF Typed
<1>12. CASE SnapshotStep
  <2>1. worker.step \in SnapshotSteps \/ (At("finish") /\ worker'.step = "fail")
    BY <1>12 DEF SnapshotStep, CheckHistory, ClaimHistory, SpinOnHistory, DropHistory, WriteHistory,
         FinishHistory, FailHistory, BreakHistory, RebuildPortfolio, FailPortfolio, At, SnapshotSteps,
         GoTo, Typed, WorkerStates
  <2>2. /\ worker'.job = worker.job /\ jobs' = jobs /\ request' = request
        /\ effects' = effects /\ task' = task /\ faults' \in {faults, faults + 1}
    BY <1>12 DEF SnapshotStep, CheckHistory, ClaimHistory, SpinOnHistory, DropHistory, WriteHistory,
         FinishHistory, FailHistory, BreakHistory, RebuildPortfolio, FailPortfolio, GoTo,
         Typed, WorkerStates, taskVars, queueVars
  <2>3. RequestsOnce'
    BY <2>2 DEF TasksOnce, RequestsOnce
  <2>4. \A j \in DOMAIN jobs : jobs[j].key \in Tasks /\ Unspent(j)' => Unspent(j)
    BY <2>1, <2>2, JobConstants DEF Unspent, SpentSteps, SnapshotSteps, Key, Holds, At
  <2>5. faults' \in Nat /\ faults <= faults'
    BY <2>2, JobConstants DEF Typed
  <2> QED
    BY <2>2, <2>3, <2>4, <2>5, OnceAlong
<1>13. CASE StartTask \/ FinishTask \/ FailTask
  <2>1. /\ worker.step \in TaskSteps /\ worker'.job = worker.job
        /\ worker.step \in SpentSteps => worker'.step \in SpentSteps
    BY <1>13 DEF StartTask, FinishTask, FailTask, At, GoTo, Typed, WorkerStates, TaskSteps, SpentSteps
  <2>2. \A s \in Slots : request[s].stage = "open" => request[s].key # Key
    BY <2>1, ServedTask
  <2>3. /\ jobs' = jobs /\ request' = request /\ effects' = effects /\ faults' = faults
        /\ \A t \in Tasks : task'[t] = "NONE" => task[t] = "NONE"
        /\ \A t \in Tasks : t # Key => task'[t] = task[t]
    BY <1>13 DEF StartTask, FinishTask, FailTask, queueVars, Typed
  <2>4. RequestsOnce'
    BY <2>2, <2>3 DEF TasksOnce, RequestsOnce
  <2>5. \A j \in DOMAIN jobs : Unspent(j)' => Unspent(j)
    BY <2>1, <2>3 DEF Unspent
  <2> QED
    BY <2>3, <2>4, <2>5, OnceAlong, JobConstants DEF Typed
<1>14. CASE UNCHANGED vars
  BY <1>14 DEF vars, TasksOnce, Unspent
<1> HIDE DEF IInv
<1> QED
  BY <1>1, <1>2, <1>3, <1>4, <1>5, <1>6, <1>7, <1>8, <1>9, <1>10, <1>11, <1>12, <1>13, <1>14
  DEF Next, RequestStep, WorkerStep, TaskStep, Poll

-----------------------------------------------------------------------------
(***************************************************************************)
(* The invariant, and what follows from it.                                *)
(***************************************************************************)
\* The inductive invariant holds initially.
LEMMA IInvInit == Init => IInv
<1> SUFFICES ASSUME Init PROVE IInv
  OBVIOUS
<1> USE JobConstants, RestingStates DEF Init
<1>1. Typed
  BY DEF Typed, Active, JobRows, Nobody
<1>2. Holds
  BY DEF Holds, Resting, Nobody, At, SnapshotSteps, TaskSteps
<1>3. RowsFresh
  BY DEF RowsFresh, OpenRow, NoRequest, Nobody
<1>4. VersionsOrdered
  BY DEF VersionsOrdered, Resting
<1>5. GapsHeld
  BY DEF GapsHeld, GapsAreClaimed, At
<1>6. TasksOnce
  BY DEF TasksOnce, NoRequest
<1> QED
  BY <1>1, <1>2, <1>3, <1>4, <1>5, <1>6 DEF IInv

\* The inductive invariant is kept by every step.
LEMMA IInvStep == IInv /\ [Next]_vars => IInv'
BY TypedStep, HoldsStep, RowsStep, VersionsStep, GapsStep, TasksStep DEF IInv

\* Every reachable state of the outbox, of the requests and of the worker
\* satisfies the inductive invariant.
THEOREM JobsSound == Spec => []IInv
BY IInvInit, IInvStep, PTL DEF Spec

\* The types of all rows and of the worker's local state, and every bound.
THEOREM JobsTyped == Spec => []TypeOK
<1>1. IInv => TypeOK
  <2> SUFFICES ASSUME IInv PROVE TypeOK
    OBVIOUS
  <2> USE DEF IInv
  <2>1. version \in [Users -> 0 .. MaxVersion] /\ built \in [Users -> 0 .. MaxVersion]
    BY JobConstants DEF Typed, VersionsOrdered
  <2>2. \A j \in DOMAIN jobs : jobs[j].key \in Keys /\ jobs[j].status \in Active \cup {"DONE", "FAILED"}
    BY DEF Typed, JobRows
  <2>3. \A s \in Slots \cup {Worker} :
          request[s].stage \in {"none", "open"} /\ request[s].row \in {Nobody} \cup 1 .. MaxJobs
    BY JobConstants DEF RowsFresh, OpenRow, Nobody
  <2>4. worker.job \in {Nobody} \cup DOMAIN jobs
    BY DEF Holds
  <2> QED
    BY <2>1, <2>2, <2>3, <2>4 DEF TypeOK, Typed
<1> QED
  BY <1>1, JobsSound, PTL

\* The holding history a rebuild deleted is never forgotten, however rebuilds
\* fail and the worker dies: the request row stays active.
THEOREM GapsStayClaimed == Spec => []GapsAreClaimed
<1>1. IInv => GapsAreClaimed
  BY DEF IInv, GapsHeld
<1> QED
  BY <1>1, JobsSound, PTL

\* A command takes effect at most once more than the worker was interrupted.
THEOREM EffectsBounded == Spec => []EffectsOnlyRepeatAfterFaults
<1>1. IInv => EffectsOnlyRepeatAfterFaults
  BY DEF IInv, TasksOnce, EffectsOnlyRepeatAfterFaults
<1> QED
  BY <1>1, JobsSound, PTL

-----------------------------------------------------------------------------
(***************************************************************************)
(* Stranded requests.                                                      *)
(***************************************************************************)
Stranded == {u \in Users : history[u] = "RUNNING" /\ ~Held(u)}

\* Only a fault strands a request, and that of the user being served alone.
LEMMA StrandedStep ==
  ASSUME IInv, [Next]_vars
  PROVE  \/ Stranded' \subseteq Stranded /\ faults' = faults
         \/ Stranded' \subseteq Stranded \cup {Key} /\ faults' = faults + 1
<1> DEFINE Goal == \/ Stranded' \subseteq Stranded /\ faults' = faults
                   \/ Stranded' \subseteq Stranded \cup {Key} /\ faults' = faults + 1
           Rebuilds == {"read", "history", "both"}
<1> USE DEF IInv
<1>1. ASSUME NEW s \in Slots, CommitChange(s)
      PROVE  Goal
  <2>1. \A u \in Users : history'[u] = "RUNNING" => history[u] = "RUNNING"
    BY <1>1 DEF CommitChange, CommitData, Typed
  <2>2. worker' = worker /\ (worker.step \in Rebuilds => Key' = Key)
    BY <1>1, HoldsBesideCommits DEF CommitChange, CommitData, Resting
  <2> QED
    BY <1>1, <2>1, <2>2 DEF CommitChange, Stranded, Held
<1>2. CASE CommitCommand
  <2>1. \A u \in Users : history'[u] = "RUNNING" => history[u] = "RUNNING"
    BY <1>2 DEF CommitCommand, CommitData, Typed
  <2>2. worker.step \notin Rebuilds
    BY <1>2 DEF CommitCommand, At
  <2> QED
    BY <1>2, <2>1, <2>2 DEF CommitCommand, Stranded, Held
<1>3. ASSUME NEW s \in Slots, CommitTask(s)
      PROVE  Goal
  <2>1. worker' = worker /\ (worker.step \in Rebuilds => Key' = Key)
    BY <1>3, HoldsBesideCommits DEF CommitTask, Resting
  <2> QED
    BY <1>3, <2>1 DEF CommitTask, Stranded, Held
<1>4. CASE ClaimHistory \/ DropHistory \/ WriteHistory
  <2>1. /\ worker'.step \in Rebuilds /\ Key' = Key
        /\ \A u \in Users : u # Key => history'[u] = history[u]
        /\ faults' = faults
    BY <1>4 DEF ClaimHistory, DropHistory, WriteHistory, GoTo, Typed, WorkerStates, Key, queueVars
  <2> QED
    BY <2>1 DEF Stranded, Held
<1>5. CASE FinishHistory \/ FailHistory
  <2>1. /\ worker.step \in Rebuilds /\ Key \in Users /\ faults' = faults
        /\ history'[Key] # "RUNNING" /\ \A u \in Users : u # Key => history'[u] = history[u]
    BY <1>5 DEF FinishHistory, FailHistory, At, Holds, SnapshotSteps, Typed, queueVars
  <2> QED
    BY <2>1 DEF Stranded, Held
<1>6. CASE BreakHistory \/ Crash
  BY <1>6 DEF BreakHistory, Crash, dataVars, Stranded, Held
<1>7. CASE \/ CheckHistory \/ SpinOnHistory \/ RebuildPortfolio \/ FailPortfolio
           \/ Claim \/ CompleteJob \/ FailJob \/ Restart
           \/ StartTask \/ StartCommand \/ FailCommand \/ FinishTask \/ FailTask
  <2>1. worker.step \notin Rebuilds /\ history' = history /\ faults' = faults
    BY <1>7 DEF CheckHistory, SpinOnHistory, RebuildPortfolio, FailPortfolio, Claim, CompleteJob,
         FailJob, Restart, StartTask, StartCommand, FailCommand, FinishTask, FailTask,
         At, dataVars, queueVars
  <2> QED
    BY <2>1 DEF Stranded, Held
<1>8. ASSUME UNCHANGED <<history, jobs, worker, faults>>
      PROVE  Goal
  BY <1>8 DEF Stranded, Held, Key
<1> HIDE DEF IInv
<1> QED
  BY <1>1, <1>2, <1>3, <1>4, <1>5, <1>6, <1>7, <1>8
  DEF Next, RequestStep, WorkerStep, SnapshotStep, TaskStep, ChangeData, CreateTask, Abort, Poll,
      dataVars, vars

\* At most one history request is stranded for every fault.
THEOREM StrandingBounded == Spec => []StrandedByFaults
<1>1. Init => StrandedByFaults
  <2> SUFFICES ASSUME Init PROVE StrandedByFaults
    OBVIOUS
  <2>1. Stranded = {} /\ faults = 0
    BY DEF Init, Stranded
  <2>2. Cardinality(Stranded) <= faults
    BY <2>1, FS_EmptySet
  <2> QED
    BY <2>2 DEF StrandedByFaults, Stranded
<1>2. IInv /\ StrandedByFaults /\ [Next]_vars => StrandedByFaults'
  <2> SUFFICES ASSUME IInv, Cardinality(Stranded) <= faults, [Next]_vars
               PROVE  Cardinality(Stranded') <= faults'
    BY DEF StrandedByFaults, Stranded
  <2>1. IsFiniteSet(Stranded) /\ Cardinality(Stranded) \in Nat
    BY FS_Subset, FS_CardinalityType, JobConstants DEF Stranded
  <2>2. faults \in Nat
    BY JobConstants DEF IInv, Typed
  <2>3. CASE Stranded' \subseteq Stranded /\ faults' = faults
    BY <2>1, <2>2, <2>3, FS_Subset, FS_CardinalityType
  <2>4. CASE Stranded' \subseteq Stranded \cup {Key} /\ faults' = faults + 1
    <3>1. /\ IsFiniteSet(Stranded \cup {Key})
          /\ Cardinality(Stranded \cup {Key}) \in Nat
          /\ Cardinality(Stranded \cup {Key}) <= Cardinality(Stranded) + 1
      BY <2>1, FS_AddElement, FS_CardinalityType
    <3>2. Cardinality(Stranded') \in Nat /\ Cardinality(Stranded') <= Cardinality(Stranded \cup {Key})
      BY <2>4, <3>1, FS_Subset, FS_CardinalityType
    <3> QED
      BY <2>1, <2>2, <2>4, <3>1, <3>2
  <2> QED
    BY <2>3, <2>4, StrandedStep
<1> QED
  BY <1>1, <1>2, JobsSound, PTL DEF Spec

-----------------------------------------------------------------------------
(***************************************************************************)
(* The refinement.  A step of a rebuild that is tried again, of a claim of *)
(* the history or of an open request is no step of the queue.              *)
(***************************************************************************)

\* What the queue sees of the worker.
Hand == [job |-> worker.job, base |-> worker.base, spent |-> worker.step \in SpentSteps]

\* What the queue is told of the worker agrees with where the worker is.
LEMMA HandSeen ==
  ASSUME IInv
  PROVE  /\ Hand = Queue!Empty <=> Resting
         /\ ~Resting => Queue!Key = Key
         /\ Queue!Serving(Users) <=> ~Resting /\ worker.step \notin SpentSteps /\ Key \in Users
         /\ Queue!Serving(Tasks) <=> ~Resting /\ worker.step \notin SpentSteps /\ Key \in Tasks
<1>1. Hand = Queue!Empty <=> Resting
  <2>1. CASE Resting
    <3>1. worker.job = 0 /\ worker.base = 0
      BY <2>1 DEF IInv, Holds, Nobody
    <3>2. (worker.step \in SpentSteps) = FALSE
      BY <2>1 DEF Resting, SpentSteps
    <3> QED
      BY <2>1, <3>1, <3>2 DEF Hand, Queue!Empty
  <2>2. CASE ~Resting
    <3>1. Hand.job # Queue!Empty.job
      BY <2>2 DEF IInv, Holds, Nobody, Hand, Queue!Empty
    <3> QED
      BY <2>2, <3>1
  <2> QED
    BY <2>1, <2>2
<1>2. Queue!Key = Key
  BY DEF Queue!Key, Key
<1> QED
  BY <1>1, <1>2 DEF Queue!Serving, Hand, SpentSteps

\* A commit adds its row to the queue, or changes nothing there.
LEMMA Joining ==
  ASSUME Typed, RowsFresh, NEW s \in Slots \cup {Worker}, request[s].stage = "open",
         jobs' = Inserted(s)
  PROVE  Queue!Joins(request[s].key) \/ jobs' = jobs
<1>1. CASE request[s].row = Nobody
  BY <1>1 DEF Inserted
<1>2. CASE request[s].row # Nobody
  <2>1. request[s].row \notin DOMAIN jobs
    BY <1>2 DEF RowsFresh, OpenRow
  <2>2. jobs' = [j \in DOMAIN jobs \cup {request[s].row} |->
                   IF j = request[s].row THEN [key |-> request[s].key, status |-> "PENDING"]
                                         ELSE jobs[j]]
    BY <1>2 DEF Inserted
  <2>3. request[s].row \in DOMAIN jobs' \ DOMAIN jobs
    BY <2>1, <2>2
  <2> QED
    BY <2>2, <2>3 DEF Queue!Joins
<1> QED
  BY <1>1, <1>2

QueueStep == [Queue!Next]_(Queue!vars)

\* What changes none of what the queue sees is no step of it.
LEMMA QueueStutters ==
  ASSUME version' = version, built' = built, jobs' = jobs, effects' = effects,
         worker'.job = worker.job, worker'.base = worker.base,
         worker'.step \in SpentSteps <=> worker.step \in SpentSteps
  PROVE  QueueStep
BY DEF QueueStep, Queue!vars, SpentSteps

\* The work on a job ends.
LEMMA Spends ==
  ASSUME worker'.job = worker.job, worker'.base = worker.base, worker'.step \in SpentSteps
  PROVE  Queue!Spend
<1>1. (worker'.step \in SpentSteps) = TRUE
  OBVIOUS
<1>2. Hand' = [job |-> worker.job, base |-> worker.base, spent |-> TRUE]
  BY <1>1 DEF Hand
<1>3. Hand = [job |-> worker.job, base |-> worker.base, spent |-> worker.step \in SpentSteps]
  BY DEF Hand
<1>4. ASSUME NEW h, h = [Hand EXCEPT !.spent = TRUE]
      PROVE  h = [job |-> worker.job, base |-> worker.base, spent |-> TRUE]
  BY <1>3, <1>4
<1>5. Hand' = [Hand EXCEPT !.spent = TRUE]
  BY <1>2, <1>4
<1> QED
  BY <1>5 DEF Queue!Spend, Hand, SpentSteps

\* The worker's steps on a user's data.
LEMMA QueueSnapshotStep ==
  ASSUME IInv, SnapshotStep
  PROVE  QueueStep
<1> USE DEF IInv
<1>1. CASE ClaimHistory \/ SpinOnHistory \/ DropHistory \/ WriteHistory \/ FailHistory
  <2>1. /\ worker'.job = worker.job /\ worker'.base = worker.base
        /\ worker'.step \notin SpentSteps /\ worker.step \notin SpentSteps
        /\ version' = version /\ built' = built /\ jobs' = jobs /\ effects' = effects
    BY <1>1 DEF ClaimHistory, SpinOnHistory, DropHistory, WriteHistory, FailHistory, At, GoTo,
         Typed, WorkerStates, SpentSteps, taskVars, dataVars
  <2> QED
    BY <2>1, QueueStutters
<1>2. ASSUME worker.step \in SnapshotSteps,
             worker'.job = worker.job, worker'.base = worker.base, worker'.step \in SpentSteps,
             version' = version, built' = built, jobs' = jobs, effects' = effects
      PROVE  QueueStep
  <2>1. ~Resting /\ worker.step \notin SpentSteps /\ Key \in Users
    BY <1>2 DEF Resting, SnapshotSteps, SpentSteps, Holds
  <2>2. Queue!Serving(Users \cup Tasks)
    BY <2>1, HandSeen DEF Queue!Serving
  <2>3. Queue!Spend
    BY <1>2, Spends
  <2>4. Queue!Yield
    BY <1>2, <2>2, <2>3 DEF Queue!Yield
  <2> QED
    BY <2>4 DEF QueueStep, Queue!Next
<1>3. CASE CheckHistory
  <2>1. /\ worker'.job = worker.job /\ worker'.base = worker.base
        /\ worker'.step \in {"claim", "finish", "portfolio"} /\ worker.step = "check"
        /\ version' = version /\ built' = built /\ jobs' = jobs /\ effects' = effects
    BY <1>3 DEF CheckHistory, At, Typed, WorkerStates, taskVars, dataVars
  <2> QED
    BY <2>1, <1>2, QueueStutters DEF SpentSteps, SnapshotSteps
<1>4. CASE BreakHistory \/ FailPortfolio
  <2>1. /\ worker'.job = worker.job /\ worker'.base = worker.base
        /\ worker'.step = "fail" /\ worker.step \in SnapshotSteps \cup {"finish"}
        /\ version' = version /\ built' = built /\ jobs' = jobs /\ effects' = effects
    BY <1>4 DEF BreakHistory, FailPortfolio, At, GoTo, Typed, WorkerStates, SnapshotSteps, taskVars, dataVars
  <2> QED
    BY <2>1, <1>2, QueueStutters DEF SpentSteps, SnapshotSteps
<1>5. CASE FinishHistory \/ RebuildPortfolio
  <2>1. /\ worker.step \in {"both", "portfolio"} /\ worker'.job = worker.job
        /\ worker'.base = worker.base
        /\ worker'.step \in {"check", "finish"}
        /\ version' = version /\ jobs' = jobs /\ effects' = effects
    BY <1>5 DEF FinishHistory, RebuildPortfolio, At, GoTo, Typed, WorkerStates, taskVars
  <2>2. PICK v \in worker.seen .. version[Key] : built' = [built EXCEPT ![Key] = v]
    BY <1>5 DEF FinishHistory, RebuildPortfolio
  <2>3. ~Resting /\ worker.step \notin SpentSteps /\ Key \in Users
    BY <2>1 DEF Resting, SnapshotSteps, SpentSteps, Holds
  <2>4. built[Key] <= worker.seen /\ built[Key] \in Nat /\ worker.seen \in Nat /\ version[Key] \in Nat
    BY <2>1, <2>3 DEF VersionsOrdered, Typed, WorkerStates
  <2>5. v \in built[Key] .. version[Key]
    BY <2>2, <2>4
  <2>6. Queue!Serving(Users) /\ Queue!Key = Key
    BY <2>3, HandSeen
  <2>7. Queue!Spend \/ UNCHANGED [job |-> worker.job, base |-> worker.base,
                                  spent |-> worker.step \in {"done", "failed", "finish", "fail"}]
    <3>1. CASE worker'.step = "finish"
      BY <2>1, <3>1, Spends DEF SpentSteps
    <3>2. CASE worker'.step = "check"
      BY <2>1, <3>2
    <3> QED
      BY <2>1, <3>1, <3>2
  <2>8. Queue!Build
    BY <2>1, <2>2, <2>5, <2>6, <2>7 DEF Queue!Build
  <2> QED
    BY <2>8 DEF QueueStep, Queue!Next
<1> HIDE DEF IInv
<1> QED
  BY <1>1, <1>3, <1>4, <1>5 DEF SnapshotStep

\* The worker's steps on a task.
LEMMA QueueTaskStep ==
  ASSUME IInv, TaskStep
  PROVE  QueueStep
<1> USE DEF IInv
<1>1. CASE StartCommand \/ FinishTask \/ FailTask
  <2>1. /\ worker'.job = worker.job /\ worker'.base = worker.base
        /\ worker'.step \in SpentSteps <=> worker.step \in SpentSteps
        /\ version' = version /\ built' = built /\ jobs' = jobs /\ effects' = effects
    BY <1>1 DEF StartCommand, FinishTask, FailTask, At, GoTo,
         Typed, WorkerStates, SpentSteps, taskVars, dataVars
  <2> QED
    BY <2>1, QueueStutters
<1>2. CASE StartTask \/ FailCommand
  <2>1. /\ worker'.job = worker.job /\ worker'.base = worker.base
        /\ worker.step \in {"task", "command", "running"}
        /\ worker'.step \in {"finish", "command", "failed"}
        /\ version' = version /\ built' = built /\ jobs' = jobs /\ effects' = effects
    BY <1>2 DEF StartTask, FailCommand, At, GoTo, Typed, WorkerStates, taskVars, dataVars
  <2>2. CASE worker'.step = "command"
    BY <2>1, <2>2, QueueStutters DEF SpentSteps
  <2>3. CASE worker'.step # "command"
    <3>1. ~Resting /\ worker.step \notin SpentSteps /\ Key \in Tasks
      BY <2>1 DEF Resting, TaskSteps, SpentSteps, Holds
    <3>2. Queue!Serving(Users \cup Tasks)
      BY <3>1, HandSeen DEF Queue!Serving
    <3>3. Queue!Spend
      BY <2>1, <2>3, Spends DEF SpentSteps
    <3> QED
      BY <2>1, <3>2, <3>3 DEF Queue!Yield, QueueStep, Queue!Next
  <2> QED
    BY <2>2, <2>3
<1>3. CASE CommitCommand
  <2>1. /\ worker'.job = worker.job /\ worker'.base = worker.base
        /\ worker'.step \in {"done", "failed"} /\ worker.step = "running"
        /\ built' = built /\ effects' = [effects EXCEPT ![Key] = @ + 1]
    BY <1>3 DEF CommitCommand, At, GoTo, Typed, WorkerStates
  <2>2. ~Resting /\ worker.step \notin SpentSteps /\ Key \in Tasks
    BY <2>1 DEF Resting, TaskSteps, SpentSteps, Holds
  <2>3. Queue!Serving(Tasks) /\ Queue!Key = Key
    BY <2>2, HandSeen
  <2>4. Queue!Spend
    BY <2>1, Spends DEF SpentSteps
  <2>5. PICK u \in Users : u = request[Worker].key /\ version' = [version EXCEPT ![u] = @ + 1]
    BY <1>3 DEF CommitCommand, CommitData
  <2>6. Queue!Joins(u) \/ jobs' = jobs
    BY <1>3, <2>5, Joining DEF CommitCommand, CommitData
  <2>7. Queue!Changes(u)
    BY <2>5, <2>6 DEF Queue!Changes
  <2> QED
    BY <2>1, <2>3, <2>4, <2>7 DEF Queue!Work, QueueStep, Queue!Next
<1> HIDE DEF IInv
<1> QED
  BY <1>1, <1>2, <1>3 DEF TaskStep

\* The worker takes a job, ends one, dies and comes back.
LEMMA QueueHandStep ==
  ASSUME IInv, Claim \/ CompleteJob \/ FailJob \/ Crash \/ Restart, IInv'
  PROVE  QueueStep
<1> USE DEF IInv
<1>1. CASE Claim
  <2>1. PICK j \in Pending :
          /\ \A k \in Pending : j <= k
          /\ jobs' = [jobs EXCEPT ![j].status = "RUNNING"]
          /\ worker' = [step |-> IF jobs[j].key \in Users THEN "check" ELSE "task",
                        job |-> j, seen |-> 0, processed |-> FALSE,
                        base |-> IF jobs[j].key \in Users THEN version[jobs[j].key] ELSE 0]
    BY <1>1 DEF Claim
  <2>2. Hand = Queue!Empty
    BY <1>1, HandSeen DEF Claim, At, Resting
  <2>3. Queue!With("RUNNING") = {}
    BY <1>1, JobConstants DEF Claim, At, Holds, Resting, Typed, Nobody, Queue!With
  <2>4. Queue!With("PENDING") = Pending
    BY DEF Queue!With, Pending
  <2>5. (worker'.step \in SpentSteps) = FALSE
    BY <2>1 DEF SpentSteps
  <2>6. Hand' = [job |-> j, spent |-> FALSE,
                 base |-> IF jobs[j].key \in Users THEN version[jobs[j].key] ELSE 0]
    BY <2>1, <2>5 DEF Hand
  <2>7. version' = version /\ built' = built /\ effects' = effects
    BY <1>1 DEF Claim, dataVars, taskVars
  <2>8. Queue!Take
    BY <2>1, <2>2, <2>3, <2>4, <2>6, <2>7 DEF Queue!Take, Hand, SpentSteps
  <2> QED
    BY <2>8 DEF QueueStep, Queue!Next
<1>2. CASE CompleteJob \/ FailJob
  <2>1. worker.step \in SpentSteps /\ ~Resting /\ Resting'
    BY <1>2, RestingStates DEF CompleteJob, FailJob, At, SpentSteps, Resting
  <2>2. Hand.spent /\ Hand.job = worker.job /\ Hand.base = worker.base
    BY <2>1 DEF Hand
  <2>3. Hand' = Queue!Empty'
    <3>1. worker'.job = 0 /\ worker'.base = 0
      BY <1>2, RestingStates DEF CompleteJob, FailJob
    <3>2. (worker'.step \in SpentSteps) = FALSE
      BY <2>1 DEF Resting, SpentSteps
    <3> QED
      BY <3>1, <3>2 DEF Hand, Queue!Empty
  <2>4. PICK status \in {"DONE", "FAILED"} :
          /\ jobs' = [jobs EXCEPT ![worker.job].status = status]
          /\ status = "DONE" /\ Key \in Users => worker.base <= built[Key]
    BY <1>2, <2>1 DEF CompleteJob, FailJob, SetJob, VersionsOrdered
  <2>5. worker.base \in Int /\ \A u \in Users : built[u] \in Int
    BY DEF Typed, WorkerStates
  <2>6. status = "DONE" /\ Key \in Users => built[Key] >= worker.base
    BY <2>4, <2>5
  <2>7. version' = version /\ built' = built /\ effects' = effects
    BY <1>2 DEF CompleteJob, FailJob, dataVars, taskVars
  <2>8. Queue!Finish
    BY <2>2, <2>3, <2>4, <2>6, <2>7
    DEF Queue!Finish, Queue!Key, Key, Queue!Empty, Hand, SpentSteps
  <2> QED
    BY <2>8 DEF QueueStep, Queue!Next
<1>3. CASE Crash
  <2>1. /\ Hand' = Queue!Empty'
        /\ version' = version /\ built' = built /\ jobs' = jobs /\ effects' = effects
    <3>1. worker'.job = 0 /\ worker'.base = 0 /\ worker'.step = "down"
      BY <1>3, RestingStates DEF Crash
    <3>2. (worker'.step \in SpentSteps) = FALSE
      BY <3>1 DEF SpentSteps
    <3> QED
      BY <1>3, <3>1, <3>2 DEF Crash, dataVars, taskVars, Hand, Queue!Empty
  <2>2. CASE Hand = Queue!Empty
    BY <2>1, <2>2 DEF QueueStep, Queue!vars, Queue!Empty, Hand, SpentSteps
  <2>3. CASE Hand # Queue!Empty
    <3>1. Queue!Lose
      BY <2>1, <2>3 DEF Queue!Lose, Queue!Empty, Hand, SpentSteps
    <3> QED
      BY <3>1 DEF QueueStep, Queue!Next
  <2> QED
    BY <2>2, <2>3
<1>4. CASE Restart
  <2>1. Hand = Queue!Empty
    BY <1>4, HandSeen DEF Restart, At, Resting
  <2>2. Hand' = Hand
    <3>1. worker'.job = worker.job /\ worker'.base = worker.base
      BY <1>4, RestingStates DEF Restart, At, Holds, Resting, Nobody
    <3>2. (worker'.step \in SpentSteps) = (worker.step \in SpentSteps)
      BY <1>4, RestingStates DEF Restart, At, SpentSteps
    <3> QED
      BY <3>1, <3>2 DEF Hand
  <2>3. jobs' = [j \in DOMAIN jobs |->
                   IF j \in Queue!With("RUNNING") THEN [jobs[j] EXCEPT !.status = "PENDING"]
                                                  ELSE jobs[j]]
    BY <1>4 DEF Restart, Queue!With
  <2>4. version' = version /\ built' = built /\ effects' = effects
    BY <1>4 DEF Restart, dataVars, taskVars
  <2>5. Queue!Recover
    BY <2>1, <2>2, <2>3, <2>4 DEF Queue!Recover, Hand, SpentSteps
  <2> QED
    BY <2>5 DEF QueueStep, Queue!Next
<1> HIDE DEF IInv
<1> QED
  BY <1>1, <1>2, <1>3, <1>4

\* The steps of requests.
LEMMA QueueRequestStep ==
  ASSUME IInv, RequestStep
  PROVE  QueueStep
<1> USE DEF IInv
<1>1. ASSUME NEW s \in Slots, CommitChange(s)
      PROVE  QueueStep
  <2>1. PICK u \in Users : u = request[s].key /\ version' = [version EXCEPT ![u] = @ + 1]
    BY <1>1 DEF CommitChange, CommitData
  <2>2. Queue!Joins(u) \/ jobs' = jobs
    BY <1>1, <2>1, Joining DEF CommitChange, CommitData
  <2>3. Queue!Changes(u)
    BY <2>1, <2>2 DEF Queue!Changes
  <2>4. built' = built /\ effects' = effects /\ worker' = worker
    BY <1>1 DEF CommitChange
  <2> QED
    BY <2>3, <2>4 DEF Queue!Change, QueueStep, Queue!Next
<1>2. ASSUME NEW s \in Slots, CommitTask(s)
      PROVE  QueueStep
  <2>1. PICK t \in Tasks : t = request[s].key
    BY <1>2 DEF CommitTask
  <2>2. Queue!Joins(t) \/ jobs' = jobs
    BY <1>2, <2>1, Joining DEF CommitTask
  <2>3. version' = version /\ built' = built /\ effects' = effects /\ worker' = worker
    BY <1>2 DEF CommitTask
  <2> QED
    BY <2>2, <2>3, QueueStutters DEF Queue!Submit, QueueStep, Queue!Next
<1>3. ASSUME UNCHANGED <<version, built, jobs, effects, worker>>
      PROVE  QueueStep
  BY <1>3, QueueStutters
<1> HIDE DEF IInv
<1> QED
  BY <1>1, <1>2, <1>3 DEF RequestStep, ChangeData, CreateTask, Abort

\* The outbox, its requests and its worker implement the queue: jobs are served
\* one at a time and the oldest first, results are final and true, and a
\* command takes effect once each time its job is taken.
THEOREM OutboxServesQueue == Spec => ServesQueue
<1>1. Init => Queue!Init
  <2> SUFFICES ASSUME Init PROVE Queue!Init
    OBVIOUS
  <2>1. (worker.step \in SpentSteps) = FALSE
    BY RestingStates DEF Init, SpentSteps
  <2>2. Hand = Queue!Empty
    BY <2>1, RestingStates DEF Init, Hand, Queue!Empty
  <2>3. jobs = [j \in {} |-> 0]
    BY DEF Init, Nobody
  <2> QED
    BY <2>2, <2>3 DEF Init, Queue!Init, Queue!Empty, Hand, SpentSteps
<1>2. IInv /\ IInv' /\ [Next]_vars => [Queue!Next]_(Queue!vars)
  <2> SUFFICES ASSUME IInv, IInv', [Next]_vars PROVE QueueStep
    BY DEF QueueStep
  <2>1. CASE UNCHANGED vars
    BY <2>1, QueueStutters DEF vars
  <2> QED
    BY <2>1, QueueRequestStep, QueueSnapshotStep, QueueTaskStep, QueueHandStep
    DEF Next, WorkerStep, Poll
<1> QED
  BY <1>1, <1>2, JobsSound, PTL DEF Spec, ServesQueue, Queue!Spec
=============================================================================
