--------------------------- MODULE BackgroundJobs ---------------------------
(***************************************************************************)
(* The outbox of background jobs, the requests that enqueue into it and    *)
(* the one worker process that drains it (services/job_service.py,         *)
(* history_sync_service.py, history_service.py, worker.py).                *)
(*                                                                         *)
(* The granularity is the database transaction: other processes see what   *)
(* a transaction wrote when it commits.  Rows commit in PostgreSQL's READ  *)
(* COMMITTED; the Redis lock around an enqueue is released before that.    *)
(* Portfolio data is a version number per user; a rebuild that starts at   *)
(* version v and ends at w reads its tables at versions from v to w.       *)
(***************************************************************************)
EXTENDS Integers, FiniteSets

CONSTANTS
  Users, Tasks,   \* dedup keys: "snapshot-rebuild:<user>", "agent-task:<id>"
  Owner,          \* task -> user
  Slots,          \* concurrent API requests
  Worker,         \* the slot of the command an agent task executes
  MaxVersion,     \* bound on the changes to one user's data
  MaxJobs,        \* bound on the rows of the outbox
  MaxFaults       \* bound on crashes and database errors

Nobody == 0       \* no job, no row

ASSUME JobConstants ==
  /\ Users \cap Tasks = {} /\ IsFiniteSet(Users)
  /\ Owner \in [Tasks -> Users]
  /\ Worker \notin Slots
  /\ MaxVersion \in Nat /\ MaxJobs \in Nat /\ MaxFaults \in Nat

VARIABLES
  version,    \* user -> version of the committed portfolio data
  built,      \* user -> version the portfolio snapshots were built from
  history,    \* user -> status of the user's holding-history request row
  gap,        \* user -> the holding history is deleted and not yet rebuilt
  jobs,       \* job id -> [key, status]; ids follow created_at
  request,    \* slot -> what the open transaction of the slot has done
  task,       \* task -> status
  effects,    \* task -> how many times its command committed
  worker,     \* [step, job, seen, processed, base]
  faults

vars == <<version, built, history, gap, jobs, request, task, effects, worker,
          faults>>

Keys == Users \cup Tasks
Active == {"PENDING", "RUNNING"}
NoRequest == [stage |-> "none", key |-> Nobody, row |-> Nobody,
              trade |-> FALSE, sawPending |-> FALSE]
Down == [step |-> "down", job |-> Nobody, seen |-> 0, processed |-> FALSE, base |-> 0]
Idle == [Down EXCEPT !.step = "idle"]

TypeOK ==
  /\ version \in [Users -> 0 .. MaxVersion]
  /\ built \in [Users -> 0 .. MaxVersion]
  /\ history \in [Users -> {"PENDING", "RUNNING", "DONE"}]
  /\ gap \in [Users -> BOOLEAN]
  /\ DOMAIN jobs \subseteq 1 .. MaxJobs
  /\ \A j \in DOMAIN jobs :
       /\ jobs[j].key \in Keys
       /\ jobs[j].status \in Active \cup {"DONE", "FAILED"}
  /\ \A s \in Slots \cup {Worker} :
       /\ request[s].stage \in {"none", "open"}
       /\ request[s].row \in {Nobody} \cup 1 .. MaxJobs
  /\ task \in [Tasks -> {"NONE", "DONE", "FAILED"} \cup Active]
  /\ effects \in [Tasks -> Nat]
  /\ worker.job \in {Nobody} \cup DOMAIN jobs
  /\ faults \in 0 .. MaxFaults

\* Users have traded before, so that their history request row exists.
Init ==
  /\ version = [u \in Users |-> 0]
  /\ built = [u \in Users |-> 0]
  /\ history = [u \in Users |-> "DONE"]
  /\ gap = [u \in Users |-> FALSE]
  /\ jobs = [j \in {} |-> Nobody]
  /\ request = [s \in Slots \cup {Worker} |-> NoRequest]
  /\ task = [t \in Tasks |-> "NONE"]
  /\ effects = [t \in Tasks |-> 0]
  /\ worker = Idle
  /\ faults = 0

-----------------------------------------------------------------------------
(***************************************************************************)
(* Requests.  _enqueue_job looks for a committed active job of its key and *)
(* inserts a row when there is none; row and data commit together.         *)
(***************************************************************************)
ActiveJobs(k) == {j \in DOMAIN jobs : jobs[j].key = k /\ jobs[j].status \in Active}

\* Ids in use, by rows that are committed and by rows that are not.
Ids == DOMAIN jobs \cup {request[s].row : s \in Slots \cup {Worker}}

\* The id of a new row is the next after them.
NextIds == {n \in 1 .. MaxJobs : (\A i \in Ids : i < n) /\ n - 1 \in Ids \cup {0}}

\* What slot s does up to the enqueue of a job with key k for user u; a trade
\* also resets the history request, whose status it has read.
Enqueue(s, k, trade, u) ==
  /\ request[s] = NoRequest
  /\ \E row \in IF ActiveJobs(k) = {} THEN NextIds ELSE {Nobody} :
       request' = [request EXCEPT ![s] =
          [stage |-> "open", key |-> k, row |-> row,
           trade |-> trade, sawPending |-> trade /\ history[u] = "PENDING"]]

\* Row of an open request as it becomes visible.
Inserted(s) ==
  IF request[s].row = Nobody
  THEN jobs
  ELSE [j \in DOMAIN jobs \cup {request[s].row} |->
          IF j = request[s].row THEN [key |-> request[s].key, status |-> "PENDING"]
                                ELSE jobs[j]]

\* A handler that changes the data of user u, a trade or anything else.
ChangeData(s, u, trade) ==
  /\ Enqueue(s, u, trade, u)
  /\ UNCHANGED <<version, built, history, gap, jobs, task, effects, worker, faults>>

\* Writing PENDING over a PENDING that was read is no change of the column,
\* so the row keeps what the worker has made of it since.
CommitData(s) ==
  LET u == request[s].key
  IN /\ request[s].stage = "open" /\ u \in Users
     /\ version[u] < MaxVersion
     /\ version' = [version EXCEPT ![u] = @ + 1]
     /\ history' = IF request[s].trade /\ ~request[s].sawPending
                   THEN [history EXCEPT ![u] = "PENDING"]
                   ELSE history
     /\ jobs' = Inserted(s)
     /\ request' = [request EXCEPT ![s] = NoRequest]

CommitChange(s) ==
  /\ CommitData(s)
  /\ UNCHANGED <<built, gap, task, effects, worker, faults>>

\* create_agent_task; a task has a dedup key of its own.
CreateTask(s, t) ==
  /\ task[t] = "NONE"
  /\ \A r \in Slots : request[r].key # t
  /\ Enqueue(s, t, FALSE, Owner[t])
  /\ UNCHANGED <<version, built, history, gap, jobs, task, effects, worker, faults>>

CommitTask(s) ==
  LET t == request[s].key
  IN /\ request[s].stage = "open" /\ t \in Tasks
     /\ task' = [task EXCEPT ![t] = "PENDING"]
     /\ jobs' = Inserted(s)
     /\ request' = [request EXCEPT ![s] = NoRequest]
     /\ UNCHANGED <<version, built, history, gap, effects, worker, faults>>

\* Any error before the commit rolls the transaction back.
Abort(s) ==
  /\ request[s].stage = "open"
  /\ request' = [request EXCEPT ![s] = NoRequest]
  /\ UNCHANGED <<version, built, history, gap, jobs, task, effects, worker, faults>>

-----------------------------------------------------------------------------
(***************************************************************************)
(* The worker, one transaction at a time.                                  *)
(***************************************************************************)
Key == jobs[worker.job].key
At(step) == worker.step = step
GoTo(step) == worker' = [worker EXCEPT !.step = step]
SetJob(status) == jobs' = [jobs EXCEPT ![worker.job].status = status]

queueVars == <<request, faults>>
dataVars == <<version, built, history, gap>>
taskVars == <<task, effects>>

\* _claim_next_pending_job: the oldest committed PENDING row.
Pending == {j \in DOMAIN jobs : jobs[j].status = "PENDING"}

Claim ==
  /\ At("idle")
  /\ \E j \in Pending :
       /\ \A k \in Pending : j <= k
       /\ jobs' = [jobs EXCEPT ![j].status = "RUNNING"]
       /\ worker' = [step |-> IF jobs[j].key \in Users THEN "check" ELSE "task",
                     job |-> j, seen |-> 0, processed |-> FALSE,
                     base |-> IF jobs[j].key \in Users THEN version[jobs[j].key] ELSE 0]
  /\ UNCHANGED <<dataVars, taskVars, queueVars>>

\* background_job_worker finds nothing to claim and goes to sleep.
Poll ==
  /\ At("idle")
  /\ Pending = {}
  /\ UNCHANGED vars

\* The loop of _process_snapshot_rebuild_job: history requests first, and the
\* portfolio alone only when there was none.
CheckHistory ==
  /\ At("check")
  /\ worker' = IF history[Key] \in Active
               THEN [worker EXCEPT !.step = "claim", !.processed = TRUE]
               ELSE IF worker.processed THEN [worker EXCEPT !.step = "finish"]
               ELSE [worker EXCEPT !.step = "portfolio", !.seen = version[Key]]
  /\ UNCHANGED <<dataVars, taskVars, jobs, queueVars>>

ClaimHistory ==
  /\ At("claim") /\ history[Key] = "PENDING"
  /\ history' = [history EXCEPT ![Key] = "RUNNING"]
  /\ GoTo("read")
  /\ UNCHANGED <<version, built, gap, taskVars, jobs, queueVars>>

\* Only PENDING rows are claimed; a row left RUNNING sends the loop round.
SpinOnHistory ==
  /\ At("claim") /\ history[Key] # "PENDING"
  /\ GoTo("check")
  /\ UNCHANGED <<dataVars, taskVars, jobs, queueVars>>

\* Reads the trades, deletes the old history and commits the deletion.
DropHistory ==
  /\ At("read")
  /\ gap' = [gap EXCEPT ![Key] = TRUE]
  /\ worker' = [worker EXCEPT !.step = "history", !.seen = version[Key]]
  /\ UNCHANGED <<version, built, history, taskVars, jobs, queueVars>>

\* The last commit of the rows of the holding history.
WriteHistory ==
  /\ At("history")
  /\ gap' = [gap EXCEPT ![Key] = FALSE]
  /\ GoTo("both")
  /\ UNCHANGED <<version, built, history, taskVars, jobs, queueVars>>

\* Mutant: the request row is not marked done.
FinishHistoryQuietly ==
  /\ At("both")
  /\ \E v \in worker.seen .. version[Key] : built' = [built EXCEPT ![Key] = v]
  /\ GoTo("check")
  /\ UNCHANGED <<version, history, gap, taskVars, jobs, queueVars>>

\* The portfolio snapshots and the DONE of the request row commit together;
\* DONE is written whatever the row says by now.
FinishHistory ==
  /\ At("both")
  /\ \E v \in worker.seen .. version[Key] : built' = [built EXCEPT ![Key] = v]
  /\ history' = [history EXCEPT ![Key] = "DONE"]
  /\ GoTo("check")
  /\ UNCHANGED <<version, gap, taskVars, jobs, queueVars>>

\* Mutant: a failed rebuild is written off.
FailHistoryForGood ==
  /\ worker.step \in {"read", "history", "both"}
  /\ history' = [history EXCEPT ![Key] = "DONE"]
  /\ GoTo("check")
  /\ UNCHANGED <<version, built, gap, taskVars, jobs, queueVars>>

\* An error outside the database puts the request row back.
FailHistory ==
  /\ worker.step \in {"read", "history", "both"}
  /\ history' = [history EXCEPT ![Key] = "PENDING"]
  /\ GoTo("check")
  /\ UNCHANGED <<version, built, gap, taskVars, jobs, queueVars>>

\* After a database error the row cannot be put back in the same session:
\* the job fails and the row stays RUNNING.
BreakHistory ==
  /\ worker.step \in {"read", "history", "both"}
  /\ faults < MaxFaults
  /\ faults' = faults + 1
  /\ GoTo("fail")
  /\ UNCHANGED <<dataVars, taskVars, jobs, request>>

RebuildPortfolio ==
  /\ At("portfolio")
  /\ \E v \in worker.seen .. version[Key] : built' = [built EXCEPT ![Key] = v]
  /\ GoTo("finish")
  /\ UNCHANGED <<version, history, gap, taskVars, jobs, queueVars>>

\* The rebuild fails, or the invalidation of the cache that follows it.
FailPortfolio ==
  /\ At("portfolio") \/ (At("finish") /\ Key \in Users)
  /\ GoTo("fail")
  /\ UNCHANGED <<dataVars, taskVars, jobs, queueVars>>

\* _process_agent_task_execution_job up to the start of the command.
StartTask ==
  /\ At("task")
  /\ IF task[Key] = "DONE"
     THEN GoTo("finish") /\ UNCHANGED task
     ELSE GoTo("command") /\ task' = [task EXCEPT ![Key] = "RUNNING"]
  /\ UNCHANGED <<dataVars, effects, jobs, queueVars>>

\* The command is a handler like any other, in a session of its own.
StartCommand ==
  /\ At("command")
  /\ \E trade \in BOOLEAN : Enqueue(Worker, Owner[Key], trade, Owner[Key])
  /\ GoTo("running")
  /\ UNCHANGED <<dataVars, taskVars, jobs, faults>>

\* What the handler does after its commit may still fail.
CommitCommand ==
  /\ At("running")
  /\ CommitData(Worker)
  /\ effects' = [effects EXCEPT ![Key] = @ + 1]
  /\ GoTo("done") \/ GoTo("failed")
  /\ UNCHANGED <<built, gap, task, faults>>

FailCommand ==
  /\ At("command") \/ At("running")
  /\ request' = [request EXCEPT ![Worker] = NoRequest]
  /\ GoTo("failed")
  /\ UNCHANGED <<dataVars, taskVars, jobs, faults>>

FinishTask ==
  /\ At("done")
  /\ task' = [task EXCEPT ![Key] = "DONE"]
  /\ GoTo("finish")
  /\ UNCHANGED <<dataVars, effects, jobs, queueVars>>

FailTask ==
  /\ At("failed")
  /\ task' = [task EXCEPT ![Key] = "FAILED"]
  /\ GoTo("fail")
  /\ UNCHANGED <<dataVars, effects, jobs, queueVars>>

CompleteJob ==
  /\ At("finish")
  /\ SetJob("DONE")
  /\ worker' = Idle
  /\ UNCHANGED <<dataVars, taskVars, queueVars>>

\* Mutant: a failed job is queued again.
FailJobRetries ==
  /\ At("fail")
  /\ SetJob("PENDING")
  /\ worker' = Idle
  /\ UNCHANGED <<dataVars, taskVars, queueVars>>

\* Failed jobs are not retried.
FailJob ==
  /\ At("fail")
  /\ SetJob("FAILED")
  /\ worker' = Idle
  /\ UNCHANGED <<dataVars, taskVars, queueVars>>

\* The process dies, or is stopped and cancels its loop: the claimed rows stay
\* as they are.  The open transaction is lost, or, when a stop lets the thread
\* of a command end, has just committed.
Crash ==
  /\ ~At("down")
  /\ faults < MaxFaults
  /\ faults' = faults + 1
  /\ worker' = Down
  /\ request' = [request EXCEPT ![Worker] = NoRequest]
  /\ UNCHANGED <<dataVars, taskVars, jobs>>

\* Mutant: running jobs are left to the process that is gone.
RestartWithoutReset ==
  /\ At("down")
  /\ worker' = Idle
  /\ UNCHANGED <<dataVars, taskVars, jobs, queueVars>>

\* reset_running_jobs_to_pending; the history requests are not reset.
Restart ==
  /\ At("down")
  /\ jobs' = [j \in DOMAIN jobs |->
                IF jobs[j].status = "RUNNING" THEN [jobs[j] EXCEPT !.status = "PENDING"]
                                              ELSE jobs[j]]
  /\ worker' = Idle
  /\ UNCHANGED <<dataVars, taskVars, queueVars>>

RequestStep ==
  \E s \in Slots :
    \/ \E u \in Users, trade \in BOOLEAN : ChangeData(s, u, trade)
    \/ CommitChange(s)
    \/ \E t \in Tasks : CreateTask(s, t)
    \/ CommitTask(s)
    \/ Abort(s)

SnapshotStep ==
  \/ CheckHistory \/ ClaimHistory \/ SpinOnHistory \/ DropHistory \/ WriteHistory
  \/ FinishHistory \/ FailHistory \/ BreakHistory
  \/ RebuildPortfolio \/ FailPortfolio

TaskStep ==
  StartTask \/ StartCommand \/ CommitCommand \/ FailCommand \/ FinishTask \/ FailTask

WorkerStep == Claim \/ Poll \/ SnapshotStep \/ TaskStep \/ CompleteJob \/ FailJob \/ Restart

Next == RequestStep \/ WorkerStep \/ Crash

Spec == Init /\ [][Next]_vars

(***************************************************************************)
(* The worker's loop keeps running and is restarted by its container; a    *)
(* request, once open, commits or rolls back.  A history rebuild that is   *)
(* tried again and again succeeds in the end: the market data comes back.  *)
(***************************************************************************)
Fairness ==
  /\ WF_vars(WorkerStep)
  /\ SF_vars(WriteHistory) /\ SF_vars(FinishHistory) /\ SF_vars(DropHistory)
  /\ \A s \in Slots : WF_vars(CommitChange(s) \/ CommitTask(s) \/ Abort(s))

FairSpec == Spec /\ Fairness

-----------------------------------------------------------------------------
\* The outbox and its worker implement the job queue the server relies on:
\* one job at a time and the oldest first, also after a crash; results that
\* are final and true; no command twice within one run of its job.
Queue ==
  INSTANCE JobQueue WITH
    queue <- jobs,
    hand  <- [job   |-> worker.job, base |-> worker.base,
              spent |-> worker.step \in {"done", "failed", "finish", "fail"}]

ServesQueue == Queue!Spec

\* A history request stays RUNNING, which nothing ever claims again, only
\* where a fault cut short the rebuild that had claimed it.
Held(u) == worker.step \in {"read", "history", "both"} /\ Key = u

StrandedByFaults ==
  Cardinality({u \in Users : history[u] = "RUNNING" /\ ~Held(u)}) <= faults

\* Deleted holding history is never forgotten: as long as it is missing, the
\* request row is not DONE, and the next rebuild of the user sees that.
GapsAreClaimed ==
  \A u \in Users : gap[u] => history[u] \in Active

\* A command takes effect once, and once more at most for every fault that
\* interrupted the worker.
EffectsOnlyRepeatAfterFaults ==
  \A t \in Tasks : effects[t] <= 1 + faults

\* Once no more changes and tasks arrive, every job ends and stays so, unless a
\* fault interrupts the worker, and however often market data is missing.
JobsEnd ==
  <>[](faults > 0 \/ \A j \in DOMAIN jobs : jobs[j].status \in {"DONE", "FAILED"})
=============================================================================
