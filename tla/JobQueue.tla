------------------------------ MODULE JobQueue ------------------------------
(***************************************************************************)
(* What the outbox of background jobs promises to the rest of the server:  *)
(* committed jobs are served one at a time, the oldest first; a rebuild is *)
(* done only when the snapshots hold what was committed before the job was *)
(* taken; a command takes effect at most once each time its job is taken;  *)
(* and a result is final.  A job whose worker is lost goes back to the     *)
(* queue and is served again.                                              *)
(***************************************************************************)
EXTENDS Integers

CONSTANTS Users, Tasks

VARIABLES
  version,  \* user -> version of the committed portfolio data
  built,    \* user -> version the snapshots were built from
  queue,    \* job -> [key, status], jobs being positive integers
  effects,  \* task -> how often its command took effect
  hand      \* [job, base, spent]: the job being served, what was committed
            \* when it was taken, whether its work is over

vars == <<version, built, queue, effects, hand>>

Empty == [job |-> 0, base |-> 0, spent |-> FALSE]

Init ==
  /\ version = [u \in Users |-> 0]
  /\ built = [u \in Users |-> 0]
  /\ queue = [j \in {} |-> 0]
  /\ effects = [t \in Tasks |-> 0]
  /\ hand = Empty

With(status) == {j \in DOMAIN queue : queue[j].status = status}

\* A new job of key k joins the queue.
Joins(k) ==
  \E j \in DOMAIN queue' \ DOMAIN queue :
    queue' = [i \in DOMAIN queue \cup {j} |->
                IF i = j THEN [key |-> k, status |-> "PENDING"] ELSE queue[i]]

\* The data of user u changes; a rebuild is queued unless one is under way.
Changes(u) ==
  /\ version' = [version EXCEPT ![u] = @ + 1]
  /\ Joins(u) \/ UNCHANGED queue

Change == \E u \in Users : Changes(u) /\ UNCHANGED <<built, effects, hand>>

Submit == \E t \in Tasks : Joins(t) /\ UNCHANGED <<version, built, effects, hand>>

Take ==
  /\ hand = Empty /\ With("RUNNING") = {}
  /\ \E j \in With("PENDING") :
       /\ \A i \in With("PENDING") : j <= i
       /\ queue' = [queue EXCEPT ![j].status = "RUNNING"]
       /\ hand' = [job |-> j, spent |-> FALSE,
                   base |-> IF queue[j].key \in Users THEN version[queue[j].key] ELSE 0]
  /\ UNCHANGED <<version, built, effects>>

Key == queue[hand.job].key
Serving(keys) == hand # Empty /\ ~hand.spent /\ Key \in keys
Spend == hand' = [hand EXCEPT !.spent = TRUE]

\* The snapshots are brought forward to some version, up to the newest.
Build ==
  /\ Serving(Users)
  /\ \E v \in built[Key] .. version[Key] : built' = [built EXCEPT ![Key] = v]
  /\ Spend \/ UNCHANGED hand
  /\ UNCHANGED <<version, queue, effects>>

\* The command of a task changes its user's data.
Work ==
  /\ Serving(Tasks)
  /\ effects' = [effects EXCEPT ![Key] = @ + 1]
  /\ Spend
  /\ \E u \in Users : Changes(u)
  /\ UNCHANGED built

\* The work is given up, or was done before.
Yield ==
  /\ Serving(Users \cup Tasks)
  /\ Spend
  /\ UNCHANGED <<version, built, queue, effects>>

Finish ==
  /\ hand.spent
  /\ \E status \in {"DONE", "FAILED"} :
       /\ status = "DONE" /\ Key \in Users => built[Key] >= hand.base
       /\ queue' = [queue EXCEPT ![hand.job].status = status]
  /\ hand' = Empty
  /\ UNCHANGED <<version, built, effects>>

\* The worker is gone.
Lose ==
  /\ hand # Empty
  /\ hand' = Empty
  /\ UNCHANGED <<version, built, queue, effects>>

\* Its successor puts back what it held.
Recover ==
  /\ hand = Empty
  /\ queue' = [j \in DOMAIN queue |->
                 IF j \in With("RUNNING") THEN [queue[j] EXCEPT !.status = "PENDING"]
                                          ELSE queue[j]]
  /\ UNCHANGED <<version, built, effects, hand>>

Next ==
  \/ Change \/ Submit
  \/ Take \/ Build \/ Work \/ Yield \/ Finish
  \/ Lose \/ Recover

Spec == Init /\ [][Next]_vars
=============================================================================
