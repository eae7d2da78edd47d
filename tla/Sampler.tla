------------------------------ MODULE Sampler -------------------------------
(***************************************************************************)
(* The realtime sampler (services/realtime_analytics_service.py): the loop *)
(* of each worker process samples once a second under a Redis lock that    *)
(* lives one second, and a forced refresh of a dashboard clears the caches *)
(* and samples without the lock (dashboard_query_service.get_dashboard).   *)
(*                                                                         *)
(* One user owns one holding of every symbol.  The rows are the holding's  *)
(* return points of an hour; the portfolio's total and the rows of the     *)
(* second are written by the same rules in the same transaction.  The      *)
(* model is one hour, and its seconds have no number: what counts is what  *)
(* falls into the running one.                                             *)
(***************************************************************************)
EXTENDS MarketData

CONSTANTS
  Loops,         \* worker processes
  Api,           \* the API process
  MaxTroubles    \* bound on the forced refreshes, and the loops' crashes and errors

Nobody == "nobody"
Samplers == Loops \cup {Api}

ASSUME SamplerConstants ==
  /\ Callers = Samplers /\ Api \notin Loops /\ Nobody \notin Samplers
  /\ IsFiniteSet(Loops) /\ MaxTroubles \in Nat

VARIABLES
  lock,        \* loop that holds realtime-analytics-sampler, or Nobody
  sampledNow,  \* last_sampled_at lies in the running second
  sample,      \* sampler -> [pc, now, found]: whether a loop's second still runs,
               \* and the row that it has found, 0 for none
  rows,        \* ids of the rows of the hour
  troubles,
  overtaken    \* a sample has run beside another that the lock did not stop

vars == <<marketVars, lock, sampledNow, sample, rows,
          troubles, overtaken>>

Asleep == [pc |-> "idle", now |-> FALSE, found |-> 0]
RowIds == 1 .. 2 * Cardinality(Samplers)

TypeOK ==
  /\ MarketTypeOK
  /\ lock \in Loops \cup {Nobody} /\ {sampledNow, overtaken} \subseteq BOOLEAN
  /\ sample \in [Samplers -> [pc : {"idle", "locked", "clear", "fetch", "write", "note", "leave"},
                              now : BOOLEAN, found : RowIds \cup {0}]]
  /\ rows \subseteq RowIds

Init ==
  /\ MarketInit
  /\ lock = Nobody /\ sampledNow = FALSE
  /\ sample = [s \in Samplers |-> Asleep] /\ rows = {}
  /\ troubles = 0 /\ overtaken = FALSE

At(s, pc) == sample[s].pc = pc
GoTo(s, pc) == sample' = [sample EXCEPT ![s].pc = pc]
Sleep(s) == sample' = [sample EXCEPT ![s] = Asleep]
Sampling(s) == sample[s].pc \in {"locked", "clear", "fetch", "write"}
FetchAnew(s) == fetch' = [fetch EXCEPT ![s] = [k \in Keys |-> NoFetch]]
BeginSample(s) ==
  /\ sample' = [sample EXCEPT ![s] = [pc |-> "fetch", now |-> s \in Loops, found |-> 0]]
  /\ FetchAnew(s)

-----------------------------------------------------------------------------
\* The next second begins.
Tick ==
  /\ sampledNow' = FALSE
  /\ sample' = [s \in Samplers |-> [sample[s] EXCEPT !.now = FALSE]]
  /\ UNCHANGED <<marketVars, lock, rows, troubles, overtaken>>

\* Mutant: the loop samples whether it gets the lock or not.
AcquireAnyway(w) ==
  /\ At(w, "idle") /\ ~sampledNow
  /\ lock' = w
  /\ GoTo(w, "locked")
  /\ UNCHANGED <<marketVars, sampledNow, rows, troubles, overtaken>>

\* realtime_analytics_sampler: a second that is sampled is left alone, and so
\* is one whose lock is taken.
Acquire(w) ==
  /\ At(w, "idle") /\ ~sampledNow
  /\ lock = Nobody /\ lock' = w
  /\ GoTo(w, "locked")
  /\ UNCHANGED <<marketVars, sampledNow, rows, troubles, overtaken>>

\* It looks again, and begins the sample.
Enter(w) ==
  /\ At(w, "locked")
  /\ IF sampledNow
     THEN GoTo(w, "leave") /\ UNCHANGED <<fetch, overtaken>>
     ELSE /\ BeginSample(w)
          /\ overtaken' = (overtaken \/ Sampling(Api))
  /\ UNCHANGED <<market, cache, clearing, expiring, lock, sampledNow, rows, troubles>>

\* timeout: Redis drops the lock, of a loop that is still at work in the next
\* second (or has waited for its lock's answer so long) or that is not there
\* any more.
Lapse ==
  /\ lock # Nobody /\ (At(lock, "locked") \/ ~sample[lock].now)
  /\ lock' = Nobody
  /\ overtaken' = (overtaken \/ Sampling(lock))
  /\ UNCHANGED <<marketVars, sampledNow, sample, rows, troubles>>

\* get_dashboard with refresh=true and the slot of the minute
Refresh ==
  /\ At(Api, "idle") /\ troubles < MaxTroubles
  /\ GoTo(Api, "clear") /\ clearing' = Keys
  /\ troubles' = troubles + 1
  /\ overtaken' = (overtaken \/ \E w \in Loops : Sampling(w))
  /\ UNCHANGED <<market, cache, fetch, expiring, lock, sampledNow, rows>>

\* clear_runtime_caches before the sample
Clear(k) ==
  /\ At(Api, "clear")
  /\ ReadExpiring(k) \/ WriteExpired(k)
  /\ UNCHANGED <<lock, sampledNow, sample, rows, troubles, overtaken>>

EnterCleared ==
  /\ At(Api, "clear") /\ clearing = {}
  /\ BeginSample(Api)
  /\ UNCHANGED <<market, cache, clearing, expiring, lock, sampledNow, rows,
                 troubles, overtaken>>

-----------------------------------------------------------------------------
(***************************************************************************)
(* _sample_realtime_analytics_once_with_session                            *)
(***************************************************************************)
\* _prefetch_quotes, and the same for exchange rates
Prefetch(s, k) ==
  /\ At(s, "fetch")
  /\ FetchStep(s, k)
  /\ UNCHANGED <<lock, sampledNow, sample, rows, troubles, overtaken>>

\* _build_user_realtime_state: a holding without a quote has no point.
HasPoint(s) == \A k \in Keys : fetch[s][k].at = "quoted"

\* _upsert_hourly_snapshots looks for the row of the hour.
FindRow(s) ==
  /\ At(s, "fetch") /\ Fetched(s)
  /\ \E d \in IF rows = {} THEN {0} ELSE rows :
       sample' = [sample EXCEPT ![s].pc = "write", ![s].found = d]
  /\ UNCHANGED <<marketVars, lock, sampledNow, rows, troubles, overtaken>>

\* An id that nothing refers to
NewRow == CHOOSE d \in RowIds : d \notin rows \cup {sample[s].found : s \in Samplers}

\* A loop goes on with its lock, a request answers.
Proceed(s, pc) ==
  /\ sample' = [sample EXCEPT ![s] = IF s \in Loops
                                         THEN [pc |-> pc, found |-> 0,
                                               now |-> sample[s].now /\ pc = "note"]
                                         ELSE Asleep]
  /\ FetchAnew(s)

\* The commit: the row is updated or inserted, or deleted when the holding has
\* no point; an UPDATE of a row that is gone fails, if it would change it.
CommitSample(s) ==
  LET d == sample[s].found
      gone == d # 0 /\ d \notin rows
  IN /\ At(s, "write")
     /\ rows' = CASE gone -> rows
                  [] d = 0 /\ HasPoint(s) -> rows \cup {NewRow}
                  [] OTHER -> IF HasPoint(s) THEN rows ELSE rows \ {d}
     /\ \E pc \in IF gone /\ HasPoint(s) THEN {"leave", "note"} ELSE {"note"} : Proceed(s, pc)
     /\ UNCHANGED <<market, cache, clearing, expiring, lock, sampledNow,
                    troubles, overtaken>>

\* set_last_realtime_analytics_sampled_at, to the second of this sample
NoteSecond(w) ==
  /\ At(w, "note")
  /\ sampledNow' = sample[w].now
  /\ sample' = [sample EXCEPT ![w] = [Asleep EXCEPT !.pc = "leave"]]
  /\ UNCHANGED <<marketVars, lock, rows, troubles, overtaken>>

\* The lock is released if it is still the loop's.
Leave(w) ==
  /\ At(w, "leave")
  /\ lock' = IF lock = w THEN Nobody ELSE lock
  /\ Sleep(w)
  /\ UNCHANGED <<marketVars, sampledNow, rows, troubles, overtaken>>

\* Each refresh brings the request that may fail with it.
Trouble(s) ==
  IF s = Api THEN UNCHANGED troubles
             ELSE troubles < MaxTroubles /\ troubles' = troubles + 1

\* The database fails: the loop logs it, the request ends.
FailSample(s) ==
  /\ sample[s].pc \in {"fetch", "write"} /\ Trouble(s)
  /\ Proceed(s, "leave")
  /\ UNCHANGED <<market, cache, clearing, expiring, lock, sampledNow, rows, overtaken>>

\* The process of s stops and starts again.
Crash(s) ==
  /\ ~At(s, "idle") /\ Trouble(s)
  /\ Sleep(s)
  /\ FetchAnew(s)
  /\ IF s = Api THEN clearing' = {} /\ expiring' = [k \in Keys |-> 0]
                ELSE UNCHANGED <<clearing, expiring>>
  /\ UNCHANGED <<market, cache, lock, sampledNow, rows, overtaken>>

World ==
  /\ \E k \in Keys : Moves(k) \/ Stales(k)
  /\ UNCHANGED <<lock, sampledNow, sample, rows, troubles, overtaken>>

Continue(s) ==
  \/ \E k \in Keys : Prefetch(s, k)
  \/ FindRow(s) \/ CommitSample(s)
  \/ s \in Loops /\ (Enter(s) \/ NoteSecond(s) \/ Leave(s))
  \/ s = Api /\ (EnterCleared \/ \E k \in Keys : Clear(k))

Next ==
  \/ Tick \/ Lapse \/ Refresh \/ World
  \/ \E w \in Loops : Acquire(w)
  \/ \E s \in Samplers : Continue(s) \/ FailSample(s) \/ Crash(s)

(***************************************************************************)
(* Some loop gets the lock when it is free, some process goes on, time     *)
(* passes, and the providers do not always fail.                           *)
(***************************************************************************)
Fairness ==
  /\ WF_vars(Tick) /\ WF_vars(Lapse)
  /\ WF_vars(\E w \in Loops : Acquire(w))
  /\ WF_vars(\E s \in Samplers : Continue(s))
  /\ \A k \in Keys :
       /\ WF_vars(Stales(k) /\ World)
       /\ SF_vars(\E w \in Loops : Answer(w, k) /\ Prefetch(w, k))

Spec == Init /\ [][Next]_vars
FairSpec == Spec /\ Fairness

-----------------------------------------------------------------------------
\* An hour has one row, unless a sample ran longer than its lock or beside a
\* forced refresh, and never more than there are processes that sample.
HourRowsBounded ==
  /\ ~overtaken => Cardinality(rows) <= 1
  /\ Cardinality(rows) <= Cardinality(Samplers)

\* A holding whose quote the cache had when a sample began is part of that
\* sample, through failing providers and a refresh that expires the caches
\* under it.
KnownQuotesSampled ==
  \A s \in Samplers :
    At(s, "write") =>
      \A k \in Keys : fetch[s][k].known => fetch[s][k].at = "quoted"

\* The dashboards, which read the cache alone, however stale, come to show
\* the market once it rests: across crashes, lapsed locks, failing providers
\* and answers that arrive late.
DashboardsConverge == <>[](\A k \in Keys : Shown(k) = market[k])
=============================================================================
