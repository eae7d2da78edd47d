------------------------------ MODULE Dashboard ------------------------------
(***************************************************************************)
(* Dashboard reads of one user: the Redis entry that answers them for a    *)
(* second, the lock under which they build it, the live state of the       *)
(* running hour that a build turns into that hour's row, and the rebuild   *)
(* of the rows in the worker process (services/dashboard_query_service.py, *)
(* dashboard_live_service.py, history_service.py).                         *)
(*                                                                         *)
(* What a build shows is the number of commits it has read: the handlers'  *)
(* and the rebuilds'.  The five tables are read one after the other; Load  *)
(* is the first of these queries, so a build shows at least that.  The     *)
(* live state of the holdings' returns is handled like the portfolio's.    *)
(***************************************************************************)
EXTENDS Integers, FiniteSets

CONSTANTS
  Reads,           \* requests that GET /api/dashboard at once, again and again
  Forced,          \* those of them with refresh=true
  Bare,            \* commit counts at which the user owns nothing
  SecondsPerHour,  \* bound
  MaxSeconds,      \* bound on the clock
  MaxWrites,       \* bound on commits
  Nobody, Nothing

ASSUME DashboardConstants ==
  /\ Forced \subseteq Reads
  /\ Bare \subseteq Nat
  /\ SecondsPerHour \in Nat \ {0}
  /\ MaxSeconds \in Nat
  /\ MaxWrites \in Nat
  /\ Nobody \notin Reads
  /\ Nothing \notin [hour : Nat, shows : Nat]

VARIABLES
  clock,      \* the current second
  written,    \* commits so far
  due,        \* commits whose cache invalidation is still to come
  cache,      \* Nothing or [shows, at]: runtime_state.dashboard_cache
  lock,       \* read that holds dashboard-cache:<user>, or Nobody
  reads,      \* read -> [pc, hour, shows], and floor, what it must show
  live,       \* Nothing or [hour, shows]: runtime_state.live_portfolio_states
  rows,       \* set of [hour, shows]: PortfolioSnapshot
  rebuild,    \* the worker's rebuild: [phase, sees, end, doomed]
  \* What happened before, for the properties alone, as floor is:
  expired,    \* a build outlived its lock
  overlap,    \* a commit was made, or an outdated build stored, this second
  lastOf      \* hour -> what its last build showed, since the last rebuild

requests == <<cache, lock, reads>>
history == <<live, rows, lastOf>>
vars == <<clock, written, due, requests, history, rebuild, expired, overlap>>

Hour(second) == second \div SecondsPerHour

Building == {"building", "valued", "rolled"}

TypeOK ==
  /\ clock \in 0 .. MaxSeconds
  /\ written \in 0 .. MaxWrites /\ due \subseteq 1 .. written
  /\ cache # Nothing => cache.shows \in 0 .. written /\ cache.at \in 0 .. clock
  /\ lock # Nobody => lock \in Reads /\ reads[lock].pc \in Building
  /\ \A r \in Reads :
       /\ reads[r].pc \in {"none", "arrived", "waiting"} \cup Building
       /\ reads[r].hour \in 0 .. Hour(clock)
       /\ {reads[r].shows, reads[r].floor} \subseteq 0 .. written
  /\ live # Nothing => live.hour \in 0 .. Hour(clock) /\ live.shows \in 0 .. written
  /\ \A row \in rows : row.hour \in 0 .. Hour(clock) /\ row.shows \in 0 .. written
  /\ rebuild.phase \in {"idle", "computed", "flushed"} /\ rebuild.sees \in 0 .. written
  /\ {expired, overlap} \subseteq BOOLEAN

NoRequest == [pc |-> "none", hour |-> 0, shows |-> 0, floor |-> 0]
Idle == [phase |-> "idle", sees |-> 0, end |-> 0, doomed |-> {}]

NoHours == [h \in {} |-> 0]

Init ==
  /\ clock = 0 /\ written = 0 /\ due = {}
  /\ cache = Nothing /\ lock = Nobody
  /\ reads = [r \in Reads |-> NoRequest]
  /\ live = Nothing /\ rows = {} /\ lastOf = NoHours
  /\ rebuild = Idle
  /\ expired = FALSE /\ overlap = FALSE

Tick ==
  /\ clock < MaxSeconds
  /\ clock' = clock + 1
  /\ overlap' = FALSE
  /\ UNCHANGED <<written, due, requests, history, rebuild, expired>>

-----------------------------------------------------------------------------
\* Builds that have read less than what is committed.
Outdated == {r \in Reads : reads[r].pc \in {"valued", "rolled"} /\ reads[r].shows < written}

\* Mutant: an entry answers reads until it is invalidated.
AlwaysCurrent == cache # Nothing

\* _is_current_second of the entry's generated_at.
Current == cache # Nothing /\ cache.at = clock

\* The API process runs the reads in one event loop, and a build does not
\* await between its roll and its store.
LoopFree == \A r \in Reads : reads[r].pc # "rolled"

At(r, step) == reads[r].pc = step /\ (step = "rolled" \/ LoopFree)
GoTo(r, step) == reads' = [reads EXCEPT ![r].pc = step]
BeginBuild(r) == reads' = [reads EXCEPT ![r].pc = "building", ![r].hour = Hour(clock)]

\* The read is answered, or a 500.
End(r) == reads' = [reads EXCEPT ![r] = NoRequest]

Arrive(r) ==
  /\ At(r, "none")
  /\ reads' = [reads EXCEPT ![r].pc = "arrived",
                            ![r].floor = IF Outdated = {} /\ ~overlap THEN written ELSE 0]
  /\ UNCHANGED <<clock, written, due, cache, lock, history, rebuild, expired, overlap>>

\* get_dashboard and the first look at the entry.
LookUp(r) ==
  /\ At(r, "arrived")
  /\ IF r \notin Forced /\ Current THEN End(r) ELSE GoTo(r, "waiting")
  /\ cache' = IF r \in Forced THEN Nothing ELSE cache
  /\ UNCHANGED <<clock, written, due, lock, history, rebuild, expired, overlap>>

\* Holding the lock, an unforced read looks the entry up again.
Acquire(r) ==
  /\ At(r, "waiting") /\ lock = Nobody
  /\ IF r \notin Forced /\ Current
     THEN End(r) /\ UNCHANGED lock
     ELSE BeginBuild(r) /\ lock' = r
  /\ UNCHANGED <<clock, written, due, cache, history, rebuild, expired, overlap>>

\* blocking_timeout: RuntimeError, a 500.
TimeOut(r) ==
  /\ At(r, "waiting") /\ lock # Nobody
  /\ End(r)
  /\ UNCHANGED <<clock, written, due, cache, lock, history, rebuild, expired, overlap>>

\* timeout: Redis drops the lock of a build that takes longer.
Expire ==
  /\ lock # Nobody
  /\ lock' = Nobody
  /\ expired' = TRUE
  /\ UNCHANGED <<clock, written, due, cache, reads, history, rebuild, overlap>>

\* The lock of a build that has outlived it may be another's by now.
Release(r) == lock' = IF lock = r THEN Nobody ELSE lock

\* Everything is read and, with awaits, valued.
Load(r) ==
  /\ At(r, "building")
  /\ reads' = [reads EXCEPT ![r].pc = "valued", ![r].shows = written]
  /\ UNCHANGED <<clock, written, due, cache, lock, history, rebuild, expired, overlap>>

RowsOf(h) == {row \in rows : row.hour = h}

\* An hour before that of build r is over, and its rows, if it has any, are
\* not being deleted.
RollsOver(r) == live # Nothing /\ live.hour < reads[r].hour
RowsFree == live # Nothing => RowsOf(live.hour) \cap rebuild.doomed = {}

\* Mutant: the live state of the hour before is dropped unpersisted.
RollWithoutRow(r) ==
  /\ At(r, "valued")
  /\ live' = IF RollsOver(r) THEN Nothing ELSE live
  /\ GoTo(r, "rolled")
  /\ UNCHANGED <<clock, written, due, cache, lock, rows, lastOf, rebuild, expired, overlap>>

\* _roll_live_portfolio_state_if_needed: the hour gets one row, and a commit.
\* Live states always have has_assets_in_bucket.  Rows that a rebuild has
\* deleted but not committed hold the build up.
Roll(r) ==
  /\ At(r, "valued")
  /\ IF RollsOver(r)
     THEN /\ RowsFree
          /\ rows' = (rows \ RowsOf(live.hour)) \cup {live}
          /\ live' = Nothing
     ELSE UNCHANGED <<rows, live>>
  /\ GoTo(r, "rolled")
  /\ UNCHANGED <<clock, written, due, cache, lock, lastOf, rebuild, expired, overlap>>

\* The row to update is gone when the rebuild commits: StaleDataError, a 500.
RollConflict(r) ==
  /\ At(r, "valued")
  /\ RollsOver(r) /\ ~RowsFree
  /\ End(r) /\ Release(r)
  /\ UNCHANGED <<clock, written, due, cache, history, rebuild, expired, overlap>>

\* _update_live_portfolio_state
Updated(r) ==
  LET hour == reads[r].hour
      sameHour == live # Nothing /\ live.hour = hour
  IN IF reads[r].shows \notin Bare \/ sameHour
     THEN [hour |-> hour, shows |-> reads[r].shows]
     ELSE Nothing

\* The live state and the entry are written and the read is answered.
Store(r) ==
  /\ At(r, "rolled")
  /\ live' = Updated(r)
  /\ cache' = [shows |-> reads[r].shows, at |-> clock]
  /\ End(r) /\ Release(r)
  /\ overlap' = (overlap \/ r \in Outdated)
  /\ lastOf' = IF live' = Nothing THEN lastOf
               ELSE [h \in DOMAIN lastOf \cup {live'.hour} |->
                       IF h = live'.hour THEN live'.shows ELSE lastOf[h]]
  /\ UNCHANGED <<clock, written, due, rows, rebuild, expired>>

-----------------------------------------------------------------------------
Commits ==
  /\ written < MaxWrites
  /\ written' = written + 1
  /\ due' = due \cup {written'}
  /\ overlap' = TRUE

\* A handler that changes cash, holdings or assets commits.
Write ==
  /\ Commits
  /\ UNCHANGED <<clock, requests, history, rebuild, expired>>

\* Its _invalidate_dashboard_cache.
Invalidate(c) ==
  /\ c \in due
  /\ due' = due \ {c}
  /\ cache' = Nothing
  /\ overlap' = (overlap /\ (due' # {} \/ Outdated # {}))
  /\ UNCHANGED <<clock, written, lock, reads, history, rebuild, expired>>

\* The process stops, or Redis fails, between the two.
LoseInvalidation(c) ==
  /\ c \in due
  /\ due' = due \ {c}
  /\ UNCHANGED <<clock, written, requests, history, rebuild, expired, overlap>>

\* _rebuild_user_portfolio_snapshots reads the tables and values the hours.
RebuildCompute ==
  /\ rebuild.phase = "idle"
  /\ rebuild' = [phase |-> "computed", sees |-> written, end |-> Hour(clock), doomed |-> {}]
  /\ UNCHANGED <<clock, written, due, requests, history, expired, overlap>>

\* It deletes the rows, drops the live state and the entry, all before its
\* commit; with nothing to value it only deletes the rows.
RebuildFlush ==
  LET bare == rebuild.sees \in Bare
  IN /\ rebuild.phase = "computed"
     /\ rebuild' = [rebuild EXCEPT !.phase = "flushed", !.doomed = rows]
     /\ live' = IF bare THEN live ELSE Nothing
     /\ cache' = IF bare THEN cache ELSE Nothing
     /\ lastOf' = NoHours
     /\ UNCHANGED <<clock, written, due, lock, reads, rows, expired, overlap>>

\* The rows of the hours up to its start replace those it deleted; rows that
\* were added in between stay.
RebuildCommit ==
  /\ rebuild.phase = "flushed"
  /\ Commits
  /\ rows' = (rows \ rebuild.doomed) \cup
               {[hour |-> h, shows |-> rebuild.sees] :
                  h \in IF rebuild.sees \in Bare THEN {} ELSE 0 .. rebuild.end}
  /\ rebuild' = Idle
  /\ UNCHANGED <<clock, requests, live, lastOf, expired>>

RebuildFail ==
  /\ rebuild.phase # "idle"
  /\ rebuild' = Idle
  /\ UNCHANGED <<clock, written, due, requests, history, expired, overlap>>

Read(r) ==
  \/ Arrive(r) \/ LookUp(r) \/ Acquire(r) \/ TimeOut(r)
  \/ Load(r) \/ Roll(r) \/ RollConflict(r) \/ Store(r)

Next ==
  \/ Tick \/ Expire
  \/ \E r \in Reads : Read(r)
  \/ Write
  \/ \E c \in due : Invalidate(c) \/ LoseInvalidation(c)
  \/ RebuildCompute \/ RebuildFlush \/ RebuildCommit \/ RebuildFail

Spec == Init /\ [][Next]_vars

-----------------------------------------------------------------------------
\* A read shows every commit made before it started, unless a build that had
\* read less was still under way or was stored in that very second, or the
\* commit's invalidation was still to come in its second.  A lost invalidation
\* or an overtaken build misleads reads until the second is over, no longer.
ReadsAreFresh ==
  [][\A r \in Reads :
       /\ (LookUp(r) \/ Acquire(r)) /\ reads'[r] = NoRequest => cache.shows >= reads[r].floor
       /\ Store(r) => reads[r].shows >= reads[r].floor]_vars

\* An hour that is over keeps what its last build showed, also across lost
\* answers, refreshes and rolls that a rebuild made fail: it is the live state
\* or a row.  A rebuild starts over; a build that outlives the lock may set
\* the live state back to an earlier hour.
HoursKeepLast ==
  expired \/ \A h \in DOMAIN lastOf :
               [hour |-> h, shows |-> lastOf[h]] \in rows \cup {live}
=============================================================================
