-------------------------- MODULE Dashboard_proofs --------------------------
(***************************************************************************)
(* What dashboards show and what an hour keeps, for every set of reads,    *)
(* every length of an hour and however many commits and rebuilds come in   *)
(* between.                                                                *)
(***************************************************************************)
EXTENDS Dashboard, TLAPS

Row == [hour : Nat, shows : Nat]
ReadRecord == [pc : {"none", "arrived", "waiting"} \cup Building,
               hour : 0 .. Hour(clock), shows : Nat, floor : 0 .. written]

(***************************************************************************)
(* The types, as far as the steps tell them apart.                         *)
(***************************************************************************)
Typed ==
  /\ clock \in Nat /\ written \in Nat
  /\ cache = Nothing \/ cache \in [shows : Nat, at : 0 .. clock]
  /\ lock \in Reads \cup {Nobody}
  /\ reads \in [Reads -> ReadRecord]
  /\ live = Nothing \/ live \in [hour : 0 .. Hour(clock), shows : Nat]
  /\ rows \subseteq Row
  /\ rebuild \in [phase : {"idle", "computed", "flushed"}, sees : Nat,
                  end : Nat, doomed : SUBSET Row]
  /\ overlap \in BOOLEAN

(***************************************************************************)
(* What a read must show, no current entry and no build under way shows    *)
(* less; a quiet second has an entry that shows everything.                *)
(***************************************************************************)
Fresh ==
  /\ ~overlap /\ Current => cache.shows >= written
  /\ \A r \in Reads :
       /\ Current => cache.shows >= reads[r].floor
       /\ \A q \in Reads : reads[q].pc \in {"valued", "rolled"}
                             => reads[q].shows >= reads[r].floor

(***************************************************************************)
(* While no build has outlived its lock: builds exclude each other, none   *)
(* finds a live state of a later hour, and what an hour showed last is the *)
(* live state or a row that no rebuild is deleting.                        *)
(***************************************************************************)
OneBuild ==
  \A r \in Reads :
    /\ reads[r].pc \in Building => lock = r
    /\ reads[r].pc \in Building /\ live # Nothing => live.hour <= reads[r].hour
    /\ reads[r].pc = "rolled" /\ live # Nothing => live.hour = reads[r].hour

Doomed ==
  /\ rebuild.doomed \subseteq rows
  /\ rebuild.phase # "flushed" => rebuild.doomed = {}

Kept ==
  \A h \in DOMAIN lastOf :
    /\ [hour |-> h, shows |-> lastOf[h]] \in (rows \ rebuild.doomed) \cup ({live} \ {Nothing})
    /\ live # Nothing /\ live.hour = h => live.shows = lastOf[h]

Sound == Typed /\ Fresh /\ Doomed /\ (expired \/ (OneBuild /\ Kept))

-----------------------------------------------------------------------------
\* Hours are numbers, and time does not go back.
LEMMA HoursPass ==
  ASSUME NEW c \in Nat
  PROVE  Hour(c) \in Nat /\ Hour(c + 1) \in Nat /\ Hour(c) <= Hour(c + 1)
<1>1. SecondsPerHour \in Nat /\ SecondsPerHour > 0
  BY DashboardConstants
<1> QED BY <1>1 DEF Hour


\* The fields of a read's record and of the live state
LEMMA ReadFields ==
  ASSUME Typed, NEW r \in Reads
  PROVE  /\ reads[r] \in ReadRecord
         /\ reads[r].pc \in {"none", "arrived", "waiting"} \cup Building
         /\ reads[r].hour \in Nat /\ reads[r].hour <= Hour(clock)
         /\ reads[r].shows \in Nat
         /\ reads[r].floor \in Nat /\ reads[r].floor <= written
<1>1. Hour(clock) \in Nat /\ written \in Nat
  BY HoursPass DEF Typed
<1>2. reads[r] \in ReadRecord
  BY DEF Typed
<1> QED BY <1>1, <1>2 DEF ReadRecord

LEMMA LiveFields ==
  ASSUME Typed, live # Nothing
  PROVE  live \in Row /\ live.hour \in Nat /\ live.hour <= Hour(clock)
<1>1. Hour(clock) \in Nat
  BY HoursPass DEF Typed
<1>2. live \in [hour : 0 .. Hour(clock), shows : Nat]
  BY DEF Typed
<1> QED BY <1>1, <1>2 DEF Row

\* What each step of a read makes of its record; the others keep theirs.
LEMMA ReadSteps ==
  ASSUME Typed, NEW r \in Reads, Read(r)
  PROVE  /\ clock' = clock /\ written' = written /\ rebuild' = rebuild
         /\ expired' = expired
         /\ reads' \in [Reads -> ReadRecord]
         /\ \A q \in Reads \ {r} : reads'[q] = reads[q]
         /\ reads'[r].floor = reads[r].floor \/ reads'[r].floor = 0 \/ Arrive(r)
         /\ \/ reads'[r].pc \in {"none", "arrived", "waiting"} \/ Load(r) \/ Roll(r)
            \/ /\ reads'[r].pc = "building" /\ reads'[r].hour = Hour(clock)
               /\ Acquire(r) /\ lock = Nobody /\ lock' = r
         /\ Load(r) => reads'[r].shows = written /\ reads'[r].hour = reads[r].hour
         /\ Roll(r) => reads'[r].shows = reads[r].shows /\ reads'[r].hour = reads[r].hour
<1>1. /\ reads \in [Reads -> ReadRecord]
      /\ Hour(clock) \in Nat /\ written \in Nat
  BY HoursPass DEF Typed
<1>2. NoRequest \in ReadRecord
  BY <1>1 DEF NoRequest, ReadRecord
<1>3. CASE Arrive(r)
  <2> DEFINE w == IF Outdated = {} /\ ~overlap THEN written ELSE 0
  <2>1. /\ w \in 0 .. written
        /\ reads' = [reads EXCEPT ![r].pc = "arrived", ![r].floor = w]
    BY <1>1, <1>3 DEF Arrive
  <2> HIDE DEF w
  <2>2. /\ reads' \in [Reads -> ReadRecord] /\ reads'[r].pc = "arrived"
        /\ \A q \in Reads \ {r} : reads'[q] = reads[q]
    BY <1>1, <2>1 DEF ReadRecord
  <2>3. /\ clock' = clock /\ written' = written /\ rebuild' = rebuild
        /\ expired' = expired /\ ~Load(r) /\ ~Roll(r)
    BY <1>3 DEF Arrive, Load, Roll, At
  <2> QED BY <1>3, <2>2, <2>3
<1>4. ASSUME GoTo(r, "waiting") \/ GoTo(r, "rolled")
      PROVE  /\ reads' \in [Reads -> ReadRecord] /\ reads'[r].pc \in {"waiting", "rolled"}
             /\ \A q \in Reads \ {r} : reads'[q] = reads[q]
             /\ reads'[r].floor = reads[r].floor /\ reads'[r].hour = reads[r].hour
             /\ reads'[r].shows = reads[r].shows
             /\ GoTo(r, "waiting") => reads'[r].pc = "waiting"
  BY <1>1, <1>4 DEF ReadRecord, GoTo, Building
<1>5. ASSUME End(r)
      PROVE  /\ reads' \in [Reads -> ReadRecord]
             /\ \A q \in Reads \ {r} : reads'[q] = reads[q]
             /\ reads'[r].floor = 0 /\ reads'[r].pc = "none"
  <2>1. reads' \in [Reads -> ReadRecord] /\ reads'[r] = NoRequest
        /\ \A q \in Reads \ {r} : reads'[q] = reads[q]
    BY <1>1, <1>2, <1>5 DEF End
  <2> QED BY <2>1 DEF NoRequest
<1>6. ASSUME BeginBuild(r)
      PROVE  /\ reads' \in [Reads -> ReadRecord]
             /\ \A q \in Reads \ {r} : reads'[q] = reads[q]
             /\ reads'[r].floor = reads[r].floor /\ reads'[r].pc = "building"
             /\ reads'[r].hour = Hour(clock)
  <2> DEFINE h == Hour(clock)
  <2>1. reads' = [reads EXCEPT ![r].pc = "building", ![r].hour = h]
    BY <1>6 DEF BeginBuild
  <2>2. h \in 0 .. Hour(clock)
    BY <1>1
  <2> HIDE DEF h
  <2>3. /\ reads' \in [Reads -> ReadRecord]
        /\ \A q \in Reads \ {r} : reads'[q] = reads[q]
        /\ reads'[r].floor = reads[r].floor /\ reads'[r].pc = "building"
        /\ reads'[r].hour = h
    BY <1>1, <2>1, <2>2 DEF ReadRecord, Building
  <2> QED BY <2>3 DEF h
<1>7. CASE LookUp(r)
  <2>1. GoTo(r, "waiting") \/ End(r)
    BY <1>7 DEF LookUp
  <2>2. /\ clock' = clock /\ written' = written /\ rebuild' = rebuild
        /\ expired' = expired /\ ~Load(r) /\ ~Roll(r)
    BY <1>7 DEF LookUp, Load, Roll, At
  <2> QED BY <1>4, <1>5, <2>1, <2>2
<1>8. CASE Acquire(r)
  <2>1. (BeginBuild(r) /\ lock = Nobody /\ lock' = r) \/ End(r)
    BY <1>8 DEF Acquire
  <2>2. /\ clock' = clock /\ written' = written /\ rebuild' = rebuild
        /\ expired' = expired /\ ~Load(r) /\ ~Roll(r)
    BY <1>8 DEF Acquire, Load, Roll, At
  <2> QED BY <1>5, <1>6, <1>8, <2>1, <2>2
<1>9. CASE TimeOut(r)
  <2>1. End(r)
    BY <1>9 DEF TimeOut
  <2>2. /\ clock' = clock /\ written' = written /\ rebuild' = rebuild
        /\ expired' = expired /\ ~Load(r) /\ ~Roll(r)
    BY <1>9 DEF TimeOut, Load, Roll, At
  <2> QED BY <1>5, <2>1, <2>2
<1>10. CASE Load(r)
  <2>1. /\ reads' \in [Reads -> ReadRecord]
        /\ \A q \in Reads \ {r} : reads'[q] = reads[q]
        /\ reads'[r].floor = reads[r].floor
        /\ reads'[r].shows = written /\ reads'[r].hour = reads[r].hour
    BY <1>1, <1>10 DEF ReadRecord, Building, Load
  <2>2. /\ clock' = clock /\ written' = written /\ rebuild' = rebuild
        /\ expired' = expired /\ ~Roll(r)
    BY <1>1, <1>10 DEF Load, Roll, At, ReadRecord
  <2> QED BY <1>10, <2>1, <2>2
<1>11. CASE Roll(r)
  <2>1. GoTo(r, "rolled")
    BY <1>11 DEF Roll
  <2>2. /\ clock' = clock /\ written' = written /\ rebuild' = rebuild
        /\ expired' = expired /\ ~Load(r)
    BY <1>11 DEF Load, Roll, At
  <2> QED BY <1>4, <1>11, <2>1, <2>2
<1>12. CASE RollConflict(r)
  <2>1. End(r)
    BY <1>12 DEF RollConflict
  <2>2. /\ clock' = clock /\ written' = written /\ rebuild' = rebuild
        /\ expired' = expired
    BY <1>12 DEF RollConflict, history
  <2>3. ~Load(r) /\ ~Roll(r)
    BY <1>12 DEF RollConflict, Load, Roll, At
  <2> QED BY <1>5, <2>1, <2>2, <2>3
<1>13. CASE Store(r)
  <2>1. End(r)
    BY <1>13 DEF Store
  <2>2. /\ clock' = clock /\ written' = written /\ rebuild' = rebuild
        /\ expired' = expired /\ ~Load(r) /\ ~Roll(r)
    BY <1>13 DEF Store, Load, Roll, At
  <2> QED BY <1>5, <2>1, <2>2
<1> QED BY <1>3, <1>7, <1>8, <1>9, <1>10, <1>11, <1>12, <1>13 DEF Read

-----------------------------------------------------------------------------
(***************************************************************************)
(* The types.                                                              *)
(***************************************************************************)
\* What a read's steps write is of its type.
LEMMA ReadTyped ==
  ASSUME Typed, NEW r \in Reads, Read(r)
  PROVE  Typed'
<1>1. /\ clock' = clock /\ written' = written /\ rebuild' = rebuild
      /\ reads' \in [Reads -> ReadRecord]
  BY ReadSteps
<1>2. ReadRecord' = ReadRecord /\ Hour(clock)' = Hour(clock)
  BY <1>1 DEF ReadRecord, Hour
<1>3. reads[r] \in ReadRecord
  BY ReadFields
<1>4. cache' = Nothing \/ cache' \in [shows : Nat, at : 0 .. clock]
  <2>1. CASE cache' = cache \/ cache' = Nothing
    BY <2>1 DEF Typed
  <2>2. CASE Store(r)
    BY <1>3, <2>2 DEF Store, Typed, ReadRecord
  <2> QED BY <2>1, <2>2 DEF Read, Arrive, LookUp, Acquire, TimeOut, Load, Roll, RollConflict
<1>5. lock' \in Reads \cup {Nobody}
  BY DEF Typed, Read, Arrive, LookUp, Acquire, TimeOut, Load, Roll, RollConflict, Store, Release
<1>6. live' = Nothing \/ live' \in [hour : 0 .. Hour(clock), shows : Nat]
  <2>1. CASE live' = live \/ live' = Nothing
    BY <2>1 DEF Typed
  <2>2. CASE Store(r)
    BY <1>3, <2>2 DEF Store, Updated, ReadRecord
  <2> QED BY <2>1, <2>2 DEF Read, Arrive, LookUp, Acquire, TimeOut, Load, Roll, RollConflict, history
<1>7. rows' \subseteq Row
  <2>1. CASE Roll(r)
    <3>1. RollsOver(r) => live \in Row
      BY LiveFields DEF RollsOver
    <3> QED BY <2>1, <3>1 DEF Roll, Typed
  <2>2. CASE ~Roll(r)
    BY <2>2 DEF Typed, Read, Arrive, LookUp, Acquire, TimeOut, Load, RollConflict, Store, history
  <2> QED BY <2>1, <2>2
<1>8. overlap' \in BOOLEAN
  BY DEF Typed, Read, Arrive, LookUp, Acquire, TimeOut, Load, Roll, RollConflict, Store
<1> QED BY <1>1, <1>2, <1>4, <1>5, <1>6, <1>7, <1>8 DEF Typed

\* A later second, or a further commit, allows what was allowed before.
LEMMA LaterRecords ==
  ASSUME Typed, clock' \in {clock, clock + 1}, written' \in {written, written + 1}
  PROVE  /\ clock' \in Nat /\ written' \in Nat
         /\ Hour(clock)' \in Nat /\ Hour(clock) <= Hour(clock)'
         /\ ReadRecord \subseteq ReadRecord'
         /\ [shows : Nat, at : 0 .. clock] \subseteq [shows : Nat, at : 0 .. clock]'
         /\ [hour : 0 .. Hour(clock), shows : Nat] \subseteq [hour : 0 .. Hour(clock), shows : Nat]'
<1>1. /\ clock \in Nat /\ written \in Nat /\ clock' \in Nat /\ written' \in Nat
      /\ clock <= clock' /\ written <= written'
  BY DEF Typed
<1>2. /\ Hour(clock) \in Nat /\ Hour(clock)' \in Nat /\ Hour(clock) <= Hour(clock)'
  <2>1. Hour(clock)' = Hour(clock')
    BY DEF Hour
  <2> QED BY <1>1, <2>1, HoursPass
<1>3. 0 .. Hour(clock) \subseteq 0 .. Hour(clock)'
  BY <1>2
<1>4. ReadRecord \subseteq ReadRecord'
  <2>1. 0 .. written \subseteq 0 .. written'
    BY <1>1
  <2> HIDE <1>2
  <2> QED BY <1>3, <2>1 DEF ReadRecord
<1>5. [shows : Nat, at : 0 .. clock] \subseteq [shows : Nat, at : 0 .. clock]'
  BY <1>1
<1>6. [hour : 0 .. Hour(clock), shows : Nat] \subseteq [hour : 0 .. Hour(clock), shows : Nat]'
  BY <1>3
<1> QED BY <1>1, <1>2, <1>4, <1>5, <1>6

\* Every step keeps the types.
LEMMA TypedStep == Typed /\ [Next]_vars => Typed'
<1> SUFFICES ASSUME Typed, [Next]_vars PROVE Typed'
  OBVIOUS
<1> DEFINE Later ==
      /\ clock' \in {clock, clock + 1} /\ written' \in {written, written + 1}
      /\ cache' \in {cache, Nothing} /\ lock' \in {lock, Nobody} /\ reads' = reads
      /\ live' \in {live, Nothing} /\ rows' \subseteq Row /\ overlap' \in BOOLEAN
      /\ rebuild' \in [phase : {"idle", "computed", "flushed"}, sees : Nat,
                       end : Nat, doomed : SUBSET Row]
<1>1. ASSUME Later PROVE Typed'
  <2>1. /\ clock' \in Nat /\ written' \in Nat
        /\ ReadRecord \subseteq ReadRecord'
        /\ [shows : Nat, at : 0 .. clock] \subseteq [shows : Nat, at : 0 .. clock]'
        /\ [hour : 0 .. Hour(clock), shows : Nat] \subseteq [hour : 0 .. Hour(clock), shows : Nat]'
    BY <1>1, LaterRecords
  <2>2. reads' \in [Reads -> ReadRecord']
    BY <1>1, <2>1 DEF Typed
  <2>3. cache' = Nothing \/ cache' \in [shows : Nat, at : 0 .. clock]'
    BY <1>1, <2>1 DEF Typed
  <2>4. live' = Nothing \/ live' \in [hour : 0 .. Hour(clock), shows : Nat]'
    BY <1>1, <2>1 DEF Typed
  <2>5. lock' \in Reads \cup {Nobody}
    BY <1>1 DEF Typed
  <2> QED BY <1>1, <2>1, <2>2, <2>3, <2>4, <2>5 DEF Typed
<1>2. CASE Tick \/ Expire \/ Write \/ UNCHANGED vars
  BY <1>1, <1>2 DEF Typed, Tick, Expire, Write, Commits, vars, requests, history
<1>3. CASE \E c \in due : Invalidate(c) \/ LoseInvalidation(c)
  BY <1>1, <1>3 DEF Typed, Invalidate, LoseInvalidation, requests, history
<1>4. CASE RebuildCompute \/ RebuildFlush \/ RebuildFail
  <2>1. Hour(clock) \in Nat
    BY HoursPass DEF Typed
  <2>2. rebuild' \in [phase : {"idle", "computed", "flushed"}, sees : Nat,
                      end : Nat, doomed : SUBSET Row]
    <3>1. CASE RebuildFlush
      <4>1. rebuild' = [rebuild EXCEPT !.phase = "flushed", !.doomed = rows] /\ rows \in SUBSET Row
        BY <3>1 DEF RebuildFlush, Typed
      <4> QED BY <4>1 DEF Typed
    <3>2. CASE RebuildCompute \/ RebuildFail
      BY <2>1, <3>2 DEF Typed, RebuildCompute, RebuildFail, Idle
    <3> QED BY <1>4, <3>1, <3>2
  <2> QED BY <1>1, <1>4, <2>2
          DEF Typed, RebuildCompute, RebuildFlush, RebuildFail, requests, history
<1>5. CASE RebuildCommit
  <2>1. rebuild.sees \in Nat /\ 0 .. rebuild.end \subseteq Nat
    BY DEF Typed
  <2>2. rows' \subseteq Row
    BY <1>5, <2>1 DEF Typed, RebuildCommit, Row
  <2>3. rebuild' \in [phase : {"idle", "computed", "flushed"}, sees : Nat,
                      end : Nat, doomed : SUBSET Row]
    BY <1>5 DEF RebuildCommit, Idle
  <2> QED BY <1>1, <1>5, <2>2, <2>3 DEF Typed, RebuildCommit, Commits, requests, history
<1>6. CASE \E r \in Reads : Read(r)
  BY <1>6, ReadTyped
<1> QED BY <1>2, <1>3, <1>4, <1>5, <1>6 DEF Next

-----------------------------------------------------------------------------
(***************************************************************************)
(* What reads must show.                                                   *)
(***************************************************************************)
\* A read's steps leave every floor below what is cached and built: a floor
\* is raised only where nothing outdated is under way, a build that loads
\* sees every commit, and what is stored was built above every floor.
LEMMA ReadFresh ==
  ASSUME Typed, Fresh, NEW r \in Reads, Read(r)
  PROVE  Fresh'
<1>1. /\ clock' = clock /\ written' = written
      /\ \A q \in Reads \ {r} : reads'[q] = reads[q]
      /\ reads'[r].floor = reads[r].floor \/ reads'[r].floor = 0 \/ Arrive(r)
      /\ reads'[r].pc \in {"none", "arrived", "waiting", "building"} \/ Load(r) \/ Roll(r)
      /\ Load(r) => reads'[r].shows = written
      /\ Roll(r) => reads'[r].shows = reads[r].shows
  BY ReadSteps
<1>2. /\ written \in Nat /\ (cache # Nothing => cache.shows \in Nat)
      /\ \A q \in Reads : /\ reads[q].shows \in Nat /\ reads[q].floor \in Nat
                          /\ reads[q].floor <= written
  BY ReadFields DEF Typed
<1>3. CASE Arrive(r)
  <2>1. /\ cache' = cache /\ overlap' = overlap /\ Current' = Current
        /\ reads'[r].pc = "arrived"
        /\ reads'[r].floor = IF Outdated = {} /\ ~overlap THEN written ELSE 0
    <3> DEFINE w == IF Outdated = {} /\ ~overlap THEN written ELSE 0
    <3>1. reads' = [reads EXCEPT ![r].pc = "arrived", ![r].floor = w]
      BY <1>3 DEF Arrive
    <3> HIDE DEF w
    <3>2. reads'[r].pc = "arrived" /\ reads'[r].floor = w
      BY <3>1 DEF Typed, ReadRecord
    <3> QED BY <1>3, <3>2 DEF Arrive, Current, w
  <2>2. CASE Outdated = {} /\ ~overlap
    <3>1. Current => cache.shows >= written
      BY <2>2 DEF Fresh
    <3>2. \A q \in Reads : reads[q].pc \in {"valued", "rolled"} => reads[q].shows >= written
      BY <1>2, <2>2 DEF Outdated
    <3> QED BY <1>1, <1>2, <2>1, <2>2, <3>1, <3>2 DEF Fresh
  <2>3. CASE ~(Outdated = {} /\ ~overlap)
    <3>1. reads'[r].floor = 0
      BY <2>1, <2>3
    <3> QED BY <1>1, <1>2, <2>1, <3>1 DEF Fresh, Current
  <2> QED BY <2>2, <2>3
<1>4. CASE Store(r)
  <2>1. /\ cache' = [shows |-> reads[r].shows, at |-> clock]
        /\ overlap' = (overlap \/ r \in Outdated)
        /\ reads[r].pc = "rolled"
    BY <1>4 DEF Store, At
  <2>2. reads'[r] = NoRequest
    <3>1. reads' = [reads EXCEPT ![r] = NoRequest] /\ reads \in [Reads -> ReadRecord]
      BY <1>4 DEF Store, End, Typed
    <3> QED BY <3>1
  <2>3. reads'[r].floor = 0 /\ reads'[r].pc = "none"
    BY <2>2 DEF NoRequest
  <2>4. cache'.shows = reads[r].shows
    BY <2>1
  <2>5. ~overlap' => reads[r].shows >= written
    <3>1. r \notin Outdated => reads[r].shows >= written
      BY <1>2, <2>1 DEF Outdated
    <3>2. ~overlap' => r \notin Outdated
      BY <2>1
    <3> QED BY <3>1, <3>2
  <2>6. \A q \in Reads : reads[r].shows >= reads[q].floor
    BY <2>1 DEF Fresh
  <2> QED BY <1>1, <1>2, <2>3, <2>4, <2>5, <2>6 DEF Fresh
<1>5. CASE ~Arrive(r) /\ ~Store(r)
  <2>1. cache' \in {cache, Nothing} /\ overlap' = overlap
    BY <1>5 DEF Read, LookUp, Acquire, TimeOut, Load, Roll, RollConflict
  <2>2. Current' => Current /\ cache' = cache
    BY <1>1, <2>1 DEF Current
  <2>3. Roll(r) => reads[r].pc = "valued"
    BY DEF Roll, At
  <2>4. \A q \in Reads : reads'[q].floor = reads[q].floor \/ reads'[q].floor = 0
    BY <1>1, <1>5
  <2>5. \A q \in Reads :
          reads'[q].pc \in {"valued", "rolled"}
            => \/ reads'[q].shows = written
               \/ reads[q].pc \in {"valued", "rolled"} /\ reads'[q].shows = reads[q].shows
    BY <1>1, <2>3
  <2>6. \A q \in Reads : Current' => cache'.shows >= reads'[q].floor
    BY <1>2, <2>2, <2>4 DEF Fresh, Current
  <2>7. \A p, q \in Reads : reads'[q].pc \in {"valued", "rolled"}
                              => reads'[q].shows >= reads'[p].floor
    BY <1>2, <2>4, <2>5 DEF Fresh
  <2>8. ~overlap' /\ Current' => cache'.shows >= written'
    BY <1>1, <2>1, <2>2 DEF Fresh
  <2> QED BY <2>6, <2>7, <2>8 DEF Fresh
<1> QED BY <1>3, <1>4, <1>5

\* No commit, rebuild, tick or invalidation leaves an entry that shows less
\* than some read must: the first three do not touch what is current.
LEMMA FreshStep == Typed /\ Fresh /\ [Next]_vars => Fresh'
<1> SUFFICES ASSUME Typed, Fresh, [Next]_vars PROVE Fresh'
  OBVIOUS
<1>1. CASE \E r \in Reads : Read(r)
  BY <1>1, ReadFresh
<1>2. CASE Tick
  <2>1. clock' = clock + 1 /\ cache' = cache /\ reads' = reads
    BY <1>2 DEF Tick, requests
  <2>2. ~Current'
    BY <2>1 DEF Current, Typed
  <2> QED BY <2>1, <2>2 DEF Fresh
<1>3. CASE Write \/ RebuildCommit
  <2>1. overlap' = TRUE /\ clock' = clock /\ cache' = cache /\ reads' = reads
    BY <1>3 DEF Write, RebuildCommit, Commits, requests
  <2> QED BY <2>1 DEF Fresh, Current
<1>4. CASE \E c \in due : Invalidate(c)
  <2>1. clock' = clock /\ cache' = Nothing /\ reads' = reads
    BY <1>4 DEF Invalidate
  <2> QED BY <2>1 DEF Fresh, Current
<1>5. CASE \/ Expire \/ RebuildCompute \/ RebuildFlush \/ RebuildFail \/ UNCHANGED vars
           \/ \E c \in due : LoseInvalidation(c)
  <2>1. /\ clock' = clock /\ cache' \in {cache, Nothing} /\ reads' = reads
        /\ written' = written /\ overlap' = overlap
    BY <1>5 DEF Expire, RebuildCompute, RebuildFlush, RebuildFail, LoseInvalidation, requests, vars
  <2> QED BY <2>1 DEF Fresh, Current
<1> QED BY <1>1, <1>2, <1>3, <1>4, <1>5 DEF Next

-----------------------------------------------------------------------------
(***************************************************************************)
(* What an hour keeps.                                                     *)
(***************************************************************************)
\* A rebuild dooms rows that are there, and a roll waits for it when it would
\* replace one of them.
LEMMA DoomedStep == Typed /\ Doomed /\ [Next]_vars => Doomed'
<1> SUFFICES ASSUME Typed, Doomed, [Next]_vars PROVE Doomed'
  OBVIOUS
<1>1. CASE \E r \in Reads : Roll(r) /\ RollsOver(r)
  <2>1. /\ rebuild' = rebuild /\ rows' = (rows \ RowsOf(live.hour)) \cup {live}
        /\ RowsOf(live.hour) \cap rebuild.doomed = {}
    BY <1>1 DEF Roll, RowsFree, RollsOver
  <2> QED BY <2>1 DEF Doomed
<1>2. CASE RebuildFlush
  <2>1. rows' = rows /\ rebuild' = [rebuild EXCEPT !.phase = "flushed", !.doomed = rows]
    BY <1>2 DEF RebuildFlush
  <2>2. rebuild'.phase = "flushed" /\ rebuild'.doomed = rows
    BY <2>1 DEF Typed
  <2> QED BY <2>1, <2>2 DEF Doomed
<1>3. CASE RebuildCompute \/ RebuildCommit \/ RebuildFail
  <2>1. rebuild'.doomed = {}
    BY <1>3 DEF RebuildCompute, RebuildCommit, RebuildFail, Idle
  <2> QED BY <2>1 DEF Doomed
<1>4. CASE rebuild' = rebuild /\ rows' = rows
  BY <1>4 DEF Doomed
<1>5. ASSUME NEW r \in Reads, Read(r), ~(Roll(r) /\ RollsOver(r)) PROVE rows' = rows
  BY <1>5 DEF Read, Arrive, LookUp, Acquire, TimeOut, Load, Roll, RollConflict, Store, history
<1>6. ASSUME NEW r \in Reads, Read(r) PROVE rebuild' = rebuild
  BY <1>6, ReadSteps
<1> QED BY <1>1, <1>2, <1>3, <1>4, <1>5, <1>6
        DEF Next, Tick, Expire, Write, Invalidate, LoseInvalidation, history, vars

\* While no lock lapses, a build begins alone and with the latest hour, and
\* the roll leaves it no live state but one of its own hour.
LEMMA ReadBuilds ==
  ASSUME Typed, OneBuild, NEW r \in Reads, Read(r)
  PROVE  OneBuild'
<1>1. /\ \A q \in Reads \ {r} : reads'[q] = reads[q]
      /\ \/ reads'[r].pc \in {"none", "arrived", "waiting"} \/ Load(r) \/ Roll(r)
         \/ /\ reads'[r].pc = "building" /\ reads'[r].hour = Hour(clock)
            /\ Acquire(r) /\ lock = Nobody /\ lock' = r
      /\ Load(r) => reads'[r].hour = reads[r].hour
      /\ Roll(r) => reads'[r].hour = reads[r].hour
  BY ReadSteps
<1>2. CASE \E step : reads'[r].pc = step /\ step \in {"none", "arrived", "waiting"}
  <2>1. CASE lock' = lock /\ live' = live
    BY <1>1, <1>2, <2>1 DEF OneBuild, Building
  <2>2. CASE ~(lock' = lock /\ live' = live)
    <3>1. reads[r].pc \in Building
      <4>1. CASE Acquire(r)
        <5>1. reads \in [Reads -> ReadRecord]
          BY DEF Typed
        <5>2. BeginBuild(r)
          BY <2>2, <4>1 DEF Acquire, history
        <5>3. reads'[r].pc = "building"
          BY <5>1, <5>2 DEF BeginBuild, ReadRecord
        <5> QED BY <1>2, <5>3
      <4>2. CASE Arrive(r) \/ LookUp(r) \/ TimeOut(r)
        BY <2>2, <4>2 DEF Arrive, LookUp, TimeOut, history
      <4>3. CASE Load(r) \/ Roll(r) \/ RollConflict(r) \/ Store(r)
        BY <4>3 DEF Load, Roll, RollConflict, Store, At, Building
      <4> QED BY <4>1, <4>2, <4>3 DEF Read
    <3>2. lock = r /\ \A q \in Reads \ {r} : reads[q].pc \notin Building
      BY <3>1 DEF OneBuild
    <3> QED BY <1>1, <1>2, <3>2 DEF OneBuild, Building
  <2> QED BY <2>1, <2>2
<1>3. CASE /\ reads'[r].pc = "building" /\ reads'[r].hour = Hour(clock)
           /\ Acquire(r) /\ lock = Nobody /\ lock' = r
  <2>1. \A q \in Reads : reads[q].pc \notin Building
    BY <1>3, DashboardConstants DEF OneBuild
  <2>2. live' = live /\ (live # Nothing => live.hour <= Hour(clock))
    BY <1>3, LiveFields DEF Acquire, history
  <2> QED BY <1>1, <1>3, <2>1, <2>2 DEF OneBuild, Building
<1>4. CASE Load(r)
  <2>1. lock' = lock /\ live' = live /\ reads[r].pc \in Building
    BY <1>4 DEF Load, history, At, Building
  <2>2. reads'[r].pc = "valued"
    BY <1>4 DEF Load, Typed, ReadRecord
  <2> QED BY <1>1, <1>4, <2>1, <2>2 DEF OneBuild, Building
<1>5. CASE Roll(r)
  <2>1. lock' = lock /\ reads[r].pc \in Building
    BY <1>5 DEF Roll, At, Building
  <2>2. \A q \in Reads \ {r} : reads'[q].pc \notin Building
    BY <1>1, <2>1 DEF OneBuild
  <2>3. lock' = r
    BY <2>1 DEF OneBuild
  <2>4. CASE RollsOver(r)
    <3>1. live' = Nothing
      BY <1>5, <2>4 DEF Roll
    <3> QED BY <2>2, <2>3, <3>1 DEF OneBuild
  <2>5. CASE ~RollsOver(r)
    <3>1. live' = live
      BY <1>5, <2>5 DEF Roll
    <3>2. live # Nothing => live.hour = reads[r].hour
      BY <2>1, <2>5, LiveFields, ReadFields DEF RollsOver, OneBuild
    <3>3. live' # Nothing => live'.hour = reads'[r].hour /\ live'.hour <= reads'[r].hour
      BY <1>1, <1>5, <3>1, <3>2, ReadFields
    <3> QED BY <2>2, <2>3, <3>3 DEF OneBuild, Building
  <2> QED BY <2>4, <2>5
<1> QED BY <1>1, <1>2, <1>3, <1>4, <1>5

\* The roll moves an hour from the live state to its row, and a build stores
\* over nothing but the state of its own hour.
LEMMA ReadKeeps ==
  ASSUME Typed, OneBuild, Doomed, Kept, NEW r \in Reads, Read(r)
  PROVE  Kept'
<1>1. rebuild' = rebuild
  BY ReadSteps
<1>2. CASE Roll(r) /\ RollsOver(r)
  <2>1. /\ rows' = (rows \ RowsOf(live.hour)) \cup {live} /\ live' = Nothing /\ lastOf' = lastOf
        /\ RowsOf(live.hour) \cap rebuild.doomed = {} /\ live # Nothing
    BY <1>2 DEF Roll, RowsFree, RollsOver
  <2>2. live \in RowsOf(live.hour) \/ live \notin rows
    BY DEF RowsOf
  <2>3. live \notin rebuild.doomed
    BY <2>1, <2>2 DEF Doomed
  <2>4. SUFFICES ASSUME NEW h \in DOMAIN lastOf
                 PROVE  [hour |-> h, shows |-> lastOf[h]] \in rows' \ rebuild.doomed
    BY <1>1, <2>1 DEF Kept
  <2> DEFINE row == [hour |-> h, shows |-> lastOf[h]]
  <2>5. row.hour = h /\ row \in (rows \ rebuild.doomed) \cup ({live} \ {Nothing})
    BY DEF Kept
  <2>6. CASE live.hour = h
    <3>1. live = row
      BY <2>1, <2>6, LiveFields DEF Kept, Row
    <3> QED BY <2>1, <2>3, <3>1
  <2>7. CASE live.hour # h
    <3>1. row # live /\ row \notin RowsOf(live.hour)
      BY <2>5, <2>7 DEF RowsOf
    <3> HIDE DEF row
    <3>2. row \in rows' \ rebuild.doomed
      BY <2>1, <2>5, <3>1
    <3> QED BY <3>2 DEF row
  <2> QED BY <2>6, <2>7
<1>3. CASE Store(r)
  <2>1. /\ reads[r].pc = "rolled" /\ live' = Updated(r) /\ rows' = rows
        /\ lastOf' = IF live' = Nothing THEN lastOf
                     ELSE [h \in DOMAIN lastOf \cup {live'.hour} |->
                             IF h = live'.hour THEN live'.shows ELSE lastOf[h]]
    BY <1>3 DEF Store, At
  <2>2. live # Nothing => live.hour = reads[r].hour
    BY <2>1 DEF OneBuild
  <2> DEFINE new == [hour |-> reads[r].hour, shows |-> reads[r].shows]
  <2>3. new.hour = reads[r].hour /\ new.shows = reads[r].shows /\ new # Nothing
    BY DashboardConstants, ReadFields
  <2>4. CASE live' = Nothing
    <3>1. live = Nothing
      BY <2>1, <2>2, <2>3, <2>4 DEF Updated
    <3> QED BY <1>1, <2>1, <2>4, <3>1 DEF Kept
  <2>5. CASE live' # Nothing
    <3>1. live' = new
      BY <2>1, <2>5 DEF Updated
    <3> HIDE DEF new
    <3>2. SUFFICES ASSUME NEW h \in DOMAIN lastOf'
                   PROVE  /\ [hour |-> h, shows |-> lastOf'[h]] \in (rows' \ rebuild'.doomed) \cup ({live'} \ {Nothing})
                          /\ live'.hour = h => live'.shows = lastOf'[h]
      BY DEF Kept
    <3>3. CASE h = new.hour
      <4>1. lastOf'[h] = new.shows
        BY <2>1, <2>5, <3>1, <3>3
      <4>2. [hour |-> h, shows |-> lastOf'[h]] = new
        BY <2>3, <3>3, <4>1 DEF new
      <4> QED BY <2>5, <3>1, <4>1, <4>2
    <3>4. CASE h # new.hour
      <4>1. h \in DOMAIN lastOf /\ lastOf'[h] = lastOf[h]
        BY <2>1, <2>5, <3>1, <3>4
      <4> DEFINE row == [hour |-> h, shows |-> lastOf[h]]
      <4>2. row \in (rows \ rebuild.doomed) \cup ({live} \ {Nothing})
        BY <4>1 DEF Kept
      <4>3. row # live \/ live = Nothing
        BY <2>2, <2>3, <3>4
      <4> QED BY <1>1, <2>1, <3>1, <3>4, <4>1, <4>2, <4>3
    <3> QED BY <3>3, <3>4
  <2> QED BY <2>4, <2>5
<1>4. CASE ~(Roll(r) /\ RollsOver(r)) /\ ~Store(r)
  <2>1. rows' = rows /\ live' = live /\ lastOf' = lastOf
    BY <1>4 DEF Read, Arrive, LookUp, Acquire, TimeOut, Load, Roll, RollConflict, history
  <2> QED BY <1>1, <2>1 DEF Kept
<1> QED BY <1>2, <1>3, <1>4

\* While no build outlives its lock, every step keeps what the hours showed.
LEMMA KeptStep ==
  Typed /\ Doomed /\ OneBuild /\ Kept /\ [Next]_vars => expired' \/ (OneBuild /\ Kept)'
<1> SUFFICES ASSUME Typed, Doomed, OneBuild, Kept, [Next]_vars
             PROVE  expired' \/ (OneBuild /\ Kept)'
  OBVIOUS
<1>1. CASE \E r \in Reads : Read(r)
  BY <1>1, ReadBuilds, ReadKeeps
<1>2. CASE Expire
  BY <1>2 DEF Expire
<1>3. CASE RebuildFlush
  <2>1. lock' = lock /\ reads' = reads /\ live' \in {live, Nothing} /\ DOMAIN lastOf' = {}
    BY <1>3 DEF RebuildFlush, NoHours
  <2> QED BY <2>1 DEF OneBuild, Kept
<1>4. CASE RebuildCommit \/ RebuildFail \/ RebuildCompute
  <2>1. /\ lock' = lock /\ reads' = reads /\ live' = live /\ lastOf' = lastOf
        /\ rows \ rebuild.doomed \subseteq rows' /\ rebuild'.doomed = {}
    BY <1>4 DEF RebuildCommit, RebuildFail, RebuildCompute, requests, history, Idle
  <2> QED BY <2>1 DEF OneBuild, Kept
<1>5. CASE Tick \/ Write \/ UNCHANGED vars \/ \E c \in due : Invalidate(c) \/ LoseInvalidation(c)
  <2>1. /\ lock' = lock /\ reads' = reads /\ live' = live /\ lastOf' = lastOf
        /\ rows' = rows /\ rebuild' = rebuild
    BY <1>5 DEF Tick, Write, Invalidate, LoseInvalidation, requests, history, vars
  <2> QED BY <2>1 DEF OneBuild, Kept
<1> QED BY <1>1, <1>2, <1>3, <1>4, <1>5 DEF Next

-----------------------------------------------------------------------------
\* The start shows nothing and owes nothing.
LEMMA DashboardInit == Init => Sound
<1> SUFFICES ASSUME Init PROVE Sound
  OBVIOUS
<1>1. Hour(0) \in Nat
  BY HoursPass
<1>2. Typed
  <2>1. reads \in [Reads -> ReadRecord]
    BY <1>1 DEF Init, NoRequest, ReadRecord
  <2> QED BY <2>1 DEF Init, Typed, Idle
<1>3. Fresh /\ Doomed
  BY DEF Init, Fresh, Current, Doomed, Idle, NoRequest
<1>4. OneBuild /\ Kept
  BY DEF Init, OneBuild, Kept, NoHours, NoRequest, Building
<1> QED BY <1>2, <1>3, <1>4 DEF Sound

\* A lock that lapsed under a build is not forgotten.
LEMMA ExpiredStays == Typed /\ expired /\ [Next]_vars => expired'
BY ReadSteps DEF Next, Tick, Expire, Write, Invalidate, LoseInvalidation,
                 RebuildCompute, RebuildFlush, RebuildCommit, RebuildFail, vars

\* Every step of the system keeps the invariant.
LEMMA DashboardStep == Sound /\ [Next]_vars => Sound'
<1> SUFFICES ASSUME Sound, [Next]_vars PROVE Sound'
  OBVIOUS
<1>1. Typed' /\ Fresh' /\ Doomed'
  BY TypedStep, FreshStep, DoomedStep DEF Sound
<1>2. (expired \/ (OneBuild /\ Kept))'
  BY KeptStep, ExpiredStays DEF Sound
<1> QED BY <1>1, <1>2 DEF Sound

\* Every reachable state satisfies the invariant.
THEOREM DashboardSound == Spec => []Sound
<1> QED BY DashboardInit, DashboardStep, PTL DEF Spec

\* An hour that is over keeps what its last build showed, through every
\* interleaving of builds, invalidations and rebuilds in which no build
\* outlives its lock.
THEOREM HoursAreKept == Spec => []HoursKeepLast
<1>1. Sound => HoursKeepLast
  BY DEF Sound, Kept, HoursKeepLast
<1> QED BY <1>1, DashboardSound, PTL

\* No read is answered with less than was committed when it began, but in the
\* seconds that the property names; lapsed locks make no difference.
THEOREM ReadsStayFresh == Spec => ReadsAreFresh
<1> DEFINE Answers ==
      \A r \in Reads :
        /\ (LookUp(r) \/ Acquire(r)) /\ reads'[r] = NoRequest => cache.shows >= reads[r].floor
        /\ Store(r) => reads[r].shows >= reads[r].floor
<1>1. ASSUME Sound, Next PROVE Answers
  <2> SUFFICES ASSUME NEW r \in Reads
               PROVE  /\ (LookUp(r) \/ Acquire(r)) /\ reads'[r] = NoRequest
                           => cache.shows >= reads[r].floor
                      /\ Store(r) => reads[r].shows >= reads[r].floor
    OBVIOUS
  <2>1. Typed /\ Fresh
    BY <1>1 DEF Sound
  <2>2. ASSUME LookUp(r) \/ Acquire(r), reads'[r] = NoRequest
        PROVE  Current
    <3>1. reads'[r].pc = "none"
      BY <2>2 DEF NoRequest
    <3>2. ~GoTo(r, "waiting") /\ ~BeginBuild(r)
      <4>1. reads \in [Reads -> ReadRecord]
        BY <2>1 DEF Typed
      <4> QED BY <3>1, <4>1 DEF GoTo, BeginBuild, ReadRecord
    <3> QED BY <2>2, <3>2 DEF LookUp, Acquire
  <2>3. ASSUME Store(r) PROVE reads[r].pc = "rolled"
    BY <2>3 DEF Store, At
  <2> QED BY <2>1, <2>2, <2>3 DEF Fresh
<1>2. Sound /\ [Next]_vars => [Answers]_vars
  BY <1>1
<1> QED BY <1>2, DashboardSound, PTL DEF Spec, ReadsAreFresh
=============================================================================
