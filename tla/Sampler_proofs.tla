--------------------------- MODULE Sampler_proofs ----------------------------
(***************************************************************************)
(* The rows of an hour and the quotes of a sample, for every set of worker *)
(* processes and of keys, however often the market moves, locks lapse,     *)
(* processes crash and dashboards are refreshed.                           *)
(***************************************************************************)
EXTENDS Sampler, FiniteSetTheorems, TLAPS

PCs == {"idle", "locked", "clear", "fetch", "write", "note", "leave"}
Place == [pc : PCs, now : BOOLEAN, found : RowIds \cup {0}]
Fetch == [at : {"none", "asked", "answered", "quoted", "missing"},
          price : Prices, known : BOOLEAN]

(***************************************************************************)
(* The fetches: a price on its way is one, a price that the cache had when *)
(* a fetch began it still has, and a sample is written with all fetched.   *)
(***************************************************************************)
FetchKept(s, k) ==
  /\ fetch[s][k].known => fetch[s][k].at = "asked" /\ Entry(k)
  /\ fetch[s][k].at = "answered" => fetch[s][k].price # 0

FetchesKept == \A s \in Samplers, k \in Keys : FetchKept(s, k)

WrittenFetched == \A s \in Samplers : At(s, "write") => Fetched(s)

(***************************************************************************)
(* The lock: as long as no sample was overtaken, a loop that samples holds *)
(* it, and none samples beside a forced refresh.                           *)
(***************************************************************************)
Placed ==
  ~overtaken =>
    /\ \A w \in Loops : Sampling(w) => lock = w
    /\ Sampling(Api) => \A w \in Loops : sample[w].pc \notin {"fetch", "write"}

(***************************************************************************)
(* The rows: those that have found none are about to insert one.           *)
(***************************************************************************)
Finding == {s \in Samplers : At(s, "write") /\ sample[s].found = 0}

RowsCounted ==
  /\ Cardinality(rows) + Cardinality(Finding) <= Cardinality(Samplers)
  /\ ~overtaken => Cardinality(rows) <= 1 /\ (Finding # {} => rows = {})

-----------------------------------------------------------------------------
(***************************************************************************)
(* The market data.                                                        *)
(***************************************************************************)
\* The prices there are, and the fetches' fields
LEMMA MarketFields ==
  ASSUME MarketTypeOK
  PROVE  /\ \A k \in Keys : /\ market[k] \in Prices \ {0}
                            /\ cache[k].price \in Prices /\ cache[k].fresh \in BOOLEAN
                            /\ expiring[k] \in Prices
         /\ \A c \in Callers, k \in Keys :
              /\ fetch[c][k] \in Fetch
              /\ fetch[c][k].at \in {"none", "asked", "answered", "quoted", "missing"}
              /\ fetch[c][k].price \in Prices /\ fetch[c][k].known \in BOOLEAN
         /\ 0 \in Prices
<1>1. 0 \in Prices
  BY MarketConstants DEF Prices
<1>2. ASSUME NEW k \in Keys
      PROVE  /\ market[k] \in Prices \ {0}
             /\ cache[k].price \in Prices /\ cache[k].fresh \in BOOLEAN
             /\ expiring[k] \in Prices
  BY DEF MarketTypeOK
<1>3. ASSUME NEW c \in Callers, NEW k \in Keys
      PROVE  /\ fetch[c][k] \in Fetch
             /\ fetch[c][k].at \in {"none", "asked", "answered", "quoted", "missing"}
             /\ fetch[c][k].price \in Prices /\ fetch[c][k].known \in BOOLEAN
  <2>1. fetch[c][k] \in Fetch
    BY DEF MarketTypeOK, Fetch
  <2> QED BY <2>1 DEF Fetch
<1> QED BY <1>1, <1>2, <1>3

\* One fetch goes on, the others are where they were.
LEMMA FetchGoes ==
  ASSUME MarketTypeOK, NEW c \in Callers, NEW k \in Keys, NEW f \in Fetch, Goes(c, k, f)
  PROVE  /\ fetch' \in [Callers -> [Keys -> Fetch]]
         /\ fetch'[c][k] = f
         /\ \A d \in Callers, l \in Keys : <<d, l>> # <<c, k>> => fetch'[d][l] = fetch[d][l]
<1>1. fetch \in [Callers -> [Keys -> Fetch]]
  BY DEF MarketTypeOK, Fetch
<1> QED BY <1>1 DEF Goes

\* A fetch: its types, and prices that are never lost
LEMMA FetchTyped ==
  ASSUME MarketTypeOK, FetchesKept, Callers = Samplers,
         NEW c \in Samplers, NEW k \in Keys, FetchStep(c, k)
  PROVE  /\ MarketTypeOK' /\ FetchesKept'
         /\ \A d \in Samplers \ {c}, l \in Keys : fetch'[d][l] = fetch[d][l]
<1> DEFINE Rest == UNCHANGED <<market, clearing, expiring>>
<1>c. c \in Callers
  OBVIOUS
<1>f. /\ fetch[c][k] \in Fetch /\ fetch[c][k].price \in Prices /\ fetch[c][k].known \in BOOLEAN
      /\ market[k] \in Prices \ {0} /\ cache[k].price \in Prices /\ 0 \in Prices
  BY <1>c, MarketFields
<1>1. ASSUME NEW f \in Fetch, Goes(c, k, f), Rest, cache' \in [Keys -> [price : Prices, fresh : BOOLEAN]],
             \A l \in Keys : Entry(l) => Entry(l)',
             f.known => f.at = "asked" /\ Entry(k)', f.at = "answered" => f.price # 0
      PROVE  /\ MarketTypeOK' /\ FetchesKept'
             /\ \A d \in Samplers \ {c}, l \in Keys : fetch'[d][l] = fetch[d][l]
  <2>1. /\ fetch' \in [Callers -> [Keys -> Fetch]]
        /\ fetch'[c][k] = f
        /\ \A d \in Callers, l \in Keys : <<d, l>> # <<c, k>> => fetch'[d][l] = fetch[d][l]
    BY <1>1, <1>c, FetchGoes
  <2>2. MarketTypeOK'
    BY <1>1, <2>1 DEF MarketTypeOK, Fetch
  <2>3. ASSUME NEW d \in Samplers, NEW l \in Keys PROVE FetchKept(d, l)'
    <3>1. CASE d = c /\ l = k
      BY <1>1, <2>1, <3>1 DEF FetchKept
    <3>2. CASE ~(d = c /\ l = k)
      <4>1. fetch'[d][l] = fetch[d][l] /\ FetchKept(d, l)
        BY <2>1, <3>2 DEF FetchesKept
      <4> QED BY <1>1, <4>1 DEF FetchKept
    <3> QED BY <3>1, <3>2
  <2> QED BY <2>1, <2>2, <2>3 DEF FetchesKept
<1>q. Quoted \in Fetch /\ ~Quoted.known /\ Quoted.at = "quoted"
  BY <1>f DEF Quoted, NoFetch, Fetch
<1>2. CASE StartFetch(c, k)
  <2>1. PICK e \in BOOLEAN : e <=> Entry(k)
    OBVIOUS
  <2> DEFINE asked == [at |-> "asked", price |-> 0, known |-> e]
  <2>2. asked \in Fetch /\ asked.at = "asked" /\ (asked.known => Entry(k))
    BY <1>f, <2>1 DEF Fetch
  <2>3. e = Entry(k)
    BY <2>1 DEF Entry
  <2>4. Goes(c, k, Quoted) \/ Goes(c, k, asked)
    BY <1>2, <2>3 DEF StartFetch
  <2>5. cache' = cache /\ Rest /\ cache \in [Keys -> [price : Prices, fresh : BOOLEAN]]
    BY <1>2 DEF StartFetch, MarketTypeOK
  <2>6. \A l \in Keys : Entry(l)' = Entry(l)
    BY <2>5 DEF Entry
  <2> HIDE DEF asked
  <2> QED BY <1>1, <1>q, <2>2, <2>4, <2>5, <2>6
<1>3. CASE Answer(c, k)
  <2> DEFINE f == [at |-> "answered", price |-> market[k], known |-> FALSE]
  <2>1. f \in Fetch /\ f.at = "answered" /\ f.price # 0 /\ ~f.known
    BY <1>f DEF Fetch
  <2>2. Goes(c, k, f) /\ cache' = cache /\ Rest /\ cache \in [Keys -> [price : Prices, fresh : BOOLEAN]]
    BY <1>3 DEF Answer, MarketTypeOK
  <2>3. \A l \in Keys : Entry(l)' = Entry(l)
    BY <2>2 DEF Entry
  <2> HIDE DEF f
  <2> QED BY <1>1, <2>1, <2>2, <2>3
<1>4. CASE StoreAnswer(c, k)
  <2>1. PICK p : p = fetch[c][k].price
    OBVIOUS
  <2>2. p \in Prices \ {0}
    BY <1>4, <1>f, <2>1 DEF StoreAnswer, FetchesKept, FetchKept
  <2>3. /\ cache' = [cache EXCEPT ![k] = [price |-> p, fresh |-> TRUE]] /\ Rest /\ Goes(c, k, Quoted)
        /\ cache \in [Keys -> [price : Prices, fresh : BOOLEAN]]
    BY <1>4, <2>1 DEF StoreAnswer, Set, MarketTypeOK
  <2>4. /\ cache' \in [Keys -> [price : Prices, fresh : BOOLEAN]]
        /\ \A l \in Keys : Entry(l) => Entry(l)'
    BY <2>2, <2>3 DEF Entry
  <2> QED BY <1>1, <1>q, <2>3, <2>4
<1>5. CASE FallBack(c, k)
  <2>1. PICK e \in BOOLEAN : e = fetch[c][k].known
    BY <1>f
  <2> DEFINE f == [at |-> "missing", price |-> 0, known |-> e]
  <2>2. e => Entry(k)
    BY <2>1 DEF FetchesKept, FetchKept
  <2>3. Goes(c, k, Quoted) \/ (Goes(c, k, f) /\ ~Entry(k))
    BY <1>5, <2>1 DEF FallBack, Missing
  <2>4. ~Entry(k) => f \in Fetch /\ f.at = "missing" /\ ~f.known
    BY <1>f, <2>2 DEF Fetch
  <2>5. cache' = cache /\ Rest /\ cache \in [Keys -> [price : Prices, fresh : BOOLEAN]]
    BY <1>5 DEF FallBack, MarketTypeOK
  <2>6. \A l \in Keys : Entry(l)' = Entry(l)
    BY <2>5 DEF Entry
  <2> HIDE DEF f
  <2> QED BY <1>1, <1>q, <2>3, <2>4, <2>5, <2>6
<1> QED BY <1>2, <1>3, <1>4, <1>5 DEF FetchStep

\* What moves the market and the cache loses no price either.
LEMMA CacheTyped ==
  ASSUME MarketTypeOK, FetchesKept, Callers = Samplers, NEW k \in Keys,
         Moves(k) \/ Stales(k) \/ ReadExpiring(k) \/ WriteExpired(k)
  PROVE  MarketTypeOK' /\ FetchesKept' /\ fetch' = fetch
<1>1. ASSUME fetch' = fetch, market' \in [Keys -> Prices \ {0}],
             cache' \in [Keys -> [price : Prices, fresh : BOOLEAN]],
             clearing' \subseteq Keys, expiring' \in [Keys -> Prices],
             \A l \in Keys : Entry(l) => Entry(l)'
      PROVE  MarketTypeOK' /\ FetchesKept' /\ fetch' = fetch
  <2>1. MarketTypeOK'
    BY <1>1 DEF MarketTypeOK
  <2>2. FetchesKept'
    BY <1>1 DEF FetchesKept, FetchKept
  <2> QED BY <1>1, <2>1, <2>2
<1> DEFINE Caches == [Keys -> [price : Prices, fresh : BOOLEAN]]
<1>2. /\ market \in [Keys -> Prices \ {0}] /\ cache \in Caches
      /\ clearing \subseteq Keys /\ expiring \in [Keys -> Prices]
  BY DEF MarketTypeOK
<1>3. /\ market[k] \in Prices \ {0} /\ cache[k].price \in Prices /\ expiring[k] \in Prices
      /\ 0 \in Prices
  BY MarketFields
<1>4. CASE Moves(k)
  <2>1. market[k] + 1 \in Prices \ {0}
    BY <1>3, <1>4, MarketConstants DEF Moves, Prices
  <2>2. market' \in [Keys -> Prices \ {0}]
    BY <1>2, <1>4, <2>1 DEF Moves
  <2> QED BY <1>1, <1>2, <1>4, <2>2 DEF Moves, Entry
<1>5. CASE Stales(k)
  <2>1. /\ cache' = [cache EXCEPT ![k].fresh = FALSE]
        /\ market' = market /\ fetch' = fetch /\ clearing' = clearing /\ expiring' = expiring
    BY <1>5 DEF Stales
  <2>2. cache' \in Caches /\ \A l \in Keys : cache'[l].price = cache[l].price
    BY <1>2, <2>1
  <2> QED BY <1>1, <1>2, <2>1, <2>2 DEF Entry
<1>6. CASE ReadExpiring(k)
  <2>1. /\ expiring' = [expiring EXCEPT ![k] = cache[k].price] /\ clearing' \subseteq clearing
        /\ market' = market /\ fetch' = fetch /\ cache' = cache
    BY <1>6 DEF ReadExpiring
  <2>2. expiring' \in [Keys -> Prices]
    BY <1>2, <1>3, <2>1
  <2> QED BY <1>1, <1>2, <2>1, <2>2 DEF Entry
<1>7. CASE WriteExpired(k)
  <2>1. PICK p : p = expiring[k]
    OBVIOUS
  <2>2. /\ cache' = [cache EXCEPT ![k] = [price |-> p, fresh |-> FALSE]] /\ p \in Prices \ {0}
        /\ expiring' = [expiring EXCEPT ![k] = 0] /\ clearing' \subseteq clearing
        /\ market' = market /\ fetch' = fetch
    BY <1>3, <1>7, <2>1 DEF WriteExpired
  <2>3. /\ cache' \in Caches /\ expiring' \in [Keys -> Prices]
        /\ \A l \in Keys : Entry(l) => Entry(l)'
    BY <1>2, <1>3, <2>2 DEF Entry
  <2> QED BY <1>1, <1>2, <2>2, <2>3
<1> QED BY <1>4, <1>5, <1>6, <1>7

\* A sampler that begins or ends a sample forgets what it fetched.
LEMMA AnewTyped ==
  ASSUME MarketTypeOK, FetchesKept, Callers = Samplers, NEW s \in Samplers, FetchAnew(s),
         market' = market, cache' = cache, clearing' \subseteq Keys, expiring' \in [Keys -> Prices]
  PROVE  /\ MarketTypeOK' /\ FetchesKept'
         /\ \A d \in Samplers \ {s}, l \in Keys : fetch'[d][l] = fetch[d][l]
<1>1. fetch' = [fetch EXCEPT ![s] = [k \in Keys |-> NoFetch]]
  BY DEF FetchAnew
<1>2. fetch \in [Callers -> [Keys -> Fetch]]
  BY DEF MarketTypeOK, Fetch
<1>3. NoFetch \in Fetch /\ ~NoFetch.known /\ NoFetch.at # "answered"
  BY MarketFields DEF NoFetch, Fetch
<1>4. /\ fetch' \in [Callers -> [Keys -> Fetch]]
      /\ \A l \in Keys : fetch'[s][l] = NoFetch
      /\ \A d \in Samplers \ {s}, l \in Keys : fetch'[d][l] = fetch[d][l]
  BY <1>1, <1>2, <1>3
<1>5. MarketTypeOK'
  BY <1>4 DEF MarketTypeOK, Fetch
<1>6. ASSUME NEW d \in Samplers, NEW l \in Keys PROVE FetchKept(d, l)'
  <2>1. CASE d = s
    BY <1>3, <1>4, <2>1 DEF FetchKept
  <2>2. CASE d # s
    BY <1>4, <2>2 DEF FetchKept, FetchesKept, Entry
  <2> QED BY <2>1, <2>2
<1> QED BY <1>4, <1>5, <1>6 DEF FetchesKept

-----------------------------------------------------------------------------
(***************************************************************************)
(* The samples.                                                            *)
(***************************************************************************)
Typed ==
  /\ MarketTypeOK
  /\ lock \in Loops \cup {Nobody} /\ sampledNow \in BOOLEAN /\ overtaken \in BOOLEAN
  /\ sample \in [Samplers -> Place] /\ rows \subseteq RowIds

Sound == Typed /\ FetchesKept /\ WrittenFetched /\ Placed /\ RowsCounted

\* The fields of a sampler's place
LEMMA PlaceFields ==
  ASSUME Typed, NEW s \in Samplers
  PROVE  /\ sample[s] \in Place /\ sample[s].pc \in PCs /\ sample[s].now \in BOOLEAN
         /\ sample[s].found \in RowIds \cup {0}
<1>1. sample[s] \in Place
  BY DEF Typed
<1> QED BY <1>1 DEF Place

\* The ids are numbers, and processes, rows and finders finitely many.
LEMMA FiniteParts ==
  ASSUME Typed
  PROVE  /\ IsFiniteSet(Samplers) /\ Cardinality(Samplers) \in Nat
         /\ IsFiniteSet(RowIds) /\ Cardinality(RowIds) = 2 * Cardinality(Samplers)
         /\ 0 \notin RowIds
         /\ IsFiniteSet(rows) /\ Cardinality(rows) \in Nat
         /\ IsFiniteSet(Finding) /\ Cardinality(Finding) \in Nat
<1>1. IsFiniteSet(Samplers) /\ Cardinality(Samplers) \in Nat
  BY SamplerConstants, FS_AddElement, FS_CardinalityType DEF Samplers
<1> DEFINE n == Cardinality(Samplers)
<1>2. n \in Nat /\ RowIds = 1 .. 2 * n
  BY <1>1 DEF RowIds
<1> HIDE DEF n
<1>3. IsFiniteSet(RowIds) /\ Cardinality(RowIds) = 2 * n /\ 0 \notin RowIds
  BY <1>2, FS_Interval
<1>4. rows \subseteq RowIds /\ Finding \subseteq Samplers
  BY DEF Typed, Finding
<1> QED BY <1>1, <1>3, <1>4, FS_Subset, FS_CardinalityType DEF n

\* One sampler goes to place p.
LEMMA SampleGoes ==
  ASSUME Typed, NEW s \in Samplers, NEW p \in Place, sample' = [sample EXCEPT ![s] = p]
  PROVE  /\ sample' \in [Samplers -> Place] /\ sample'[s] = p
         /\ \A d \in Samplers \ {s} : sample'[d] = sample[d]
BY DEF Typed

\* A sampler's pc moves, the rest of its place stays.
LEMMA PcGoes ==
  ASSUME Typed, NEW s \in Samplers, NEW pc \in PCs, GoTo(s, pc)
  PROVE  \E p \in Place : /\ sample' = [sample EXCEPT ![s] = p]
                          /\ p.pc = pc /\ p.found = sample[s].found
<1> DEFINE p == [sample[s] EXCEPT !.pc = pc]
<1>1. p \in Place /\ p.pc = pc /\ p.found = sample[s].found
  BY PlaceFields DEF Place
<1>2. sample' = [sample EXCEPT ![s] = p]
  BY DEF GoTo, Typed
<1> HIDE DEF p
<1> QED BY <1>1, <1>2

\* Idle places, and those in which a sample begins
LEMMA AsleepPlace ==
  ASSUME Typed
  PROVE  /\ Asleep \in Place /\ Asleep.pc = "idle" /\ Asleep.found = 0
         /\ [Asleep EXCEPT !.pc = "leave"] \in Place /\ [Asleep EXCEPT !.pc = "leave"].pc = "leave"
BY DEF Asleep, Place, PCs

-----------------------------------------------------------------------------
(***************************************************************************)
(* What the parts of the invariant need of a step.                         *)
(***************************************************************************)
\* Who has written or still writes has fetched.
LEMMA WrittenStay ==
  ASSUME WrittenFetched,
         \A d \in Samplers : sample'[d].pc = "write" =>
           \/ Fetched(d)'
           \/ At(d, "write") /\ \A l \in Keys : fetch'[d][l] = fetch[d][l]
  PROVE  WrittenFetched'
<1> SUFFICES ASSUME NEW d \in Samplers, sample'[d].pc = "write" PROVE Fetched(d)'
  BY DEF WrittenFetched, At
<1>1. CASE At(d, "write") /\ \A l \in Keys : fetch'[d][l] = fetch[d][l]
  BY <1>1 DEF WrittenFetched, Fetched
<1> QED BY <1>1

\* Nobody begins to sample, and no loop to fetch.
LEMMA PlacedStay ==
  ASSUME Placed, overtaken => overtaken', lock' = lock,
         \A d \in Samplers : Sampling(d)' => Sampling(d),
         \A w \in Loops : sample'[w].pc \in {"fetch", "write"} => sample[w].pc \in {"fetch", "write"}
  PROVE  Placed'
<1>1. Loops \subseteq Samplers /\ Api \in Samplers
  BY DEF Samplers
<1> QED BY <1>1 DEF Placed

\* There are no more rows, and nobody else has found none.
LEMMA RowsStay ==
  ASSUME Typed, RowsCounted, rows' \subseteq rows, Finding' \subseteq Finding, overtaken => overtaken'
  PROVE  RowsCounted'
<1>1. /\ Cardinality(rows') <= Cardinality(rows) /\ Cardinality(rows') \in Nat
      /\ Cardinality(Finding') <= Cardinality(Finding) /\ Cardinality(Finding') \in Nat
  BY FiniteParts, FS_Subset, FS_CardinalityType
<1>2. /\ Cardinality(rows) \in Nat /\ Cardinality(Finding) \in Nat /\ Cardinality(Samplers) \in Nat
      /\ Cardinality(rows) + Cardinality(Finding) <= Cardinality(Samplers)
  BY FiniteParts DEF RowsCounted
<1>3. Cardinality(rows') + Cardinality(Finding') <= Cardinality(Samplers)
  BY <1>1, <1>2
<1>4. ASSUME ~overtaken' PROVE Cardinality(rows') <= 1 /\ (Finding' # {} => rows' = {})
  <2>1. Cardinality(rows) <= 1 /\ (Finding # {} => rows = {})
    BY <1>4 DEF RowsCounted
  <2>2. Cardinality(rows') <= 1
    BY <1>1, <1>2, <2>1
  <2> QED BY <2>1, <2>2
<1> QED BY <1>3, <1>4 DEF RowsCounted

\* A sampler looks for the row of the hour and finds none: there is none.
LEMMA RowsFound ==
  ASSUME Typed, RowsCounted, rows = {}, rows' = rows, Finding' \subseteq Samplers
  PROVE  RowsCounted'
<1>1. Cardinality(Finding') <= Cardinality(Samplers) /\ Cardinality(Finding') \in Nat
  BY FiniteParts, FS_Subset, FS_CardinalityType
<1>2. Cardinality(rows') = 0
  BY FS_EmptySet
<1>3. Cardinality(rows') + Cardinality(Finding') <= Cardinality(Samplers)
  BY <1>1, <1>2, FiniteParts
<1> QED BY <1>2, <1>3 DEF RowsCounted

\* Who has found none, after sampler s goes to p
LEMMA FindingGoes ==
  ASSUME Typed, NEW s \in Samplers, NEW p \in Place, sample' = [sample EXCEPT ![s] = p]
  PROVE  Finding' = IF p.pc = "write" /\ p.found = 0 THEN Finding \cup {s} ELSE Finding \ {s}
<1>1. sample'[s] = p /\ \A d \in Samplers \ {s} : sample'[d] = sample[d]
  BY SampleGoes
<1> DEFINE finds(q) == q.pc = "write" /\ q.found = 0
<1>2. Finding' = {d \in Samplers : finds(sample'[d])} /\ Finding = {d \in Samplers : finds(sample[d])}
  BY DEF Finding, At
<1> HIDE DEF finds
<1>3. Finding' = IF finds(p) THEN Finding \cup {s} ELSE Finding \ {s}
  BY <1>1, <1>2
<1> QED BY <1>3 DEF finds

\* The step of one sampler that writes no row and does not begin to write
LEMMA SoundGoes ==
  ASSUME Sound, NEW s \in Samplers, NEW p \in Place, sample' = [sample EXCEPT ![s] = p],
         p.pc # "write", rows' = rows, MarketTypeOK', FetchesKept', Placed',
         \A d \in Samplers \ {s}, l \in Keys : fetch'[d][l] = fetch[d][l],
         lock' \in Loops \cup {Nobody}, sampledNow' \in BOOLEAN, overtaken' \in BOOLEAN,
         overtaken => overtaken'
  PROVE  Sound'
<1>1. /\ sample' \in [Samplers -> Place] /\ sample'[s] = p
      /\ \A d \in Samplers \ {s} : sample'[d] = sample[d]
  BY SampleGoes DEF Sound
<1>2. Finding' \subseteq Finding
  BY FindingGoes DEF Sound
<1>3. Typed'
  BY <1>1 DEF Sound, Typed
<1>4. WrittenFetched'
  BY <1>1, WrittenStay DEF Sound, At
<1>5. RowsCounted'
  BY <1>2, RowsStay DEF Sound
<1> QED BY <1>3, <1>4, <1>5 DEF Sound

-----------------------------------------------------------------------------
(***************************************************************************)
(* The steps.                                                              *)
(***************************************************************************)
\* Names of the processes
LEMMA Processes ==
  /\ Loops \subseteq Samplers /\ Api \in Samplers /\ Api \notin Loops /\ Nobody \notin Samplers
  /\ Callers = Samplers /\ \A s \in Samplers : s \in Loops \/ s = Api
BY SamplerConstants DEF Samplers

\* Market data that stays is typed and keeps its prices.
LEMMA MarketStays ==
  ASSUME MarketTypeOK, FetchesKept, UNCHANGED marketVars
  PROVE  MarketTypeOK' /\ FetchesKept' /\ fetch' = fetch
BY DEF marketVars, MarketTypeOK, FetchesKept, FetchKept, Entry

\* A loop takes the free lock: nobody else holds it, so no loop samples.
LEMMA AcquireSound == ASSUME Sound, NEW w \in Loops, Acquire(w) PROVE Sound'
<1>1. /\ lock = Nobody /\ lock' = w /\ GoTo(w, "locked") /\ UNCHANGED marketVars
      /\ sampledNow' = sampledNow /\ rows' = rows /\ overtaken' = overtaken
  BY DEF Acquire
<1>2. w \in Samplers /\ "locked" \in PCs
  BY Processes DEF PCs
<1>3. PICK p \in Place : sample' = [sample EXCEPT ![w] = p] /\ p.pc = "locked"
  BY <1>1, <1>2, PcGoes DEF Sound
<1>4. sample'[w] = p /\ \A d \in Samplers \ {w} : sample'[d] = sample[d]
  BY <1>2, <1>3, SampleGoes DEF Sound
<1>5. Placed'
  <2>1. SUFFICES ASSUME ~overtaken'
                 PROVE  /\ \A v \in Loops : Sampling(v)' => lock' = v
                        /\ Sampling(Api)' => \A v \in Loops : sample'[v].pc \notin {"fetch", "write"}
    BY DEF Placed
  <2>2. /\ \A v \in Loops : ~Sampling(v)
        /\ Sampling(Api) => \A v \in Loops : sample[v].pc \notin {"fetch", "write"}
    BY <1>1, <2>1, Processes DEF Sound, Placed
  <2> QED BY <1>1, <1>3, <1>4, <2>2, Processes DEF Sampling
<1>6. /\ lock' \in Loops \cup {Nobody} /\ sampledNow' \in BOOLEAN /\ overtaken' \in BOOLEAN
      /\ MarketTypeOK' /\ FetchesKept' /\ fetch' = fetch
  BY <1>1, MarketStays DEF Sound, Typed
<1> QED BY <1>1, <1>2, <1>3, <1>5, <1>6, SoundGoes

\* It leaves, or begins: beside a request that samples it overtakes it.
LEMMA EnterSound == ASSUME Sound, NEW w \in Loops, Enter(w) PROVE Sound'
<1>1. /\ At(w, "locked") /\ UNCHANGED <<market, cache, clearing, expiring>> /\ lock' = lock
      /\ sampledNow' = sampledNow /\ rows' = rows
  BY DEF Enter
<1>2. w \in Samplers /\ "leave" \in PCs
  BY Processes DEF PCs
<1>3. /\ lock' \in Loops \cup {Nobody} /\ sampledNow' \in BOOLEAN
      /\ MarketTypeOK /\ clearing' \subseteq Keys /\ expiring' \in [Keys -> Prices]
  BY <1>1 DEF Sound, Typed, MarketTypeOK
<1>4. CASE sampledNow
  <2>1. GoTo(w, "leave") /\ fetch' = fetch /\ overtaken' = overtaken /\ UNCHANGED marketVars
    BY <1>1, <1>4 DEF Enter, marketVars
  <2>2. PICK p \in Place : sample' = [sample EXCEPT ![w] = p] /\ p.pc = "leave"
    BY <1>2, <2>1, PcGoes DEF Sound
  <2>3. sample'[w] = p /\ \A d \in Samplers \ {w} : sample'[d] = sample[d]
    BY <1>2, <2>2, SampleGoes DEF Sound
  <2>4. Placed'
    BY <1>1, <2>1, <2>2, <2>3, PlacedStay, Processes DEF Sound, Sampling
  <2>5. MarketTypeOK' /\ FetchesKept' /\ overtaken' \in BOOLEAN
    BY <2>1, MarketStays DEF Sound, Typed
  <2> QED BY <1>1, <1>2, <1>3, <2>1, <2>2, <2>4, <2>5, SoundGoes
<1>5. CASE ~sampledNow
  <2> DEFINE p == [pc |-> "fetch", now |-> w \in Loops, found |-> 0]
  <2>1. sample' = [sample EXCEPT ![w] = p] /\ FetchAnew(w) /\ overtaken' = (overtaken \/ Sampling(Api))
    BY <1>5 DEF Enter, BeginSample
  <2>2. p \in Place /\ p.pc = "fetch"
    BY DEF Place, PCs
  <2> HIDE DEF p
  <2>3. sample'[w] = p /\ \A d \in Samplers \ {w} : sample'[d] = sample[d]
    BY <1>2, <2>1, <2>2, SampleGoes DEF Sound
  <2>4. overtaken' \in BOOLEAN /\ (overtaken => overtaken') /\ (~overtaken' => ~overtaken /\ ~Sampling(Api))
    BY <2>1 DEF Sound, Typed
  <2>5. Placed'
    <3>1. SUFFICES ASSUME ~overtaken'
                   PROVE  /\ \A v \in Loops : Sampling(v)' => lock' = v
                          /\ ~Sampling(Api)'
      BY DEF Placed
    <3>2. ~Sampling(Api) /\ \A v \in Loops : Sampling(v) => lock = v
      BY <2>4, <3>1 DEF Sound, Placed
    <3>3. Sampling(w)
      BY <1>1 DEF At, Sampling
    <3> QED BY <1>1, <2>3, <3>2, <3>3, Processes DEF Sampling
  <2>6. /\ MarketTypeOK' /\ FetchesKept'
        /\ \A d \in Samplers \ {w}, l \in Keys : fetch'[d][l] = fetch[d][l]
    BY <1>1, <1>2, <1>3, <2>1, AnewTyped, Processes DEF Sound
  <2> QED BY <1>1, <1>2, <1>3, <2>1, <2>2, <2>4, <2>5, <2>6, SoundGoes
<1> QED BY <1>4, <1>5

\* The lock lapses: of a loop that samples it is overtaken from now on.
LEMMA LapseSound == ASSUME Sound, Lapse PROVE Sound'
<1>1. /\ lock # Nobody /\ lock' = Nobody /\ UNCHANGED marketVars /\ sample' = sample
      /\ sampledNow' = sampledNow /\ rows' = rows /\ overtaken' = (overtaken \/ Sampling(lock))
  BY DEF Lapse
<1>2. overtaken' \in BOOLEAN /\ (overtaken => overtaken') /\ (~overtaken' => ~overtaken /\ ~Sampling(lock))
  BY <1>1 DEF Sound, Typed, Sampling
<1>3. Placed'
  <2>1. SUFFICES ASSUME ~overtaken'
                 PROVE  /\ \A v \in Loops : ~Sampling(v)'
                        /\ Sampling(Api)' => \A v \in Loops : sample'[v].pc \notin {"fetch", "write"}
    BY DEF Placed
  <2>2. /\ ~Sampling(lock) /\ \A v \in Loops : Sampling(v) => lock = v
        /\ Sampling(Api) => \A v \in Loops : sample[v].pc \notin {"fetch", "write"}
    BY <1>2, <2>1 DEF Sound, Placed
  <2> QED BY <1>1, <2>2 DEF Sampling
<1>4. MarketTypeOK' /\ FetchesKept' /\ fetch' = fetch
  BY <1>1, MarketStays DEF Sound, Typed
<1>5. Typed' /\ WrittenFetched'
  BY <1>1, <1>2, <1>4 DEF Sound, Typed, WrittenFetched, Fetched, At
<1>6. RowsCounted'
  BY <1>1, <1>2, RowsStay DEF Sound, Finding, At
<1> QED BY <1>3, <1>4, <1>5, <1>6 DEF Sound

\* A forced refresh overtakes the loop that samples.
LEMMA RefreshSound == ASSUME Sound, Refresh PROVE Sound'
<1>1. /\ GoTo(Api, "clear") /\ clearing' = Keys /\ UNCHANGED <<market, cache, fetch, expiring>>
      /\ lock' = lock /\ sampledNow' = sampledNow /\ rows' = rows
      /\ overtaken' = (overtaken \/ \E w \in Loops : Sampling(w))
  BY DEF Refresh
<1>2. PICK p \in Place : sample' = [sample EXCEPT ![Api] = p] /\ p.pc = "clear"
  <2>1. Api \in Samplers /\ "clear" \in PCs
    BY Processes DEF PCs
  <2> QED BY <1>1, <2>1, PcGoes DEF Sound
<1>3. sample'[Api] = p /\ \A d \in Samplers \ {Api} : sample'[d] = sample[d]
  BY <1>2, SampleGoes, Processes DEF Sound
<1>4. /\ overtaken' \in BOOLEAN /\ (overtaken => overtaken')
      /\ ~overtaken' => \A w \in Loops : ~Sampling(w)
  BY <1>1 DEF Sound, Typed
<1>5. Placed'
  <2>1. SUFFICES ASSUME ~overtaken' PROVE \A w \in Loops : ~Sampling(w)'
    BY DEF Placed, Sampling
  <2> QED BY <1>3, <1>4, <2>1, Processes DEF Sampling
<1>6. /\ MarketTypeOK' /\ FetchesKept' /\ lock' \in Loops \cup {Nobody} /\ sampledNow' \in BOOLEAN
  BY <1>1 DEF Sound, Typed, MarketTypeOK, FetchesKept, FetchKept, Entry
<1> QED BY <1>1, <1>2, <1>4, <1>5, <1>6, SoundGoes, Processes

\* A loop gives its lock back, unless it has passed to another.
LEMMA LeaveSound == ASSUME Sound, NEW w \in Loops, Leave(w) PROVE Sound'
<1>1. /\ At(w, "leave") /\ lock' = (IF lock = w THEN Nobody ELSE lock) /\ Sleep(w)
      /\ UNCHANGED marketVars /\ sampledNow' = sampledNow /\ rows' = rows /\ overtaken' = overtaken
  BY DEF Leave
<1>2. sample' = [sample EXCEPT ![w] = Asleep] /\ Asleep \in Place /\ Asleep.pc = "idle"
  BY <1>1, AsleepPlace DEF Sleep, Sound
<1>3. sample'[w] = Asleep /\ \A d \in Samplers \ {w} : sample'[d] = sample[d]
  BY <1>2, SampleGoes, Processes DEF Sound
<1>4. Placed'
  <2>1. SUFFICES ASSUME ~overtaken'
                 PROVE  /\ \A v \in Loops : Sampling(v)' => lock' = v
                        /\ Sampling(Api)' => \A v \in Loops : sample'[v].pc \notin {"fetch", "write"}
    BY DEF Placed
  <2>2. /\ \A v \in Loops : Sampling(v) => lock = v
        /\ Sampling(Api) => \A v \in Loops : sample[v].pc \notin {"fetch", "write"}
    BY <1>1, <2>1 DEF Sound, Placed
  <2> QED BY <1>1, <1>2, <1>3, <2>2, Processes DEF Sampling
<1>5. /\ lock' \in Loops \cup {Nobody} /\ sampledNow' \in BOOLEAN /\ overtaken' \in BOOLEAN
      /\ MarketTypeOK' /\ FetchesKept' /\ fetch' = fetch
  BY <1>1, MarketStays DEF Sound, Typed
<1> QED BY <1>1, <1>2, <1>4, <1>5, SoundGoes, Processes

\* The step of one sampler that goes nowhere new: not to a lock, a refresh or
\* a row, nor of a loop to its fetches
LEMMA QuietSound ==
  ASSUME Sound, NEW s \in Samplers, NEW p \in Place, sample' = [sample EXCEPT ![s] = p],
         p.pc \in {"idle", "note", "leave"} \/ (s = Api /\ Sampling(Api) /\ p.pc = "fetch"),
         rows' = rows, lock' = lock, overtaken' = overtaken, sampledNow' \in BOOLEAN,
         MarketTypeOK', FetchesKept',
         \A d \in Samplers \ {s}, l \in Keys : fetch'[d][l] = fetch[d][l]
  PROVE  Sound'
<1>1. sample'[s] = p /\ \A d \in Samplers \ {s} : sample'[d] = sample[d]
  BY SampleGoes DEF Sound
<1>2. Placed'
  <2>1. \A d \in Samplers : Sampling(d)' => Sampling(d)
    BY <1>1 DEF Sampling
  <2>2. \A w \in Loops : sample'[w].pc \in {"fetch", "write"} => sample[w].pc \in {"fetch", "write"}
    BY <1>1, Processes
  <2> QED BY <2>1, <2>2, PlacedStay DEF Sound
<1>3. lock' \in Loops \cup {Nobody} /\ overtaken' \in BOOLEAN /\ p.pc # "write"
  BY DEF Sound, Typed
<1> QED BY <1>2, <1>3, SoundGoes

\* A step of the market data alone, of a sampler that is not writing
LEMMA MarketSound ==
  ASSUME Sound, UNCHANGED <<lock, sampledNow, sample, rows, overtaken>>,
         MarketTypeOK', FetchesKept',
         \A d \in Samplers : At(d, "write") => \A l \in Keys : fetch'[d][l] = fetch[d][l]
  PROVE  Sound'
<1>1. Typed' /\ Placed'
  BY DEF Sound, Typed, Placed, Sampling
<1>2. WrittenFetched'
  BY WrittenStay DEF Sound, At
<1>3. RowsCounted'
  BY DEF Sound, RowsCounted, Finding, At
<1> QED BY <1>1, <1>2, <1>3 DEF Sound

\* Fetches, expiries of the caches and moves of the market
LEMMA DataSound ==
  ASSUME Sound, \/ \E s \in Samplers, k \in Keys : Prefetch(s, k)
                \/ \E k \in Keys : Clear(k)
                \/ World
  PROVE  Sound'
<1>1. ASSUME NEW s \in Samplers, NEW k \in Keys, Prefetch(s, k) PROVE Sound'
  <2>1. /\ MarketTypeOK' /\ FetchesKept'
        /\ \A d \in Samplers \ {s}, l \in Keys : fetch'[d][l] = fetch[d][l]
    BY <1>1, FetchTyped, Processes DEF Prefetch, Sound, Typed
  <2>2. ~At(s, "write") /\ UNCHANGED <<lock, sampledNow, sample, rows, overtaken>>
    BY <1>1 DEF Prefetch, At
  <2> QED BY <2>1, <2>2, MarketSound
<1>2. ASSUME UNCHANGED <<lock, sampledNow, sample, rows, overtaken>>,
             NEW k \in Keys, Moves(k) \/ Stales(k) \/ ReadExpiring(k) \/ WriteExpired(k)
      PROVE  Sound'
  <2>1. MarketTypeOK' /\ FetchesKept' /\ fetch' = fetch
    BY <1>2, CacheTyped, Processes DEF Sound, Typed
  <2> QED BY <1>2, <2>1, MarketSound
<1> QED BY <1>1, <1>2 DEF Clear, World

\* The caches are cleared, and the request goes on to its sample.
LEMMA ClearedSound == ASSUME Sound, EnterCleared PROVE Sound'
<1> DEFINE p == [pc |-> "fetch", now |-> Api \in Loops, found |-> 0]
<1>1. /\ At(Api, "clear") /\ sample' = [sample EXCEPT ![Api] = p] /\ FetchAnew(Api)
      /\ UNCHANGED <<market, cache, clearing, expiring>> /\ lock' = lock
      /\ sampledNow' = sampledNow /\ rows' = rows /\ overtaken' = overtaken
  BY DEF EnterCleared, BeginSample
<1>2. p \in Place /\ p.pc = "fetch"
  BY DEF Place, PCs
<1> HIDE DEF p
<1>3. /\ MarketTypeOK /\ clearing' \subseteq Keys /\ expiring' \in [Keys -> Prices]
      /\ sampledNow' \in BOOLEAN /\ Sampling(Api)
  BY <1>1 DEF Sound, Typed, MarketTypeOK, At, Sampling
<1>4. /\ MarketTypeOK' /\ FetchesKept'
      /\ \A d \in Samplers \ {Api}, l \in Keys : fetch'[d][l] = fetch[d][l]
  BY <1>1, <1>3, AnewTyped, Processes DEF Sound
<1> QED BY <1>1, <1>2, <1>3, <1>4, QuietSound, Processes

\* A sampler finds the row of the hour, or that there is none.
LEMMA FindSound == ASSUME Sound, NEW s \in Samplers, FindRow(s) PROVE Sound'
<1>1. PICK d \in IF rows = {} THEN {0} ELSE rows :
        sample' = [sample EXCEPT ![s].pc = "write", ![s].found = d]
  BY DEF FindRow
<1> DEFINE p == [sample[s] EXCEPT !.pc = "write", !.found = d]
<1>2. /\ At(s, "fetch") /\ Fetched(s) /\ UNCHANGED marketVars /\ lock' = lock
      /\ sampledNow' = sampledNow /\ rows' = rows /\ overtaken' = overtaken
  BY DEF FindRow
<1>3. d \in RowIds \cup {0} /\ (d = 0 => rows = {})
  BY FiniteParts DEF Sound, Typed
<1>4. p \in Place /\ p.pc = "write" /\ p.found = d
  BY <1>3, PlaceFields DEF Sound, Place, PCs
<1>5. sample' = [sample EXCEPT ![s] = p]
  BY <1>1 DEF Sound, Typed
<1> HIDE DEF p
<1>6. /\ sample' \in [Samplers -> Place] /\ sample'[s] = p
      /\ \A t \in Samplers \ {s} : sample'[t] = sample[t]
  BY <1>4, <1>5, SampleGoes DEF Sound
<1>7. MarketTypeOK' /\ FetchesKept' /\ fetch' = fetch
  BY <1>2, MarketStays DEF Sound, Typed
<1>8. Typed'
  BY <1>2, <1>6, <1>7 DEF Sound, Typed
<1>9. WrittenFetched'
  <2>1. Fetched(s)'
    BY <1>2, <1>7 DEF Fetched
  <2> QED BY <1>6, <1>7, <2>1, WrittenStay DEF Sound, At
<1>10. Placed'
  <2>1. sample[s].pc = "fetch"
    BY <1>2 DEF At
  <2>2. /\ \A t \in Samplers : Sampling(t)' => Sampling(t)
        /\ \A w \in Loops : sample'[w].pc \in {"fetch", "write"} => sample[w].pc \in {"fetch", "write"}
    BY <1>6, <2>1, Processes DEF Sampling
  <2> QED BY <1>2, <2>2, PlacedStay DEF Sound
<1>11. RowsCounted'
  <2>1. CASE d = 0
    <3>1. Finding' \subseteq Samplers /\ rows = {}
      BY <1>3, <2>1 DEF Finding
    <3> QED BY <1>2, <3>1, RowsFound DEF Sound
  <2>2. CASE d # 0
    <3>1. Finding' \subseteq Finding
      BY <1>4, <1>5, <2>2, FindingGoes DEF Sound
    <3> QED BY <1>2, <3>1, RowsStay DEF Sound
  <2> QED BY <2>1, <2>2
<1> QED BY <1>7, <1>8, <1>9, <1>10, <1>11 DEF Sound

\* Where a sampler is that has written or failed
LEMMA ProceedGoes ==
  ASSUME Typed, FetchesKept, NEW s \in Samplers, NEW pc \in {"note", "leave"}, Proceed(s, pc),
         market' = market, cache' = cache, clearing' \subseteq Keys, expiring' \in [Keys -> Prices]
  PROVE  /\ \E p \in Place : /\ sample' = [sample EXCEPT ![s] = p]
                             /\ p.pc \in {"idle", "note", "leave"}
         /\ MarketTypeOK' /\ FetchesKept'
         /\ \A d \in Samplers \ {s}, l \in Keys : fetch'[d][l] = fetch[d][l]
<1>1. PICK n : n = (sample[s].now /\ pc = "note")
  OBVIOUS
<1>2. n \in BOOLEAN
  BY <1>1, PlaceFields
<1> DEFINE p == IF s \in Loops THEN [pc |-> pc, found |-> 0, now |-> n] ELSE Asleep
<1>3. sample' = [sample EXCEPT ![s] = p] /\ FetchAnew(s)
  BY <1>1 DEF Proceed
<1>4. p \in Place /\ p.pc \in {"idle", "note", "leave"}
  BY <1>2, AsleepPlace DEF Place, PCs
<1>5. /\ MarketTypeOK' /\ FetchesKept'
      /\ \A d \in Samplers \ {s}, l \in Keys : fetch'[d][l] = fetch[d][l]
  BY <1>3, AnewTyped, Processes DEF Typed
<1> HIDE DEF p
<1> QED BY <1>3, <1>4, <1>5

\* There is an id that neither a row has nor a sampler has found.
LEMMA NewRowExists ==
  ASSUME Typed, RowsCounted, Finding # {}
  PROVE  NewRow \in RowIds
<1> DEFINE found == {sample[s].found : s \in Samplers}
           n == Cardinality(Samplers)
<1>1. IsFiniteSet(found) /\ Cardinality(found) <= n /\ Cardinality(found) \in Nat
  <2>1. IsFiniteSet(Samplers)
    BY FiniteParts
  <2> DEFINE f == [s \in Samplers |-> sample[s].found]
  <2>2. f \in Surjection(Samplers, found)
    BY DEF Surjection
  <2> HIDE DEF f, found
  <2>3. IsFiniteSet(found) /\ Cardinality(found) <= n
    BY <2>1, <2>2, FS_Surjection
  <2> QED BY <2>3, FS_CardinalityType
<1>2. Cardinality(rows) < n
  <2>1. Cardinality(Finding) # 0
    BY FiniteParts, FS_EmptySet
  <2> QED BY <2>1, FiniteParts DEF RowsCounted
<1>3. /\ n \in Nat /\ IsFiniteSet(RowIds) /\ Cardinality(RowIds) = 2 * n
      /\ IsFiniteSet(rows) /\ Cardinality(rows) \in Nat
  BY FiniteParts
<1> HIDE DEF found, n
<1>4. IsFiniteSet(rows \cup found) /\ Cardinality(rows \cup found) < 2 * n
  <2>1. /\ IsFiniteSet(rows \cup found)
        /\ Cardinality(rows \cup found) = Cardinality(rows) + Cardinality(found) - Cardinality(rows \cap found)
    BY <1>1, <1>3, FS_Union
  <2>2. Cardinality(rows \cap found) \in Nat
    BY <1>3, FS_Intersection, FS_CardinalityType
  <2>3. Cardinality(rows \cup found) < 2 * n
    BY <1>1, <1>2, <1>3, <2>1, <2>2
  <2> QED BY <2>1, <2>3
<1>5. \E d \in RowIds : d \notin rows \cup found
  <2>1. SUFFICES ASSUME RowIds \subseteq rows \cup found PROVE FALSE
    OBVIOUS
  <2>2. Cardinality(RowIds) <= Cardinality(rows \cup found)
    BY <1>4, <2>1, FS_Subset
  <2>3. Cardinality(rows \cup found) \in Nat
    BY <1>4, FS_CardinalityType
  <2> QED BY <1>3, <1>4, <2>2, <2>3
<1> QED BY <1>5 DEF NewRow, found

\* The row that a sampler inserts takes its place among those that found none,
\* and unless one was overtaken no other has found none.
LEMMA RowsInserted ==
  ASSUME Typed, Placed, RowsCounted, NEW s \in Finding,
         rows' = rows \cup {NewRow}, Finding' = Finding \ {s}, overtaken' = overtaken
  PROVE  RowsCounted'
<1>1. /\ Cardinality(rows) \in Nat /\ Cardinality(Finding) \in Nat /\ Cardinality(Samplers) \in Nat
      /\ IsFiniteSet(rows) /\ IsFiniteSet(Finding)
  BY FiniteParts
<1>2. PICK d : d = NewRow
  OBVIOUS
<1>3. Cardinality(rows') \in {Cardinality(rows), Cardinality(rows) + 1}
  <2>1. rows' = rows \cup {d}
    BY <1>2
  <2> QED BY <1>1, <2>1, FS_AddElement
<1>4. Cardinality(Finding') = Cardinality(Finding) - 1
  <2> DEFINE F == Finding
  <2>1. s \in F /\ IsFiniteSet(F) /\ Finding' = F \ {s}
    BY <1>1
  <2> HIDE DEF F
  <2>2. Cardinality(F \ {s}) = Cardinality(F) - 1
    BY <2>1, FS_RemoveElement
  <2>3. Cardinality(Finding') = Cardinality(F) - 1
    BY <2>1, <2>2
  <2> QED BY <2>3 DEF F
<1>5. Cardinality(rows') + Cardinality(Finding') <= Cardinality(Samplers)
  <2>1. Cardinality(rows) + Cardinality(Finding) <= Cardinality(Samplers)
    BY DEF RowsCounted
  <2> QED BY <1>1, <1>3, <1>4, <2>1
<1>6. ASSUME ~overtaken PROVE Cardinality(rows') <= 1 /\ Finding' = {}
  <2>1. rows = {}
    BY <1>6 DEF RowsCounted
  <2>2. Cardinality(rows') <= 1
    BY <1>3, <2>1, FS_EmptySet
  <2>3. ASSUME NEW t \in Finding PROVE t = s
    <3>1. /\ s \in Samplers /\ t \in Samplers /\ sample[s].pc = "write" /\ sample[t].pc = "write"
          /\ Sampling(s) /\ Sampling(t)
      BY DEF Finding, At, Sampling
    <3>2. /\ \A w \in Loops : Sampling(w) => lock = w
          /\ Sampling(Api) => \A w \in Loops : sample[w].pc \notin {"fetch", "write"}
      BY <1>6 DEF Placed
    <3> QED BY <3>1, <3>2, Processes
  <2> QED BY <2>2, <2>3
<1> QED BY <1>5, <1>6 DEF RowsCounted

\* The commit of a sample
LEMMA CommitSound == ASSUME Sound, NEW s \in Samplers, CommitSample(s) PROVE Sound'
<1>1. /\ At(s, "write") /\ UNCHANGED <<market, cache, clearing, expiring>> /\ lock' = lock
      /\ sampledNow' = sampledNow /\ overtaken' = overtaken
      /\ \E pc \in {"note", "leave"} : Proceed(s, pc)
  BY DEF CommitSample
<1>2. rows' \subseteq rows \/ (rows' = rows \cup {NewRow} /\ sample[s].found = 0)
  BY DEF CommitSample
<1>3. /\ Typed /\ FetchesKept /\ MarketTypeOK /\ clearing' \subseteq Keys /\ expiring' \in [Keys -> Prices]
  BY <1>1 DEF Sound, Typed, MarketTypeOK
<1>4. PICK pc \in {"note", "leave"} : Proceed(s, pc)
  BY <1>1
<1>5. /\ \E p \in Place : /\ sample' = [sample EXCEPT ![s] = p]
                          /\ p.pc \in {"idle", "note", "leave"}
      /\ MarketTypeOK' /\ FetchesKept'
      /\ \A d \in Samplers \ {s}, l \in Keys : fetch'[d][l] = fetch[d][l]
  BY <1>1, <1>3, <1>4, ProceedGoes
<1>6. PICK p \in Place : /\ sample' = [sample EXCEPT ![s] = p]
                        /\ p.pc \in {"idle", "note", "leave"}
  BY <1>5
<1>7. /\ sample' \in [Samplers -> Place] /\ sample'[s] = p
      /\ \A t \in Samplers \ {s} : sample'[t] = sample[t]
  BY <1>3, <1>6, SampleGoes
<1>8. Finding' = Finding \ {s}
  BY <1>3, <1>6, FindingGoes
<1>9. RowsCounted' /\ rows' \subseteq RowIds
  <2>1. CASE rows' \subseteq rows
    BY <1>1, <1>3, <1>8, <2>1, RowsStay DEF Sound, Typed
  <2>2. CASE rows' = rows \cup {NewRow} /\ sample[s].found = 0
    <3>1. s \in Finding
      BY <1>1, <2>2 DEF Finding
    <3>2. NewRow \in RowIds
      BY <1>3, <3>1, NewRowExists DEF Sound
    <3>3. RowsCounted'
      BY <1>1, <1>3, <1>8, <2>2, <3>1, RowsInserted DEF Sound
    <3>4. rows' \subseteq RowIds
      BY <1>3, <2>2, <3>2 DEF Typed
    <3> QED BY <3>3, <3>4
  <2> QED BY <1>2, <2>1, <2>2
<1>10. Typed'
  BY <1>1, <1>3, <1>5, <1>7, <1>9 DEF Typed
<1>11. WrittenFetched'
  BY <1>5, <1>6, <1>7, WrittenStay DEF Sound, At
<1>12. Placed'
  <2>1. \A d \in Samplers : Sampling(d)' => Sampling(d)
    BY <1>6, <1>7 DEF Sampling
  <2>2. \A w \in Loops : sample'[w].pc \in {"fetch", "write"} => sample[w].pc \in {"fetch", "write"}
    BY <1>6, <1>7, Processes
  <2> QED BY <1>1, <2>1, <2>2, PlacedStay DEF Sound
<1> QED BY <1>5, <1>9, <1>10, <1>11, <1>12 DEF Sound

\* A loop notes the second, a sample fails, a process crashes.
LEMMA EndSound ==
  ASSUME Sound, NEW s \in Samplers, (s \in Loops /\ NoteSecond(s)) \/ FailSample(s) \/ Crash(s)
  PROVE  Sound'
<1>t. /\ Typed /\ FetchesKept /\ MarketTypeOK /\ sampledNow \in BOOLEAN
      /\ market \in [Keys -> Prices \ {0}] /\ clearing \subseteq Keys /\ expiring \in [Keys -> Prices]
  BY DEF Sound, Typed, MarketTypeOK
<1>1. CASE s \in Loops /\ NoteSecond(s)
  <2>1. /\ sample' = [sample EXCEPT ![s] = [Asleep EXCEPT !.pc = "leave"]] /\ UNCHANGED marketVars
        /\ rows' = rows /\ lock' = lock /\ overtaken' = overtaken /\ sampledNow' = sample[s].now
    BY <1>1 DEF NoteSecond
  <2>2. /\ [Asleep EXCEPT !.pc = "leave"] \in Place /\ [Asleep EXCEPT !.pc = "leave"].pc = "leave"
        /\ sampledNow' \in BOOLEAN
    BY <1>t, <2>1, AsleepPlace, PlaceFields
  <2>3. MarketTypeOK' /\ FetchesKept' /\ fetch' = fetch
    BY <1>t, <2>1, MarketStays
  <2> QED BY <2>1, <2>2, <2>3, QuietSound
<1>2. CASE FailSample(s)
  <2>1. /\ Proceed(s, "leave") /\ UNCHANGED <<market, cache, clearing, expiring>>
        /\ rows' = rows /\ lock' = lock /\ overtaken' = overtaken /\ sampledNow' = sampledNow
    BY <1>2 DEF FailSample
  <2>2. /\ \E p \in Place : /\ sample' = [sample EXCEPT ![s] = p]
                            /\ p.pc \in {"idle", "note", "leave"}
        /\ MarketTypeOK' /\ FetchesKept'
        /\ \A d \in Samplers \ {s}, l \in Keys : fetch'[d][l] = fetch[d][l]
    BY <1>t, <2>1, ProceedGoes
  <2> QED BY <1>t, <2>1, <2>2, QuietSound
<1>3. CASE Crash(s)
  <2>1. /\ sample' = [sample EXCEPT ![s] = Asleep] /\ FetchAnew(s) /\ market' = market /\ cache' = cache
        /\ rows' = rows /\ lock' = lock /\ overtaken' = overtaken /\ sampledNow' = sampledNow
    BY <1>3 DEF Crash, Sleep
  <2>2. clearing' \subseteq Keys /\ expiring' \in [Keys -> Prices]
    <3>1. 0 \in Prices
      BY <1>t, MarketFields
    <3> QED BY <1>3, <1>t, <3>1 DEF Crash
  <2>3. /\ MarketTypeOK' /\ FetchesKept'
        /\ \A d \in Samplers \ {s}, l \in Keys : fetch'[d][l] = fetch[d][l]
    BY <1>t, <2>1, <2>2, AnewTyped, Processes
  <2>4. Asleep \in Place /\ Asleep.pc = "idle"
    BY <1>t, AsleepPlace
  <2> QED BY <1>t, <2>1, <2>3, <2>4, QuietSound
<1> QED BY <1>1, <1>2, <1>3

\* Time passes.
LEMMA TickSound == ASSUME Sound, Tick PROVE Sound'
<1>1. /\ sample' = [s \in Samplers |-> [sample[s] EXCEPT !.now = FALSE]] /\ sampledNow' = FALSE
      /\ UNCHANGED marketVars /\ lock' = lock /\ rows' = rows /\ overtaken' = overtaken
  BY DEF Tick
<1>2. ASSUME NEW s \in Samplers
      PROVE  sample'[s] \in Place /\ sample'[s].pc = sample[s].pc /\ sample'[s].found = sample[s].found
  BY <1>1, PlaceFields DEF Sound, Place
<1>3. sample' \in [Samplers -> Place]
  BY <1>1, <1>2
<1>4. MarketTypeOK' /\ FetchesKept' /\ fetch' = fetch
  BY <1>1, MarketStays DEF Sound, Typed
<1>5. Typed'
  BY <1>1, <1>3, <1>4 DEF Sound, Typed
<1>6. WrittenFetched'
  BY <1>2, <1>4, WrittenStay DEF Sound, At
<1>7. Placed'
  BY <1>1, <1>2, PlacedStay, Processes DEF Sound, Sampling
<1>8. Finding' = Finding
  BY <1>2 DEF Finding, At
<1>9. RowsCounted'
  BY <1>1, <1>8, RowsStay DEF Sound
<1> QED BY <1>4, <1>5, <1>6, <1>7, <1>9 DEF Sound

\* Every step keeps the invariant.
LEMMA SoundStep == Sound /\ [Next]_vars => Sound'
<1> SUFFICES ASSUME Sound, [Next]_vars PROVE Sound'
  OBVIOUS
<1>1. ASSUME NEW s \in Samplers, Continue(s) PROVE Sound'
  BY <1>1, DataSound, FindSound, CommitSound, EnterSound, EndSound, LeaveSound, ClearedSound DEF Continue
<1>2. CASE UNCHANGED vars
  <2>1. MarketTypeOK' /\ FetchesKept' /\ fetch' = fetch
    BY <1>2, MarketStays DEF vars, Sound, Typed
  <2> QED BY <1>2, <2>1, MarketSound DEF vars
<1> QED BY <1>1, <1>2, TickSound, LapseSound, RefreshSound, DataSound, AcquireSound, EndSound DEF Next

\* Samplers that sleep over an empty cache are sound.
LEMMA InitSound == Init => Sound
<1> SUFFICES ASSUME Init PROVE Sound
  OBVIOUS
<1>1. 0 \in Prices /\ 1 \in Prices \ {0}
  BY MarketConstants DEF Prices
<1>2. MarketTypeOK
  BY <1>1 DEF Init, MarketInit, MarketTypeOK, NoEntry, NoFetch
<1>3. Asleep \in Place /\ Asleep.pc = "idle" /\ Asleep.found = 0
  BY DEF Asleep, Place, PCs
<1>4. Typed
  BY <1>2, <1>3 DEF Init, Typed
<1>5. FetchesKept
  BY Processes DEF Init, MarketInit, FetchesKept, FetchKept, NoFetch
<1>6. \A s \in Samplers : sample[s].pc = "idle"
  BY <1>3 DEF Init
<1>7. WrittenFetched /\ Placed /\ Finding = {}
  BY <1>6, Processes DEF WrittenFetched, Placed, Finding, At, Sampling
<1>8. RowsCounted
  <2>1. rows = {} /\ Cardinality({}) = 0
    BY FS_EmptySet DEF Init
  <2> QED BY <1>4, <1>7, <2>1, FiniteParts DEF RowsCounted
<1> QED BY <1>4, <1>5, <1>7, <1>8 DEF Sound

-----------------------------------------------------------------------------
(***************************************************************************)
(* The theorems.                                                           *)
(***************************************************************************)
\* Types, fetches, locks and rows hold throughout, whatever lapses or crashes:
\* the inductive invariant of the samplers.
THEOREM SamplersSound == Spec => []Sound
BY InitSound, SoundStep, PTL DEF Spec

\* The type invariant of the sampler; that an id for a new row is always left
\* is part of it.
THEOREM SamplersTypeCorrect == Spec => []TypeOK
<1>1. Sound => TypeOK
  BY DEF Sound, Typed, TypeOK, Place, PCs
<1> QED BY <1>1, SamplersSound, PTL

\* _upsert_hourly_snapshots: an hour has one row unless a sample was overtaken,
\* and never more than there are processes that sample.
THEOREM HoursHaveOneRow == Spec => []HourRowsBounded
<1>1. Sound => HourRowsBounded
  <2> SUFFICES ASSUME Sound PROVE HourRowsBounded
    OBVIOUS
  <2>1. /\ Cardinality(rows) \in Nat /\ Cardinality(Finding) \in Nat /\ Cardinality(Samplers) \in Nat
        /\ Cardinality(rows) + Cardinality(Finding) <= Cardinality(Samplers)
    BY FiniteParts DEF Sound, RowsCounted
  <2>2. Cardinality(rows) <= Cardinality(Samplers)
    BY <2>1
  <2> QED BY <2>2 DEF Sound, RowsCounted, HourRowsBounded
<1> QED BY <1>1, SamplersSound, PTL

\* fetch_quote: a holding whose quote the cache had when a sample began is part
\* of that sample, through failing providers and caches that expire under it.
THEOREM KnownQuotesStay == Spec => []KnownQuotesSampled
<1>1. Sound => KnownQuotesSampled
  BY DEF Sound, WrittenFetched, Fetched, FetchesKept, FetchKept, KnownQuotesSampled
<1> QED BY <1>1, SamplersSound, PTL
=============================================================================
