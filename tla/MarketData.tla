----------------------------- MODULE MarketData -----------------------------
(***************************************************************************)
(* Quotes and exchange rates: the Redis cache whose entries outlive their  *)
(* freshness, and the client that asks the providers when an entry is no   *)
(* longer fresh (services/cache.py, market_data_parts/client.py).          *)
(*                                                                         *)
(* A price is the number of times the market has moved; 0 is no price.     *)
(* The chain of providers with its retries answers or fails as a whole.    *)
(* Redis drops an entry six hours after it was last written; the model is  *)
(* shorter than that.                                                      *)
(***************************************************************************)
EXTENDS Integers, FiniteSets

CONSTANTS
  Keys,          \* symbols, and pairs of currencies
  Callers,       \* coroutines that fetch
  MaxMoves       \* bound on the moves of the market

ASSUME MarketConstants == MaxMoves \in Nat \ {0}

VARIABLES
  market,      \* key -> price that a provider would answer now
  cache,       \* key -> entry of RedisBackedTTLCache: [price, fresh]
  fetch,       \* caller -> key -> how far its fetch is: [at, price, known]
  clearing,    \* keys that expire_all has still to do
  expiring     \* key -> price that it has read and not yet written

marketVars == <<market, cache, fetch, clearing, expiring>>

NoEntry == [price |-> 0, fresh |-> FALSE]
\* known tells whether the cache had the price when the fetch began.
NoFetch == [at |-> "none", price |-> 0, known |-> FALSE]

Entry(k) == cache[k].price # 0
Prices == 0 .. MaxMoves

MarketTypeOK ==
  /\ market \in [Keys -> Prices \ {0}]
  /\ cache \in [Keys -> [price : Prices, fresh : BOOLEAN]]
  /\ fetch \in [Callers -> [Keys -> [at : {"none", "asked", "answered", "quoted", "missing"},
                                     price : Prices, known : BOOLEAN]]]
  /\ clearing \subseteq Keys /\ expiring \in [Keys -> Prices]

MarketInit ==
  /\ market = [k \in Keys |-> 1]
  /\ cache = [k \in Keys |-> NoEntry]
  /\ fetch = [c \in Callers |-> [k \in Keys |-> NoFetch]]
  /\ clearing = {} /\ expiring = [k \in Keys |-> 0]

Moves(k) ==
  /\ market[k] < MaxMoves
  /\ market' = [market EXCEPT ![k] = @ + 1]
  /\ UNCHANGED <<cache, fetch, clearing, expiring>>

-----------------------------------------------------------------------------
\* set: ttl_seconds of freshness, stale_ttl_seconds in Redis
Set(k, price) == cache' = [cache EXCEPT ![k] = [price |-> price, fresh |-> TRUE]]

\* expires_at passes.
Stales(k) ==
  /\ cache[k].fresh
  /\ cache' = [cache EXCEPT ![k].fresh = FALSE]
  /\ UNCHANGED <<market, fetch, clearing, expiring>>

\* Mutant: an entry answers as long as Redis has it.
NeverStale(k) == Entry(k)

\* get
Fresh(k) == cache[k].fresh

\* expire_all, called by clear_runtime_caches, reads an entry ...
ReadExpiring(k) ==
  /\ k \in clearing /\ expiring[k] = 0
  /\ expiring' = [expiring EXCEPT ![k] = cache[k].price]
  /\ clearing' = IF Entry(k) THEN clearing ELSE clearing \ {k}
  /\ UNCHANGED <<market, cache, fetch>>

\* Mutant: the cache is cleared instead.
WriteNothing(k) ==
  /\ expiring[k] # 0
  /\ cache' = [cache EXCEPT ![k] = NoEntry]
  /\ expiring' = [expiring EXCEPT ![k] = 0] /\ clearing' = clearing \ {k}
  /\ UNCHANGED <<market, fetch>>

\* ... and writes it back as expired, over whatever was set in between.
WriteExpired(k) ==
  /\ expiring[k] # 0
  /\ cache' = [cache EXCEPT ![k] = [price |-> expiring[k], fresh |-> FALSE]]
  /\ expiring' = [expiring EXCEPT ![k] = 0] /\ clearing' = clearing \ {k}
  /\ UNCHANGED <<market, fetch>>

-----------------------------------------------------------------------------
(***************************************************************************)
(* fetch_quote and fetch_fx_rate of a caller that does not prefer stale    *)
(* data.                                                                   *)
(***************************************************************************)
Goes(c, k, f) == fetch' = [fetch EXCEPT ![c][k] = f]

\* fetch_quote returns a price, or raises QuoteLookupError.
Quoted == [NoFetch EXCEPT !.at = "quoted"]
Missing(known) == [at |-> "missing", price |-> 0, known |-> known]

StartFetch(c, k) ==
  /\ fetch[c][k].at = "none"
  /\ Goes(c, k, IF Fresh(k) THEN Quoted
                            ELSE [at |-> "asked", price |-> 0, known |-> Entry(k)])
  /\ UNCHANGED <<market, cache, clearing, expiring>>

\* A provider answers; the answer is on its way.
Answer(c, k) ==
  /\ fetch[c][k].at = "asked"
  /\ Goes(c, k, [at |-> "answered", price |-> market[k], known |-> FALSE])
  /\ UNCHANGED <<market, cache, clearing, expiring>>

StoreAnswer(c, k) ==
  /\ fetch[c][k].at = "answered"
  /\ Set(k, fetch[c][k].price)
  /\ Goes(c, k, Quoted)
  /\ UNCHANGED <<market, clearing, expiring>>

\* All providers fail: what the cache has, however old.
FallBack(c, k) ==
  /\ fetch[c][k].at = "asked"
  /\ Goes(c, k, IF Entry(k) THEN Quoted ELSE Missing(fetch[c][k].known))
  /\ UNCHANGED <<market, cache, clearing, expiring>>

\* The steps of a fetch
FetchStep(c, k) == StartFetch(c, k) \/ Answer(c, k) \/ StoreAnswer(c, k) \/ FallBack(c, k)

Fetched(c) == \A k \in Keys : fetch[c][k].at \in {"quoted", "missing"}

\* prefer_stale without a refresh: what _value_holdings and the other readers
\* of the dashboard show; they never ask a provider.
Shown(k) == cache[k].price
=============================================================================
