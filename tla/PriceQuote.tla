------------------------------ MODULE PriceQuote ------------------------------
(***************************************************************************)
(* The KRW price (market/btc-krw.ts): one lookup for all callers, a price  *)
(* kept for PRICE_CACHE_TTL_MS, and an older one told as stale when Upbit  *)
(* does not answer.  A price is known by the time Upbit read it.           *)
(***************************************************************************)
EXTENDS Integers

CONSTANTS
  Callers,       \* requests of GET /api/market/btc-krw at the same time
  PriceTtl,      \* PRICE_CACHE_TTL_MS, 5 s
  PriceTimeout,  \* PRICE_REQUEST_TIMEOUT_MS, 3.5 s
  PriceEnd       \* bound: no model time after it

ASSUME PriceAssumption == {PriceTtl, PriceTimeout, PriceEnd} \subseteq Nat \ {0}

VARIABLES
  priceTime,    \* Date.now(), in ticks
  cachedPrice,  \* cachedPrice: when it was read and fetchedAtMs, or none
  inFlight,     \* inFlightLookup: since when, or none
  callers       \* what each caller waits for or was told, and how old the price was then

priceVars == <<priceTime, cachedPrice, inFlight, callers>>

NoPrice  == [read |-> -1, fetchedAt |-> -1]
NoFlight == -1
Told(says, age) == [says |-> says, age |-> age]

PriceTypeOK ==
  /\ priceTime \in 0..PriceEnd
  /\ cachedPrice \in [read: -1..PriceEnd, fetchedAt: -1..PriceEnd]
  /\ inFlight \in -1..PriceEnd
  /\ callers \in [Callers -> [says: {"nothing", "waits", "online", "stale", "offline"}, age: 0..PriceEnd]]

PriceInit ==
  /\ priceTime = 0
  /\ cachedPrice = NoPrice
  /\ inFlight = NoFlight
  /\ callers = [c \in Callers |-> Told("nothing", 0)]

Online(price) == Told("online", priceTime - price.read)

\* unavailableResponse: the last price there was, however old, or none.
Unavailable == IF cachedPrice = NoPrice THEN Told("offline", 0)
               ELSE Told("stale", priceTime - cachedPrice.read)

CacheHit == cachedPrice # NoPrice /\ priceTime - cachedPrice.fetchedAt < PriceTtl

\* lookupBtcKrwPrice: from the cache, or with the lookup under way, or with a new one.
AskPrice(c) ==
  /\ callers[c].says # "waits"
  /\ IF CacheHit
     THEN /\ callers' = [callers EXCEPT ![c] = Online(cachedPrice)]
          /\ UNCHANGED inFlight
     ELSE /\ callers' = [callers EXCEPT ![c] = Told("waits", 0)]
          /\ inFlight' = IF inFlight = NoFlight THEN priceTime ELSE inFlight
  /\ UNCHANGED <<priceTime, cachedPrice>>

\* All who wait are told the same, and the lookup is forgotten (finally).
Land(told) ==
  /\ callers' = [c \in Callers |-> IF callers[c].says = "waits" THEN told ELSE callers[c]]
  /\ inFlight' = NoFlight

\* Mutant: the age of the price counts from the arrival of the answer.
UpbitAnswersCountedFromArrival ==
  /\ inFlight # NoFlight
  /\ \E read \in inFlight..priceTime :
       /\ cachedPrice' = [read |-> read, fetchedAt |-> priceTime]
       /\ Land(Online(cachedPrice'))
  /\ UNCHANGED priceTime

\* A ticker of the market with a positive price, read since the lookup began;
\* its age counts from then.
UpbitAnswers ==
  /\ inFlight # NoFlight
  /\ \E read \in inFlight..priceTime :
       /\ cachedPrice' = [read |-> read, fetchedAt |-> inFlight]
       /\ Land(Online(cachedPrice'))
  /\ UNCHANGED priceTime

\* An HTTP error, another payload, no connection, or the time is up.
UpbitFails ==
  /\ inFlight # NoFlight
  /\ Land(Unavailable)
  /\ UNCHANGED <<priceTime, cachedPrice>>

\* AbortSignal.timeout
PriceTick ==
  /\ priceTime < PriceEnd
  /\ inFlight # NoFlight => priceTime < inFlight + PriceTimeout
  /\ priceTime' = priceTime + 1
  /\ UNCHANGED <<cachedPrice, inFlight, callers>>

PriceNext == (\E c \in Callers : AskPrice(c)) \/ UpbitAnswers \/ UpbitFails \/ PriceTick

PriceSpec == PriceInit /\ [][PriceNext]_priceVars

\* How old a price told as online may be.
PriceStaleness == IF PriceTtl - 1 > PriceTimeout THEN PriceTtl - 1 ELSE PriceTimeout

\* A price told as online was read no longer ago than the cache keeps one or an
\* answer may take, and not both, and who waits waits for a lookup that is
\* under way (lookupBtcKrwPrice).
PriceIsRecent ==
  \A c \in Callers :
    /\ callers[c].says = "online" => callers[c].age <= PriceStaleness
    /\ callers[c].says = "waits" => inFlight # NoFlight
=============================================================================
