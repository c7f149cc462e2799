----------------------------- MODULE AddressUsage -----------------------------
(***************************************************************************)
(* Address usage as the API reads it from mempool (mempool/usage.ts,       *)
(* mempool/request.ts) and the scans that read it: the next receive        *)
(* address and the balance (vault/store.ts), the change address of a PSBT  *)
(* (psbt/build.ts).  Several scans run at the same time over one cache,    *)
(* every answer takes its own time, and addresses come into use meanwhile. *)
(*                                                                         *)
(* The branch of a wallet is 0..MaxDiscovery-1; of the statistics of an    *)
(* address the model keeps whether it is used, and a used one holds a      *)
(* balance of one coin.                                                    *)
(***************************************************************************)
EXTENDS Integers, FiniteSets, FiniteSetsExt

CONSTANTS
  MaxDiscovery,  \* maxAddressDiscoveryLimit, 200 in the code
  AddressLimit,  \* addressLimit of a PSBT, up to 100 in the code
  GapLimit,      \* wallet.gapLimit
  CacheTtl,      \* cacheTtlMs, 45 s
  Timeout,       \* MEMPOOL_REQUEST_TIMEOUT_MS, 4 s
  Concurrency,   \* MEMPOOL_LOOKUP_CONCURRENCY, 4
  Scans,         \* bound: scans, at the same time or one after the other
  MaxReceived,   \* bound: addresses that come into use after the start
  MaxFaults,     \* bound: attempts that fail, and answers that are not understood
  InitiallyUsed, \* bound: sets of addresses used long before the first scan
  Kinds,         \* what a scan may be: "next", "prefix", "change"
  EndOfTime      \* bound: no model time after it

ASSUME UsageAssumption ==
  /\ {MaxDiscovery, AddressLimit, GapLimit, CacheTtl, Timeout, Concurrency} \subseteq Nat \ {0}
  /\ AddressLimit <= MaxDiscovery
  /\ {MaxReceived, MaxFaults, EndOfTime} \subseteq Nat
  /\ Kinds \in [Scans -> SUBSET {"next", "prefix", "change"}]

VARIABLES
  time,        \* Date.now(), in ticks
  usedAt,      \* mempool: when an address came into use
  faults,      \* counts against MaxFaults
  usageCache,  \* usageCache: the value and expiresAt of an address
  scans        \* the scans: their place, what they have found, their lookups

usageVars == <<time, usedAt, faults, usageCache, scans>>

Branch  == 0..(MaxDiscovery - 1)
Workers == 1..Concurrency
Usage   == {"used", "unused", "unknown"}
Never   == EndOfTime + 1

\* How old the news of a lookup may be: as long as the cache keeps it and the
\* answer was on its way.
Staleness == CacheTtl + Timeout

\* Before any scan, and long before.
Long == -1 - Staleness

NoEntry  == [value |-> "unknown", expiresAt |-> 0]
NoLookup == [of |-> -1, since |-> 0, tries |-> 0]
NoScan   == [does |-> "nothing", long |-> {}, cursor |-> 0, last |-> 0, gap |-> FALSE, seen |-> {},
             used |-> {}, unused |-> {}, lookups |-> [w \in Workers |-> NoLookup]]

Scan == [does: {"nothing", "next", "prefix", "balance", "change", "found", "counted", "chosen", "delivered"},
         long: SUBSET Branch, cursor: 0..MaxDiscovery, last: 0..MaxDiscovery, gap: BOOLEAN,
         seen: SUBSET Branch, used: SUBSET Branch, unused: SUBSET Branch,
         lookups: [Workers -> [of: Branch \cup {-1}, since: 0..EndOfTime, tries: 0..1]]]

UsageTypeOK ==
  /\ time \in 0..EndOfTime
  /\ usedAt \in [Branch -> {Long} \cup 0..Never]
  /\ faults \in 0..MaxFaults
  /\ usageCache \in [Branch -> [value: Usage, expiresAt: 0..(EndOfTime + CacheTtl)]]
  /\ scans \in [Scans -> Scan]

UsageInit ==
  /\ time = 0
  /\ \E used \in InitiallyUsed : usedAt = [a \in Branch |-> IF a \in used THEN Long ELSE Never]
  /\ faults = 0
  /\ usageCache = [a \in Branch |-> NoEntry]
  /\ scans = [s \in Scans |-> NoScan]

-----------------------------------------------------------------------------
(* What a scan makes of one answer *)

Known(s)   == s.used \cup s.unused
Unknown(s) == s.seen \ Known(s)

\* The addresses after a that are of the set, one after the other up to the last seen.
RunOf(s, set) == LET last == Max(s.seen \cup {-1})
                 IN  Max({n \in 0..(last + 1) : \A i \in (last - n + 1)..last : i \in set})

\* Mutant: a lookup that failed does not end the run.
RunOfNotUsed(s) == RunOf(s, s.seen \ s.used)

\* consecutiveUnused and consecutiveUnknown of discoverNextUnusedAddress
RunOfUnused(s) == RunOf(s, s.unused)

ThreeOr(n)   == IF n < 3 THEN n ELSE 3

GapReached(s) == RunOfUnused(s) >= GapLimit
StopsAt(s)   == GapReached(s) \/ RunOf(s, Unknown(s)) >= ThreeOr(GapLimit)

\* nextUnusedAddress: the one after the last used, when its lookup says unused.
NextUnused(s) == LET next == Max(s.used \cup {-1}) + 1
                 IN  IF next \in s.unused THEN {next} ELSE {}

\* The answer for a is in, and one of before is of no interest any more.
Noted(s, a, usage) ==
  [s EXCEPT !.seen = @ \cup {a},
            !.used = IF usage = "used" THEN @ \cup {a} ELSE @ \ {a},
            !.unused = IF usage = "unused" THEN @ \cup {a} ELSE @ \ {a}]

\* deriveBalanceAddressWindow: the addresses checked are those whose balance counts.
Window(s, checked) == [s EXCEPT !.does = "balance", !.last = checked, !.cursor = 0, !.seen = {}]

\* lookupAddressUsageRecords, lookupAddressBalanceRecords: one answer for each
AllAnswered(s) == Cardinality(s.seen) = s.last

\* How a scan goes on after the answer for a: a discovery with the next address
\* until it stops, the others until they have all answers.
Recorded(s, a, usage) ==
  LET t == Noted(s, a, usage)
      ended == [t EXCEPT !.gap = GapReached(t)]
      ends == StopsAt(t) \/ a = MaxDiscovery - 1
  IN  CASE s.does = "next" /\ ends -> [ended EXCEPT !.does = "found"]
        [] s.does = "prefix" /\ ends -> Window(ended, a + 1)
        [] s.does = "balance" /\ AllAnswered(t) -> [t EXCEPT !.does = "counted"]
        [] s.does = "change" /\ AllAnswered(t) -> [t EXCEPT !.does = "chosen"]
        [] OTHER -> t

-----------------------------------------------------------------------------
(* Lookups *)

\* A discovery awaits one lookup after the other, the other scans are spread over the
\* workers of mapWithConcurrency: a free one takes the next index.
Free(s, w) ==
  /\ scans[s].lookups[w] = NoLookup
  /\ scans[s].cursor < scans[s].last
  /\ \/ scans[s].does \in {"balance", "change"}
     \/ scans[s].does \in {"next", "prefix"} /\ \A v \in Workers : scans[s].lookups[v] = NoLookup
  /\ \A v \in Workers : v < w => scans[s].lookups[v] # NoLookup

Results == {"found", "counted", "chosen"}

\* Node runs a handler up to its next await before anything else.
Idle == \A s \in Scans : scans[s].does \notin Results /\ \A w \in Workers : ~Free(s, w)

\* The scan returns: to the page, or to createWalletPsbt.
Deliver(s) ==
  /\ scans[s].does \in Results
  /\ scans' = [scans EXCEPT ![s] = [NoScan EXCEPT !.does = "delivered"]]
  /\ UNCHANGED <<time, usedAt, faults, usageCache>>

\* Mutant: an expired entry is still an answer.
CachedForEver(a) == usageCache[a] # NoEntry

Cached(a) == usageCache[a].expiresAt > time

TakeCached(s, w) ==
  /\ Free(s, w)
  /\ LET a == scans[s].cursor
     IN  /\ Cached(a)
         /\ scans' = [scans EXCEPT ![s] = Recorded([@ EXCEPT !.cursor = a + 1], a, usageCache[a].value)]
  /\ UNCHANGED <<time, usedAt, faults, usageCache>>

Ask(s, w) ==
  /\ Free(s, w)
  /\ LET a == scans[s].cursor
     IN  /\ ~Cached(a)
         /\ scans' = [scans EXCEPT ![s].cursor = a + 1,
                                   ![s].lookups[w] = [NoLookup EXCEPT !.of = a, !.since = time]]
  /\ UNCHANGED <<time, usedAt, faults, usageCache>>

\* Something does not go as it should.
Fault == faults < MaxFaults /\ faults' = faults + 1

\* What mempool may have answered: it read its statistics at some moment since
\* the attempt began.  Counts or sums that are no natural numbers are unknown
\* (classifyMempoolAddressStats).
Readings(lookup) ==
  {"unknown"} \cup (IF usedAt[lookup.of] <= time THEN {"used"} ELSE {})
              \cup (IF usedAt[lookup.of] >= lookup.since THEN {"unused"} ELSE {})

\* pruneExpiredCache after the entry of a is set
Stored(a, usage) ==
  [b \in Branch |-> IF b = a THEN [value |-> usage, expiresAt |-> time + CacheTtl]
                    ELSE IF usageCache[b].expiresAt <= time THEN NoEntry ELSE usageCache[b]]

\* The answer arrives: cached from now on, whatever was cached in between.
Arrive(s, w) ==
  LET lookup == scans[s].lookups[w]
  IN  /\ Idle
      /\ lookup.of \in Branch
      /\ \E usage \in Readings(lookup) :
           /\ IF usage = "unknown" THEN Fault ELSE UNCHANGED faults
           /\ usageCache' = Stored(lookup.of, usage)
           /\ scans' = [scans EXCEPT ![s] = Recorded([@ EXCEPT !.lookups[w] = NoLookup], lookup.of, usage)]
      /\ UNCHANGED <<time, usedAt>>

\* withMempoolRetry: no connection, or the time is up; once more.
Retry(s, w) ==
  LET lookup == scans[s].lookups[w]
  IN  /\ Idle
      /\ lookup.of \in Branch
      /\ lookup.tries = 0
      /\ scans' = [scans EXCEPT ![s].lookups[w] = [lookup EXCEPT !.tries = 1, !.since = time]]
      /\ Fault
      /\ UNCHANGED <<time, usedAt, usageCache>>

\* An HTTP error, or the second attempt fails: unknown, and not cached.
Fail(s, w) ==
  LET lookup == scans[s].lookups[w]
  IN  /\ Idle
      /\ lookup.of \in Branch
      /\ scans' = [scans EXCEPT ![s] = Recorded([@ EXCEPT !.lookups[w] = NoLookup], lookup.of, "unknown")]
      /\ Fault
      /\ UNCHANGED <<time, usedAt, usageCache>>

\* History: used long enough for no cache to hide it.
LongUsed == {a \in Branch : usedAt[a] < time - Staleness}

Limit(kind) == IF kind = "change" THEN AddressLimit ELSE MaxDiscovery

\* A scan is asked for: GET balance, GET next receive, POST psbt with change.
StartScan(s) ==
  /\ Idle
  /\ scans[s].does = "nothing"
  /\ \E kind \in Kinds[s] :
       scans' = [scans EXCEPT ![s] = [NoScan EXCEPT !.does = kind, !.long = LongUsed,
                                                    !.last = Limit(kind)]]
  /\ UNCHANGED <<time, usedAt, faults, usageCache>>

(* The world *)

\* An address receives its first transaction.
Receive(a) ==
  /\ Idle
  /\ usedAt[a] = Never
  /\ Cardinality({b \in Branch : usedAt[b] \in 0..EndOfTime}) < MaxReceived
  /\ usedAt' = [usedAt EXCEPT ![a] = time]
  /\ UNCHANGED <<time, faults, usageCache, scans>>

\* AbortSignal.timeout: an attempt is not older than Timeout.
Tick ==
  /\ Idle
  /\ time < EndOfTime
  /\ \A s \in Scans, w \in Workers :
       scans[s].lookups[w].of \in Branch => time < scans[s].lookups[w].since + Timeout
  /\ time' = time + 1
  /\ UNCHANGED <<usedAt, faults, usageCache, scans>>

UsageNext ==
  \/ Tick
  \/ \E a \in Branch : Receive(a)
  \/ \E s \in Scans :
       \/ StartScan(s) \/ Deliver(s)
       \/ \E w \in Workers : TakeCached(s, w) \/ Ask(s, w) \/ Arrive(s, w) \/ Retry(s, w) \/ Fail(s, w)

UsageSpec == UsageInit /\ [][UsageNext]_usageVars

-----------------------------------------------------------------------------

\* An answer in the cache is not news of long ago, however many lookups of the
\* address overlapped and whichever of them ended last: unused was still so at
\* most Staleness ago (lookupAddressStats).
CacheIsRecent ==
  \A a \in Branch :
    Cached(a) => CASE usageCache[a].value = "unused" -> usedAt[a] >= time - Staleness
                   [] usageCache[a].value = "used" -> usedAt[a] <= time
                   [] OTHER -> TRUE

\* No scan calls an address unused, or offers it for receiving or for change,
\* that was in use long before it began.  A discovery that says it is complete
\* ended with as many addresses as the gap of which none was, whatever lookups
\* failed before those.  When none failed, an address long in use is below the
\* one offered or beyond the gap, and the balance counts its coins or it is
\* beyond the addresses checked (discoverNextUnusedAddress: nextUnusedAddress,
\* discoveryComplete, lookupFailed; deriveWalletBalance: usageStatus;
\* findNextChangeAddress).
ScansAreSound ==
  \A i \in Scans : LET s == scans[i] IN
    /\ s.unused \cap s.long = {}
    /\ s.gap /\ s.does = "found" => \A a \in s.long \cap s.seen : a <= Max(s.seen) - GapLimit
    /\ s.gap /\ Unknown(s) = {} =>
         /\ s.does = "found" => \A next \in NextUnused(s), a \in s.long : a < next \/ a >= next + GapLimit
         /\ s.does = "counted" => \A a \in s.long : a \in s.used \/ a >= s.last
=============================================================================
